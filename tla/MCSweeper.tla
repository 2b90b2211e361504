------------------------------ MODULE MCSweeper ------------------------------
(* Small instances of Sweeper for TLC. *)
EXTENDS Sweeper

CONSTANTS activate, close, click

ActivateCommand == {activate}
CloseCommand == {close}
Clicks == {click}
=============================================================================
