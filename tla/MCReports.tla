----------------------------- MODULE MCReports -----------------------------
(* Small instances of Settlement and Reports for TLC. *)
EXTENDS Reports

CONSTANTS w1, w2, winner, stranger

OneWorker == {w1}
TwoWorkers == {w1, w2}
People == {winner, stranger}
Entitled == {winner}
=============================================================================
