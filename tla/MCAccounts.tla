----------------------------- MODULE MCAccounts -----------------------------
(* Small instances of Accounts for TLC. *)
EXTENDS Accounts, TLC

CONSTANTS ana, ben, joy, ken

Everybody == {ana, ben, joy, ken}
Officers == {joy, ken}
Applicants == {ben}
Buyers == {ben}

(* The officers only differ in name. *)
Symmetric == Permutations(Officers)
=============================================================================
