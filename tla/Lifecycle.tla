----------------------------- MODULE Lifecycle -----------------------------
(***************************************************************************)
(* The auction state machine every component promises to follow: the       *)
(* statuses of Auction.Status and the table ALLOWED_TRANSITIONS that       *)
(* transition() enforces.  As a specification of its own it is the most    *)
(* abstract view of one auction: a status that moves along the table.  The *)
(* detailed modules instantiate it with their own status variable.         *)
(***************************************************************************)
VARIABLE status

Status == {"DRAFT", "SUBMITTED", "APPROVED", "REJECTED", "SCHEDULED", "LIVE",
           "PAUSED", "CLOSED", "SETTLED", "COMPLETED", "CANCELLED", "DISPUTED"}

(***************************************************************************)
(* AllowedTransitions[from] is the set of statuses transition() accepts.   *)
(***************************************************************************)
AllowedTransitions ==
  [from \in Status |->
     CASE from = "DRAFT"     -> {"SUBMITTED", "CANCELLED"}
       [] from = "SUBMITTED" -> {"APPROVED", "REJECTED"}
       [] from = "APPROVED"  -> {"SCHEDULED"}
       [] from = "SCHEDULED" -> {"LIVE", "CANCELLED"}
       [] from = "LIVE"      -> {"PAUSED", "CLOSED", "CANCELLED", "DISPUTED"}
       [] from = "PAUSED"    -> {"LIVE", "CANCELLED"}
       [] from = "CLOSED"    -> {"SETTLED", "DISPUTED"}
       [] from = "SETTLED"   -> {"COMPLETED", "DISPUTED"}
       [] from = "DISPUTED"  -> {"CLOSED"}
       [] OTHER              -> {}]

CanMove(from, to) == to \in AllowedTransitions[from]

Move == \E to \in Status : CanMove(status, to) /\ status' = to

(***************************************************************************)
(* resolve_dispute makes two moves, to CLOSED and on to SETTLED, in one    *)
(* transaction: nobody sees the auction CLOSED in between.                 *)
(***************************************************************************)
RestoreSettled == status = "DISPUTED" /\ status' = "SETTLED"

Init == status = "DRAFT"

(***************************************************************************)
(* What a component that starts later in an auction's life promises:       *)
(* whatever the first status, every step follows the table.                *)
(***************************************************************************)
Steps == [][Move \/ RestoreSettled]_status

Spec == Init /\ Steps

=============================================================================
