-------------------------------- MODULE Sale --------------------------------
(***************************************************************************)
(* What settlement promises to buyer, seller and officers, with no rows,   *)
(* locks or requests in it. The money of a sale takes one way: it falls    *)
(* due once, is paid or given up once, and is returned only after it was   *)
(* paid and only as the end of a dispute. A sale is settled at the moment  *)
(* it is paid or not at all, and certainly settled then if nobody ever     *)
(* disputed it; a dispute suspends that, and only a refund takes it away.  *)
(***************************************************************************)
VARIABLES
  money,      \* "open", "unsold", "due", "paid", "failed" or "refunded"
  contested,  \* a dispute is going on
  disputed,   \* there has been a dispute
  settled     \* paid and to be handed over, once no dispute is going on

saleVars == <<money, contested, disputed, settled>>

Init ==
  /\ money = "open"
  /\ contested = FALSE /\ disputed = FALSE /\ settled = FALSE

Close ==
  /\ money = "open"
  /\ money' \in {"unsold", "due"}
  /\ UNCHANGED <<contested, disputed, settled>>

(* A payment during a dispute settles nothing, then or later; nor need one *)
(* that was begun during a dispute.                                        *)
Pay ==
  /\ money = "due" /\ money' = "paid"
  /\ settled' \in {FALSE, ~contested}
  /\ ~disputed => settled'
  /\ UNCHANGED <<contested, disputed>>

GiveUp ==
  /\ money = "due" /\ money' = "failed"
  /\ UNCHANGED <<contested, disputed, settled>>

Contest ==
  /\ money # "open"
  /\ ~contested /\ contested' = TRUE
  /\ disputed' = TRUE
  /\ UNCHANGED <<money, settled>>

Dismiss ==
  /\ contested /\ contested' = FALSE
  /\ UNCHANGED <<money, disputed, settled>>

Refund ==
  /\ contested /\ contested' = FALSE
  /\ money = "paid" /\ money' = "refunded"
  /\ settled' = FALSE
  /\ UNCHANGED disputed

Next == Close \/ Pay \/ GiveUp \/ Contest \/ Dismiss \/ Refund

Spec == Init /\ [][Next]_saleVars
=============================================================================
