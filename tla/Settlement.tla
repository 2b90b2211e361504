----------------------------- MODULE Settlement -----------------------------
(***************************************************************************)
(* An auction from the moment it closes: officers record what became of    *)
(* the payment, and the people in the auction raise disputes that officers *)
(* resolve.                                                                *)
(*                                                                         *)
(* The payment services work on the Payment object the view loaded, not on *)
(* a locked row, so between loading and recording another request may have *)
(* recorded something else.  request[w] is what the request web worker w   *)
(* is busy with holds: nothing, a loaded payment, a mark_paid transaction  *)
(* that has written the payment row and not committed, or a                *)
(* resolve_dispute transaction that holds the dispute row.  Two requests   *)
(* that overlap are on two workers, whoever sent them: two officers, or    *)
(* one who submits a form twice.  The auction row is only locked within a  *)
(* step.                                                                   *)
(* Operators named X_Slip are X with a plausible slip, as in AuctionEngine.*)
(***************************************************************************)
EXTENDS Naturals, Sequences

CONSTANTS
  Workers,         \* web workers, each busy with one request at a time
  Recorders,       \* the workers that get requests to record a payment
  Users,           \* who may try to raise a dispute
  Participants,    \* auction_participants: seller, winner and bidders
  MaxDisputes      \* bound on the disputes of a behaviour

ASSUME SettlementAssumption ==
  Recorders \subseteq Workers /\ Participants \subseteq Users /\ MaxDisputes \in Nat

VARIABLES
  status,     \* Auction.status
  payment,    \* Payment.status, "NONE": not closed yet, or without a winner
  disputes,   \* the Dispute rows of this auction in creation order
  request     \* per worker, the request in progress

vars == <<status, payment, disputes, request>>

AuctionStatus == {"LIVE", "CLOSED", "SETTLED", "DISPUTED"}
PaymentStatus == {"NONE", "PENDING", "PAID", "FAILED", "REFUNDED"}

Idle          == [step |-> "idle"]
Loaded(seen)  == [step |-> "loaded", seen |-> seen]
Paying(saw)   == [step |-> "paying", auction |-> saw]
Resolving(d, refund) == [step |-> "resolving", dispute |-> d, refund |-> refund]

LC == INSTANCE Lifecycle

Active == {d \in DOMAIN disputes : disputes[d].status \in {"OPEN", "UNDER_REVIEW"}}

(* An uncommitted UPDATE keeps the payment row locked. *)
PaymentRowFree == \A w \in Workers : request[w].step # "paying"

(* resolve_dispute holds its dispute row with select_for_update. *)
DisputeRowFree_Slip(d) == TRUE

DisputeRowFree(d) ==
  \A w \in Workers : request[w].step = "resolving" => request[w].dispute # d

Init ==
  /\ status = "LIVE"
  /\ payment = "NONE"
  /\ disputes = <<>>
  /\ request = [w \in Workers |-> Idle]

SetRequest(w, r) == request' = [request EXCEPT ![w] = r]

----------------------------------------------------------------------------
(* close_auction creates the payment in its own transaction if there is a  *)
(* winner; AuctionEngine says when there is one.                           *)
CloseAuction ==
  /\ status = "LIVE"
  /\ status' = "CLOSED"
  /\ payment' \in {"NONE", "PENDING"}
  /\ UNCHANGED <<disputes, request>>

(* get_object_or_404(Payment): the object a payment service will test. *)
LoadPayment(w) ==
  /\ request[w] = Idle
  /\ payment # "NONE"
  /\ SetRequest(w, Loaded(payment))
  /\ UNCHANGED <<status, payment, disputes>>

IsPending_Slip(w) == request[w].step = "loaded"

IsPending(w) == request[w] = Loaded("PENDING")

(* Either service raises ValueError on an object that is not PENDING. *)
RefusePayment(w) ==
  /\ request[w].step = "loaded" /\ request[w].seen # "PENDING"
  /\ SetRequest(w, Idle)
  /\ UNCHANGED <<status, payment, disputes>>

(* mark_paid, first half: write the payment row, read auction.status.      *)
WritePaid(w) ==
  /\ IsPending(w)
  /\ PaymentRowFree
  /\ SetRequest(w, Paying(status))
  /\ UNCHANGED <<status, payment, disputes>>

CommitPaid_Slip(w) ==
  /\ request[w].step = "paying"
  /\ payment' = "PAID"
  /\ SetRequest(w, Idle)
  /\ UNCHANGED <<status, disputes>>

(* Second half: settle the auction if it was CLOSED, notify, commit.  If   *)
(* the auction has moved since, transition() raises and all is undone.     *)
CommitPaid(w) ==
  /\ request[w].step = "paying"
  /\ \/ /\ request[w].auction = "CLOSED"
        /\ LC!CanMove(status, "SETTLED")
        /\ status' = "SETTLED"
     \/ request[w].auction # "CLOSED" /\ UNCHANGED status
  /\ payment' = "PAID"
  /\ SetRequest(w, Idle)
  /\ UNCHANGED disputes

(* InvalidTransition, or a failure while notifying. *)
RollbackPaid(w) ==
  /\ request[w].step = "paying"
  /\ SetRequest(w, Idle)
  /\ UNCHANGED <<status, payment, disputes>>

(* mark_failed is one UPDATE outside any transaction: it waits for the row *)
(* and then overwrites whatever it finds.                                  *)
MarkFailed(w) ==
  /\ IsPending(w)
  /\ PaymentRowFree
  /\ payment' = "FAILED"
  /\ SetRequest(w, Idle)
  /\ UNCHANGED <<status, disputes>>

----------------------------------------------------------------------------
(* The page and the service, under the auction's lock, check the same. *)
CanRaise(user) ==
  /\ status \in {"CLOSED", "SETTLED"}
  /\ user \in Participants
  /\ Active = {}

OpenDispute(user) ==
  /\ Len(disputes) < MaxDisputes
  /\ CanRaise(user)
  /\ disputes' = Append(disputes, [status |-> "OPEN", before |-> status,
                                   refunded |-> FALSE])
  /\ status' = "DISPUTED"
  /\ UNCHANGED <<payment, request>>

TakeForReview(d) ==
  /\ DisputeRowFree(d)
  /\ disputes[d].status = "OPEN"
  /\ disputes' = [disputes EXCEPT ![d].status = "UNDER_REVIEW"]
  /\ UNCHANGED <<status, payment, request>>

(* resolve_dispute, first half: lock the dispute, check it is active, read *)
(* the payment and, for a refund, check that it is PAID.                   *)
BeginResolve(w, d, refund) ==
  /\ request[w] = Idle
  /\ DisputeRowFree(d)
  /\ d \in Active
  /\ refund => payment = "PAID"
  /\ SetRequest(w, Resolving(d, refund))
  /\ UNCHANGED <<status, payment, disputes>>

(* Where the auction goes back to. *)
ReturnStatus_Slip(d, refund) == disputes[d].before

ReturnStatus_SlipCancel(d, refund) ==
  IF refund THEN "CANCELLED" ELSE disputes[d].before

ReturnStatus(d, refund) ==
  IF disputes[d].before = "SETTLED" /\ ~refund THEN "SETTLED" ELSE "CLOSED"

(* Second half: mark_refunded writes the row it read before, transition()  *)
(* takes the auction back, the dispute is RESOLVED, commit.                *)
CommitResolve(w) ==
  /\ request[w].step = "resolving"
  /\ LC!CanMove(status, "CLOSED")
  /\ request[w].refund => PaymentRowFree
  /\ LET d == request[w].dispute
         refund == request[w].refund
     IN  /\ payment' = IF refund THEN "REFUNDED" ELSE payment
         /\ status' = ReturnStatus(d, refund)
         /\ disputes' = [disputes EXCEPT ![d].status = "RESOLVED",
                                         ![d].refunded = refund]
  /\ SetRequest(w, Idle)

RollbackResolve(w) ==
  /\ request[w].step = "resolving"
  /\ SetRequest(w, Idle)
  /\ UNCHANGED <<status, payment, disputes>>

----------------------------------------------------------------------------
(* Any request may be either; with one recorder payments are recorded one  *)
(* request at a time.                                                      *)
RecordPayment(w) ==
  \/ LoadPayment(w) \/ RefusePayment(w)
  \/ WritePaid(w) \/ CommitPaid(w) \/ RollbackPaid(w)
  \/ MarkFailed(w)

Resolve(w) ==
  \/ \E d \in DOMAIN disputes, refund \in BOOLEAN : BeginResolve(w, d, refund)
  \/ CommitResolve(w) \/ RollbackResolve(w)

Next ==
  \/ CloseAuction
  \/ \E w \in Recorders : RecordPayment(w)
  \/ \E w \in Workers : Resolve(w)
  \/ \E u \in Users : OpenDispute(u)
  \/ \E d \in DOMAIN disputes : TakeForReview(d)

Spec == Init /\ [][Next]_vars

----------------------------------------------------------------------------
(***************************************************************************)
(*                              Properties                                 *)
(***************************************************************************)
DisputeRow == [status : {"OPEN", "UNDER_REVIEW", "RESOLVED"},
               before : {"CLOSED", "SETTLED"}, refunded : BOOLEAN]

(* Type invariant: rows and requests hold values the services allow.       *)
TypeOK ==
  /\ status \in AuctionStatus
  /\ payment \in PaymentStatus
  /\ disputes \in Seq(DisputeRow)
  /\ request \in [Workers ->
       {Idle} \cup {Loaded(p) : p \in PaymentStatus}
              \cup {Paying(s) : s \in AuctionStatus}
              \cup {Resolving(d, r) : d \in DOMAIN disputes, r \in BOOLEAN}]

(* The auction is DISPUTED exactly while one dispute on it is active, and  *)
(* never two, also when officers resolve and users raise at the same time. *)
OneActiveDispute ==
  /\ status = "DISPUTED" <=> Active # {}
  /\ \A d, e \in Active : d = e

(* A resolution in progress is about an active dispute, and the only one,  *)
(* until it commits: resolve_dispute checked the dispute once, and holding *)
(* its row is enough for the check to stay true.                           *)
ResolvesActive ==
  \A w \in Workers : request[w].step = "resolving" =>
    /\ request[w].dispute \in Active
    /\ \A p \in Workers \ {w} : request[p].step # "resolving"

(* Every status change follows ALLOWED_TRANSITIONS, the return from a      *)
(* dispute to SETTLED by way of CLOSED included.                           *)
FollowsLifecycle == LC!Steps

(* A SETTLED auction is "paid, not yet handed over": its payment is PAID,  *)
(* also after it went through disputes and refunds.  Holds when payments   *)
(* are recorded one request at a time, broken when two overlap.            *)
SettledIsPaid == status = "SETTLED" => payment = "PAID"

(* The payment is REFUNDED exactly when some dispute on the auction ended  *)
(* in a refund, and nothing recorded later overwrites that.  Holds when    *)
(* payments are recorded one request at a time.                            *)
RefundIsRecorded ==
  payment = "REFUNDED" <=> \E d \in DOMAIN disputes : disputes[d].refunded

(* Docs: a payment leaves PENDING once, for PAID or FAILED, and only a     *)
(* PAID one can be refunded.  Holds when payments are recorded one request *)
(* at a time.                                                              *)
PaymentMovesForward ==
  [][payment' # payment => <<payment, payment'>> \in
       {<<"NONE", "PENDING">>, <<"PENDING", "PAID">>, <<"PENDING", "FAILED">>,
        <<"PAID", "REFUNDED">>}]_vars

(* Docs: CLOSED -> SETTLED "once payment is confirmed", and a dispute      *)
(* returns to SETTLED "if it had already been paid".                       *)
PaidIsSettled == payment = "PAID" => status # "CLOSED"

(* What the rows say about the sale. *)
Money ==
  CASE payment = "NONE" -> IF status = "LIVE" THEN "open" ELSE "unsold"
    [] payment = "PENDING"  -> "due"
    [] payment = "PAID"     -> "paid"
    [] payment = "FAILED"   -> "failed"
    [] payment = "REFUNDED" -> "refunded"

Contested == status = "DISPUTED"

Disputed == disputes # <<>>

Settled == status = "SETTLED" \/ \E d \in Active : disputes[d].before = "SETTLED"

Promise == INSTANCE Sale WITH
  money <- Money, contested <- Contested, disputed <- Disputed,
  settled <- Settled

(* Settlement implements the sale: whatever requests are in the middle of, *)
(* the payment, the disputes and the auction's status move together as the *)
(* money of one sale does.  Holds when payments are recorded one request   *)
(* at a time.                                                              *)
RefinesSale == Promise!Spec
=============================================================================
