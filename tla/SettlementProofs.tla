-------------------------- MODULE SettlementProofs --------------------------
(* Theorems about Settlement, for every value of its constants. *)
EXTENDS Settlement, TLAPS

(***************************************************************************)
(* The disputes of an auction in creation order: raising one appends it as *)
(* the only new active dispute, ...                                        *)
(***************************************************************************)
LEMMA OpeningDisputes ==
  ASSUME NEW user \in Users, TypeOK, OpenDispute(user)
  PROVE  /\ disputes' \in Seq(DisputeRow)
         /\ DOMAIN disputes' = DOMAIN disputes \cup {Len(disputes) + 1}
         /\ Active' = {Len(disputes) + 1}
         /\ disputes'[Len(disputes) + 1].refunded = FALSE
         /\ disputes'[Len(disputes) + 1].before = status
         /\ \A d \in DOMAIN disputes : disputes'[d] = disputes[d]
<1> DEFINE r == [status |-> "OPEN", before |-> status, refunded |-> FALSE]
<1>1. r \in DisputeRow /\ disputes' = Append(disputes, r) /\ Active = {}
  BY DEF OpenDispute, CanRaise, DisputeRow
<1>2. /\ disputes' \in Seq(DisputeRow)
      /\ Len(disputes) \in Nat /\ DOMAIN disputes = 1 .. Len(disputes)
      /\ DOMAIN disputes' = 1 .. Len(disputes) + 1
      /\ disputes'[Len(disputes) + 1] = r
      /\ \A d \in DOMAIN disputes : disputes'[d] = disputes[d]
  BY <1>1 DEF TypeOK
<1>3. DOMAIN disputes' = DOMAIN disputes \cup {Len(disputes) + 1}
  BY <1>2
<1>4. Active' = {Len(disputes) + 1}
  BY <1>1, <1>2, <1>3 DEF Active
<1> QED
  BY <1>2, <1>3, <1>4

(***************************************************************************)
(* ... taking one for review leaves it active, ...                         *)
(***************************************************************************)
LEMMA ReviewingDisputes ==
  ASSUME NEW d \in DOMAIN disputes, TypeOK, TakeForReview(d)
  PROVE  /\ disputes' \in Seq(DisputeRow)
         /\ DOMAIN disputes' = DOMAIN disputes
         /\ Active' = Active
         /\ \A e \in DOMAIN disputes : /\ disputes'[e].before = disputes[e].before
                                       /\ disputes'[e].refunded = disputes[e].refunded
<1>1. /\ disputes \in Seq(DisputeRow) /\ disputes[d].status = "OPEN"
      /\ disputes' = [disputes EXCEPT ![d].status = "UNDER_REVIEW"]
  BY DEF TakeForReview, TypeOK
<1>2. DOMAIN disputes = 1 .. Len(disputes) /\ Len(disputes) \in Nat
      /\ \A e \in DOMAIN disputes : disputes[e] \in DisputeRow
  BY <1>1
<1>3. /\ DOMAIN disputes' = DOMAIN disputes
      /\ \A e \in DOMAIN disputes :
           /\ disputes'[e] \in DisputeRow
           /\ disputes'[e].before = disputes[e].before
           /\ disputes'[e].refunded = disputes[e].refunded
           /\ disputes'[e].status = IF e = d THEN "UNDER_REVIEW" ELSE disputes[e].status
  BY <1>1, <1>2 DEF DisputeRow
<1>4. disputes' \in Seq(DisputeRow)
  <2>1. disputes' \in [1 .. Len(disputes) -> DisputeRow]
    BY <1>1, <1>2, <1>3
  <2> QED
    BY <1>2, <2>1
<1>5. Active' = Active
  BY <1>1, <1>3 DEF Active
<1> QED
  BY <1>3, <1>4, <1>5

(***************************************************************************)
(* ... and resolving one makes just that one inactive.                     *)
(***************************************************************************)
LEMMA ResolvingDisputes ==
  ASSUME TypeOK, NEW d \in DOMAIN disputes, NEW refund \in BOOLEAN,
         disputes' = [disputes EXCEPT ![d].status = "RESOLVED", ![d].refunded = refund]
  PROVE  /\ disputes' \in Seq(DisputeRow)
         /\ DOMAIN disputes' = DOMAIN disputes
         /\ Active' = Active \ {d}
         /\ disputes'[d].refunded = refund
         /\ \A e \in DOMAIN disputes :
              /\ disputes'[e].before = disputes[e].before
              /\ e # d => disputes'[e].refunded = disputes[e].refunded
<1>1. DOMAIN disputes = 1 .. Len(disputes) /\ Len(disputes) \in Nat
      /\ \A e \in DOMAIN disputes : disputes[e] \in DisputeRow
  BY DEF TypeOK
<1>2. /\ DOMAIN disputes' = DOMAIN disputes
      /\ \A e \in DOMAIN disputes :
           /\ disputes'[e] \in DisputeRow
           /\ disputes'[e].before = disputes[e].before
           /\ disputes'[e].refunded = IF e = d THEN refund ELSE disputes[e].refunded
           /\ disputes'[e].status = IF e = d THEN "RESOLVED" ELSE disputes[e].status
  BY <1>1 DEF DisputeRow
<1>3. disputes' \in Seq(DisputeRow)
  <2>1. disputes' \in [1 .. Len(disputes) -> DisputeRow]
    BY <1>1, <1>2
  <2>2. \A n \in Nat : [1 .. n -> DisputeRow] \subseteq Seq(DisputeRow)
    OBVIOUS
  <2> QED
    BY <1>1, <2>1, <2>2
<1>4. Active' = Active \ {d}
  BY <1>2 DEF Active
<1> QED
  BY <1>2, <1>3, <1>4

----------------------------------------------------------------------------
(***************************************************************************)
(* One active dispute.  The invariant is inductive with its parts          *)
(* together: a resolution in progress still is about the active dispute    *)
(* because it holds its row and no second dispute can be raised meanwhile. *)
(***************************************************************************)
DisputeInv == TypeOK /\ OneActiveDispute /\ ResolvesActive

Requests == {Idle} \cup {Loaded(p) : p \in PaymentStatus}
              \cup {Paying(s) : s \in AuctionStatus}
              \cup {Resolving(d, r) : d \in DOMAIN disputes, r \in BOOLEAN}

(* What a request holds in each of its steps. *)
LEMMA RequestShapes ==
  ASSUME TypeOK, NEW w \in Workers
  PROVE  /\ request[w].step \in {"idle", "loaded", "paying", "resolving"}
         /\ request[w].step = "loaded" => request[w].seen \in PaymentStatus
         /\ request[w].step = "paying" =>
              request[w].auction \in AuctionStatus
         /\ request[w].step = "resolving" =>
              /\ request[w].dispute \in DOMAIN disputes
              /\ request[w].refund \in BOOLEAN
<1>1. request[w] \in Requests
  BY DEF TypeOK, Requests
<1> QED
  BY <1>1 DEF Requests, Idle, Loaded, Paying, Resolving

(* A step of one worker's request touches nobody else's. *)
LEMMA RequestStep ==
  ASSUME TypeOK, NEW w \in Workers, NEW r, SetRequest(w, r),
         DOMAIN disputes' = DOMAIN disputes, r \in Requests
  PROVE  /\ request' \in [Workers -> Requests']
         /\ request'[w] = r
         /\ \A p \in Workers \ {w} : request'[p] = request[p]
<1>1. request \in [Workers -> Requests]
  BY DEF TypeOK, Requests
<1>2. Requests' = Requests
  BY DEF Requests
<1> QED
  BY <1>1, <1>2 DEF SetRequest

(***************************************************************************)
(* Recording a payment does not disturb disputes: the auction can only     *)
(* move from CLOSED to SETTLED, and no resolution starts, ends or changes. *)
(***************************************************************************)
LEMMA PaymentSteps ==
  ASSUME TypeOK, NEW w \in Recorders, RecordPayment(w)
  PROVE  /\ UNCHANGED disputes
         /\ payment' \in PaymentStatus
         /\ status' = status \/ (status = "CLOSED" /\ status' = "SETTLED")
         /\ request' \in [Workers -> Requests']
         /\ \A p \in Workers :
              request[p].step = "resolving" \/ request'[p].step = "resolving" =>
                request'[p] = request[p]
<1>0. w \in Workers
  BY SettlementAssumption
<1>1. request[w].step # "resolving"
  BY DEF RecordPayment, LoadPayment, RefusePayment, WritePaid, CommitPaid,
         RollbackPaid, MarkFailed, IsPending, Idle, Loaded
<1>2. UNCHANGED disputes
  BY DEF RecordPayment, LoadPayment, RefusePayment, WritePaid, CommitPaid,
         RollbackPaid, MarkFailed
<1>3. payment' \in PaymentStatus
  BY DEF TypeOK, PaymentStatus, RecordPayment, LoadPayment, RefusePayment,
         WritePaid, CommitPaid, RollbackPaid, MarkFailed
<1>4. status' = status \/ (status = "CLOSED" /\ status' = "SETTLED")
  <2>1. LC!CanMove(status, "SETTLED") => status = "CLOSED"
    BY DEF TypeOK, AuctionStatus, LC!CanMove, LC!AllowedTransitions, LC!Status
  <2> QED
    BY <2>1 DEF RecordPayment, LoadPayment, RefusePayment, WritePaid, CommitPaid,
                RollbackPaid, MarkFailed
<1>5. PICK r \in Requests : SetRequest(w, r) /\ r.step # "resolving"
  <2>1. CASE LoadPayment(w)
    BY <2>1 DEF LoadPayment, Requests, Loaded, TypeOK
  <2>2. CASE WritePaid(w)
    BY <2>2 DEF WritePaid, Requests, Paying, TypeOK
  <2>3. CASE RefusePayment(w) \/ CommitPaid(w) \/ RollbackPaid(w) \/ MarkFailed(w)
    BY <2>3 DEF RefusePayment, CommitPaid, RollbackPaid, MarkFailed, Requests, Idle
  <2> QED
    BY <2>1, <2>2, <2>3 DEF RecordPayment
<1>6. /\ request' \in [Workers -> Requests']
      /\ request'[w] = r
      /\ \A p \in Workers \ {w} : request'[p] = request[p]
  BY <1>0, <1>2, <1>5, RequestStep
<1> QED
  BY <1>1, <1>2, <1>3, <1>4, <1>5, <1>6

(* Closing leaves requests and disputes as they are. *)
LEMMA CloseStep ==
  ASSUME DisputeInv, CloseAuction
  PROVE  DisputeInv'
<1> USE DEF DisputeInv
<1>1. /\ status = "LIVE" /\ status' = "CLOSED"
      /\ payment' \in {"NONE", "PENDING"}
      /\ UNCHANGED <<disputes, request>>
  BY DEF CloseAuction
<1>2. TypeOK'
  BY <1>1 DEF TypeOK, AuctionStatus, PaymentStatus
<1>3. Active' = Active
  BY <1>1 DEF Active
<1> QED
  BY <1>1, <1>2, <1>3 DEF OneActiveDispute, ResolvesActive

(* Raising a dispute: there was none, so no resolution is in progress. *)
LEMMA OpenStep ==
  ASSUME DisputeInv, NEW user \in Users, OpenDispute(user)
  PROVE  DisputeInv'
<1> USE DEF DisputeInv
<1>1. /\ disputes' \in Seq(DisputeRow)
      /\ DOMAIN disputes \subseteq DOMAIN disputes'
      /\ Active' = {Len(disputes) + 1}
  BY OpeningDisputes
<1>2. /\ Active = {} /\ status' = "DISPUTED"
      /\ UNCHANGED <<payment, request>>
  BY DEF OpenDispute, CanRaise
<1>3. request \in [Workers -> Requests] /\ Requests \subseteq Requests'
  BY <1>1 DEF TypeOK, Requests
<1>4. request' \in [Workers -> Requests']
  BY <1>2, <1>3
<1>5. TypeOK'
  BY <1>1, <1>2, <1>4 DEF TypeOK, Requests, AuctionStatus
<1>6. OneActiveDispute'
  BY <1>1, <1>2 DEF OneActiveDispute
<1>7. ResolvesActive'
  BY <1>2 DEF ResolvesActive
<1> QED
  BY <1>5, <1>6, <1>7

(* Taking a dispute for review leaves it the active one. *)
LEMMA ReviewStep ==
  ASSUME DisputeInv, NEW d \in DOMAIN disputes, TakeForReview(d)
  PROVE  DisputeInv'
<1> USE DEF DisputeInv
<1>1. /\ disputes' \in Seq(DisputeRow) /\ DOMAIN disputes' = DOMAIN disputes
      /\ Active' = Active
  BY ReviewingDisputes
<1>2. UNCHANGED <<status, payment, request>>
  BY DEF TakeForReview
<1>3. TypeOK'
  BY <1>1, <1>2 DEF TypeOK
<1> QED
  BY <1>1, <1>2, <1>3 DEF OneActiveDispute, ResolvesActive

(* Resolving: the lock on the dispute row keeps other requests out, and    *)
(* committing takes the only active dispute away.                          *)
LEMMA ResolveStep ==
  ASSUME DisputeInv, NEW w \in Workers, Resolve(w)
  PROVE  DisputeInv'
<1> USE DEF DisputeInv
<1>1. ASSUME NEW d \in DOMAIN disputes, NEW refund \in BOOLEAN,
             BeginResolve(w, d, refund)
      PROVE  DisputeInv'
  <2>1. /\ UNCHANGED <<status, payment, disputes>>
        /\ d \in Active /\ DisputeRowFree(d)
        /\ SetRequest(w, Resolving(d, refund))
    BY <1>1 DEF BeginResolve
  <2>2. /\ request' \in [Workers -> Requests']
        /\ request'[w] = Resolving(d, refund)
        /\ \A p \in Workers \ {w} : request'[p] = request[p]
    <3>1. Resolving(d, refund) \in Requests
      BY DEF Requests
    <3> QED
      BY <2>1, <3>1, RequestStep
  <2>3. TypeOK'
    BY <2>1, <2>2 DEF TypeOK, Requests
  <2>4. Active' = Active
    BY <2>1 DEF Active
  <2>5. \A p \in Workers : request[p].step # "resolving"
    BY <2>1 DEF DisputeRowFree, ResolvesActive, OneActiveDispute
  <2>6. ResolvesActive'
    BY <2>1, <2>2, <2>4, <2>5 DEF ResolvesActive, Resolving
  <2> QED
    BY <2>1, <2>3, <2>4, <2>6 DEF OneActiveDispute
<1>2. ASSUME CommitResolve(w)
      PROVE  DisputeInv'
  <2> DEFINE d == request[w].dispute
             refund == request[w].refund
  <2>1. request[w].step = "resolving" /\ d \in DOMAIN disputes /\ refund \in BOOLEAN
    BY <1>2, RequestShapes DEF CommitResolve
  <2>2. /\ payment' = IF refund THEN "REFUNDED" ELSE payment
        /\ status' = ReturnStatus(d, refund)
        /\ disputes' = [disputes EXCEPT ![d].status = "RESOLVED", ![d].refunded = refund]
        /\ SetRequest(w, Idle)
    BY <1>2 DEF CommitResolve
  <2>3. d \in Active /\ \A p \in Workers \ {w} : request[p].step # "resolving"
    BY <2>1 DEF ResolvesActive
  <2> HIDE DEF d, refund
  <2>4. /\ disputes' \in Seq(DisputeRow) /\ DOMAIN disputes' = DOMAIN disputes
        /\ Active' = Active \ {d}
    BY <2>1, <2>2, ResolvingDisputes
  <2>5. Active' = {}
    BY <2>3, <2>4 DEF OneActiveDispute
  <2>6. status' \in {"CLOSED", "SETTLED"}
    BY <2>2 DEF ReturnStatus
  <2>7. /\ request' \in [Workers -> Requests']
        /\ request'[w] = Idle
        /\ \A p \in Workers \ {w} : request'[p] = request[p]
    <3>1. Idle \in Requests
      BY DEF Requests
    <3> QED
      BY <2>2, <2>4, <3>1, RequestStep
  <2>8. TypeOK'
    BY <2>2, <2>4, <2>6, <2>7 DEF TypeOK, Requests, AuctionStatus, PaymentStatus
  <2>9. ResolvesActive'
    BY <2>3, <2>7 DEF ResolvesActive, Idle
  <2> QED
    BY <2>5, <2>6, <2>8, <2>9 DEF OneActiveDispute
<1>3. ASSUME RollbackResolve(w)
      PROVE  DisputeInv'
  <2>1. UNCHANGED <<status, payment, disputes>> /\ SetRequest(w, Idle)
    BY <1>3 DEF RollbackResolve
  <2>2. /\ request' \in [Workers -> Requests']
        /\ request'[w] = Idle
        /\ \A p \in Workers \ {w} : request'[p] = request[p]
    <3>1. Idle \in Requests
      BY DEF Requests
    <3> QED
      BY <2>1, <3>1, RequestStep
  <2>3. TypeOK'
    BY <2>1, <2>2 DEF TypeOK, Requests
  <2>4. Active' = Active
    BY <2>1 DEF Active
  <2> QED
    BY <2>1, <2>2, <2>3, <2>4 DEF OneActiveDispute, ResolvesActive, Idle
<1> QED
  BY <1>1, <1>2, <1>3 DEF Resolve

(* Recording a payment leaves the disputes and their resolutions alone. *)
LEMMA PaymentKeepsDisputes ==
  ASSUME DisputeInv, NEW w \in Recorders, RecordPayment(w)
  PROVE  DisputeInv'
<1> USE DEF DisputeInv
<1>1. /\ UNCHANGED disputes
      /\ payment' \in PaymentStatus
      /\ status' = status \/ (status = "CLOSED" /\ status' = "SETTLED")
      /\ request' \in [Workers -> Requests']
      /\ \A p \in Workers :
           request[p].step = "resolving" \/ request'[p].step = "resolving" =>
             request'[p] = request[p]
  BY PaymentSteps
<1>2. TypeOK'
  BY <1>1 DEF TypeOK, Requests, AuctionStatus
<1>3. Active' = Active
  BY <1>1 DEF Active
<1> QED
  BY <1>1, <1>2, <1>3 DEF OneActiveDispute, ResolvesActive

(* Every step keeps what is known of disputes. *)
LEMMA DisputesNext == DisputeInv /\ [Next]_vars => DisputeInv'
<1> SUFFICES ASSUME DisputeInv, [Next]_vars PROVE DisputeInv'
  OBVIOUS
<1>1. CASE UNCHANGED vars
  BY <1>1 DEF vars, DisputeInv, TypeOK, OneActiveDispute, ResolvesActive, Active
<1> QED
  BY <1>1, CloseStep, PaymentKeepsDisputes, ResolveStep, OpenStep, ReviewStep
  DEF Next

(***************************************************************************)
(* However many requests overlap, an auction has one active dispute while  *)
(* it is DISPUTED and none otherwise, and a resolution in progress is      *)
(* about that dispute and is the only one.                                 *)
(***************************************************************************)
THEOREM DisputesCorrect == Spec => []DisputeInv
<1>1. Init => DisputeInv
  <2> SUFFICES ASSUME Init PROVE DisputeInv
    OBVIOUS
  <2>1. Active = {}
    BY DEF Init, Active
  <2> QED
    BY <2>1 DEF Init, DisputeInv, TypeOK, OneActiveDispute, ResolvesActive,
                AuctionStatus, PaymentStatus, Idle
<1> QED
  BY <1>1, DisputesNext, PTL DEF Spec

(* Type correctness of every reachable state. *)
THEOREM SettlementTypeCorrect == Spec => []TypeOK
BY DisputesCorrect, PTL DEF DisputeInv

(* An auction is DISPUTED exactly while it has its one active dispute. *)
THEOREM OneActiveDisputeCorrect == Spec => []OneActiveDispute
BY DisputesCorrect, PTL DEF DisputeInv

(* A resolution in progress is about an active dispute, and is alone. *)
THEOREM ResolvesActiveCorrect == Spec => []ResolvesActive
BY DisputesCorrect, PTL DEF DisputeInv

(* There has been a dispute: raising one makes it so, nothing else does,   *)
(* and it remains so.                                                      *)
LEMMA DisputedSteps ==
  ASSUME DisputeInv, [Next]_vars
  PROVE  /\ (\E user \in Users : OpenDispute(user)) => Disputed'
         /\ DOMAIN disputes' = DOMAIN disputes => Disputed' = Disputed
         /\ Disputed => Disputed'
<1>1. disputes \in Seq(DisputeRow) /\ (disputes \in Seq(DisputeRow))'
  <2>1. DisputeInv'
    BY DisputesNext
  <2> QED
    BY <2>1 DEF DisputeInv, TypeOK
<1>2. ASSUME NEW rows \in Seq(DisputeRow)
      PROVE  rows = <<>> <=> DOMAIN rows = {}
  OBVIOUS
<1>3. /\ Disputed <=> DOMAIN disputes # {}
      /\ Disputed' <=> DOMAIN disputes' # {}
  BY <1>1, <1>2 DEF Disputed
<1>4. ASSUME NEW user \in Users, OpenDispute(user)
      PROVE  Disputed'
  <2>1. DOMAIN disputes' = DOMAIN disputes \cup {Len(disputes) + 1}
    BY <1>4, OpeningDisputes DEF DisputeInv
  <2> QED
    BY <1>3, <2>1
<1>5. ASSUME ~(\E user \in Users : OpenDispute(user))
      PROVE  DOMAIN disputes' = DOMAIN disputes
  <2>1. CASE UNCHANGED vars
    BY <2>1 DEF vars
  <2>2. ASSUME NEW w \in Recorders, RecordPayment(w)
        PROVE  DOMAIN disputes' = DOMAIN disputes
    BY <2>2, PaymentSteps DEF DisputeInv
  <2>3. ASSUME NEW w \in Workers, Resolve(w)
        PROVE  DOMAIN disputes' = DOMAIN disputes
    BY <2>3 DEF Resolve, BeginResolve, CommitResolve, RollbackResolve
  <2>4. ASSUME NEW d \in DOMAIN disputes, TakeForReview(d)
        PROVE  DOMAIN disputes' = DOMAIN disputes
    BY <2>4 DEF TakeForReview
  <2>5. CASE CloseAuction
    BY <2>5 DEF CloseAuction
  <2> QED
    BY <1>5, <2>1, <2>2, <2>3, <2>4, <2>5 DEF Next
<1> QED
  BY <1>3, <1>4, <1>5 DEF Disputed

(* The ways the status of an auction changes. *)
StatusStep ==
  \/ UNCHANGED status
  \/ status = "LIVE" /\ status' = "CLOSED"
  \/ status = "CLOSED" /\ status' = "SETTLED"
  \/ status \in {"CLOSED", "SETTLED"} /\ status' = "DISPUTED"
  \/ status = "DISPUTED" /\ status' \in {"CLOSED", "SETTLED"}

LEMMA StatusSteps ==
  ASSUME DisputeInv, [Next]_vars
  PROVE  StatusStep
<1>1. ASSUME NEW w \in Recorders, RecordPayment(w)
      PROVE  StatusStep
  BY <1>1, PaymentSteps DEF DisputeInv, StatusStep
<1>2. ASSUME NEW w \in Workers, CommitResolve(w)
      PROVE  StatusStep
  <2>1. status = "DISPUTED"
    BY <1>2 DEF CommitResolve, DisputeInv, ResolvesActive, OneActiveDispute
  <2>2. status' \in {"CLOSED", "SETTLED"}
    BY <1>2 DEF CommitResolve, ReturnStatus
  <2> QED
    BY <2>1, <2>2 DEF StatusStep
<1>3. ASSUME NEW w \in Workers, Resolve(w), ~CommitResolve(w)
      PROVE  StatusStep
  BY <1>3 DEF Resolve, BeginResolve, RollbackResolve, StatusStep
<1>4. ASSUME NEW user \in Users, OpenDispute(user)
      PROVE  StatusStep
  BY <1>4 DEF OpenDispute, CanRaise, StatusStep
<1>5. ASSUME NEW d \in DOMAIN disputes, TakeForReview(d)
      PROVE  StatusStep
  BY <1>5 DEF TakeForReview, StatusStep
<1>6. CASE CloseAuction
  BY <1>6 DEF CloseAuction, StatusStep
<1>7. CASE UNCHANGED vars
  BY <1>7 DEF vars, StatusStep
<1> QED
  BY <1>1, <1>2, <1>3, <1>4, <1>5, <1>6, <1>7 DEF Next

(* Every change of status follows ALLOWED_TRANSITIONS. *)
THEOREM SettlementLifecycleCorrect == Spec => FollowsLifecycle
<1> DEFINE Step == LC!Move \/ LC!RestoreSettled
<1>1. ASSUME DisputeInv, StatusStep
      PROVE  Step \/ UNCHANGED status
  BY <1>1 DEF DisputeInv, TypeOK, AuctionStatus, StatusStep,
              LC!Move, LC!RestoreSettled, LC!CanMove, LC!AllowedTransitions, LC!Status
<1>2. DisputeInv /\ [Next]_vars => [Step]_status
  BY <1>1, StatusSteps
<1> QED
  BY <1>2, DisputesCorrect, PTL DEF Spec, FollowsLifecycle, LC!Steps

----------------------------------------------------------------------------
(***************************************************************************)
(* Payments, first what holds however many of them are recorded at a time: *)
(* there is no payment before the auction closes, and once there is one it *)
(* is neither taken away nor due a second time.                            *)
(***************************************************************************)
NothingDueBefore == status = "LIVE" => payment = "NONE"

(* Only a payment that exists is loaded, and so recorded. *)
LoadedExists ==
  \A w \in Recorders :
    request[w].step \in {"loaded", "paying"} => payment # "NONE"

BegunInv == NothingDueBefore /\ LoadedExists

BegunStep ==
  /\ payment # "NONE" => payment' # "NONE"
  /\ payment \notin {"NONE", "PENDING"} => payment' \notin {"NONE", "PENDING"}

(* What the steps of a request do to the payment and to other requests. *)
LEMMA PaymentWrites ==
  ASSUME DisputeInv, BegunInv, [Next]_vars, ~CloseAuction
  PROVE  /\ BegunStep
         /\ payment = "NONE" /\ status = "LIVE" => UNCHANGED payment
<1> USE DEF BegunStep
<1>1. ASSUME NEW w \in Recorders, RecordPayment(w)
      PROVE  /\ BegunStep
             /\ payment = "NONE" /\ status = "LIVE" => UNCHANGED payment
  <2>1. CASE CommitPaid(w) \/ MarkFailed(w)
    <3>1. payment' \in {"PAID", "FAILED"}
      BY <2>1 DEF CommitPaid, MarkFailed
    <3>2. request[w].step \in {"loaded", "paying"}
      BY <2>1 DEF CommitPaid, MarkFailed, IsPending, Loaded
    <3> QED
      BY <3>1, <3>2 DEF BegunInv, LoadedExists
  <2>2. CASE LoadPayment(w) \/ RefusePayment(w) \/ WritePaid(w) \/ RollbackPaid(w)
    BY <2>2 DEF LoadPayment, RefusePayment, WritePaid, RollbackPaid
  <2> QED
    BY <1>1, <2>1, <2>2 DEF RecordPayment
<1>2. ASSUME NEW w \in Workers, Resolve(w)
      PROVE  /\ BegunStep
             /\ payment = "NONE" /\ status = "LIVE" => UNCHANGED payment
  <2>1. CASE CommitResolve(w)
    <3>1. payment' \in {"REFUNDED", payment}
      BY <2>1 DEF CommitResolve
    <3>2. status # "LIVE"
      BY <2>1 DEF CommitResolve, DisputeInv, ResolvesActive, OneActiveDispute
    <3> QED
      BY <3>1, <3>2
  <2> QED
    BY <1>2, <2>1 DEF Resolve, BeginResolve, RollbackResolve
<1> QED
  BY <1>1, <1>2 DEF Next, vars, OpenDispute, TakeForReview

LEMMA BegunNext ==
  ASSUME DisputeInv, BegunInv, [Next]_vars
  PROVE  BegunInv' /\ BegunStep
<1>1. CASE CloseAuction
  <2>1. /\ status' = "CLOSED" /\ payment = "NONE" /\ UNCHANGED request
    BY <1>1 DEF CloseAuction, BegunInv, NothingDueBefore
  <2> QED
    BY <2>1 DEF BegunInv, NothingDueBefore, LoadedExists, BegunStep
<1>2. CASE ~CloseAuction
  <2>1. BegunStep /\ (payment = "NONE" /\ status = "LIVE" => UNCHANGED payment)
    BY <1>2, PaymentWrites
  <2>2. NothingDueBefore'
    BY <2>1, StatusSteps DEF BegunInv, NothingDueBefore, StatusStep
  <2>3. LoadedExists'
    <3> SUFFICES ASSUME NEW p \in Recorders, request'[p].step \in {"loaded", "paying"}
                 PROVE  payment' # "NONE"
      BY DEF LoadedExists
    <3>1. request \in [Workers -> Requests] /\ p \in Workers
      BY SettlementAssumption DEF DisputeInv, TypeOK, Requests
    <3>2. CASE request[p].step \in {"loaded", "paying"}
      BY <2>1, <3>2 DEF BegunInv, LoadedExists, BegunStep
    <3>3. ASSUME NEW w \in Workers, NEW r, SetRequest(w, r),
                 r.step \notin {"loaded", "paying"}
          PROVE  request[p].step \in {"loaded", "paying"}
      BY <3>1, <3>3 DEF SetRequest
    <3>4. /\ Idle.step \notin {"loaded", "paying"}
          /\ \A d, refund : Resolving(d, refund).step \notin {"loaded", "paying"}
      BY DEF Idle, Resolving
    <3>5. ASSUME NEW w \in Recorders, RecordPayment(w)
          PROVE  payment' # "NONE"
      <4>1. CASE LoadPayment(w)
        BY <4>1 DEF LoadPayment
      <4>2. CASE WritePaid(w)
        BY <2>1, <4>2 DEF WritePaid, IsPending, Loaded, BegunInv, LoadedExists, BegunStep
      <4>3. CASE RefusePayment(w) \/ CommitPaid(w) \/ RollbackPaid(w) \/ MarkFailed(w)
        BY <3>2, <3>3, <3>4, <4>3, SettlementAssumption
        DEF RefusePayment, CommitPaid, RollbackPaid, MarkFailed
      <4> QED
        BY <3>5, <4>1, <4>2, <4>3 DEF RecordPayment
    <3>6. ASSUME NEW w \in Workers, Resolve(w)
          PROVE  payment' # "NONE"
      BY <3>2, <3>3, <3>4, <3>6
      DEF Resolve, BeginResolve, CommitResolve, RollbackResolve
    <3>7. CASE UNCHANGED request
      BY <3>2, <3>7
    <3> QED
      BY <1>2, <3>5, <3>6, <3>7 DEF Next, vars, OpenDispute, TakeForReview
  <2> QED
    BY <2>1, <2>2, <2>3 DEF BegunInv
<1> QED
  BY <1>1, <1>2

(***************************************************************************)
(* However payments are recorded, there is none before the close.          *)
(***************************************************************************)
THEOREM BegunCorrect == Spec => []BegunInv
<1>1. Init => BegunInv
  BY SettlementAssumption DEF Init, BegunInv, NothingDueBefore, LoadedExists, Idle
<1>2. DisputeInv /\ BegunInv /\ [Next]_vars => BegunInv'
  BY BegunNext
<1> QED
  BY <1>1, <1>2, DisputesCorrect, PTL DEF Spec

----------------------------------------------------------------------------
(***************************************************************************)
(* Nothing locks the payment between loading and recording it, so the      *)
(* following needs that payments are recorded one request at a time; the   *)
(* run with two recorders shows that it fails otherwise.                   *)
(***************************************************************************)
OneAtATime == \A w, p \in Recorders : w = p

(* What the recorder loaded or wrote is still what the payment is. *)
RecorderIsCurrent ==
  \A w \in Recorders :
    IsPending(w) \/ request[w].step = "paying" => payment = "PENDING"

(* A dispute remembers SETTLED only of a paid auction, and is refunded only *)
(* when it is resolved; a refund under way is of a paid payment.           *)
DisputeKnowsPayment ==
  /\ \A d \in Active : /\ disputes[d].before = "SETTLED" => payment = "PAID"
                       /\ ~disputes[d].refunded
  /\ \A w \in Workers :
       request[w].step = "resolving" /\ request[w].refund => payment = "PAID"

PaymentInv ==
  /\ RecorderIsCurrent /\ DisputeKnowsPayment
  /\ SettledIsPaid /\ RefundIsRecorded /\ NothingDueBefore

PaymentStep ==
  payment' # payment => <<payment, payment'>> \in
    {<<"NONE", "PENDING">>, <<"PENDING", "PAID">>, <<"PENDING", "FAILED">>,
     <<"PAID", "REFUNDED">>}

(* The recorder's steps. *)
LEMMA RecordingStep ==
  ASSUME DisputeInv, PaymentInv, OneAtATime, NEW w \in Recorders, RecordPayment(w)
  PROVE  PaymentInv' /\ PaymentStep
<1> USE DEF PaymentInv
<1>0. \A p \in Recorders : p = w
  BY DEF OneAtATime
<1>1. /\ UNCHANGED disputes
      /\ status' = status \/ (status = "CLOSED" /\ status' = "SETTLED")
      /\ request' \in [Workers -> Requests']
      /\ \A p \in Workers :
           request[p].step = "resolving" \/ request'[p].step = "resolving" =>
             request'[p] = request[p]
  BY PaymentSteps DEF DisputeInv
<1>2. w \in Workers /\ DOMAIN request = Workers /\ payment \in PaymentStatus
  BY SettlementAssumption DEF DisputeInv, TypeOK
<1>3. Active' = Active
  BY <1>1 DEF Active
<1>4. CASE /\ UNCHANGED <<payment>> /\ status' = status
           /\ IsPending(w)' \/ request'[w].step = "paying" => payment = "PENDING"
  <2>1. RecorderIsCurrent'
    BY <1>0, <1>4 DEF RecorderIsCurrent
  <2>2. DisputeKnowsPayment'
    BY <1>1, <1>3, <1>4 DEF DisputeKnowsPayment
  <2> QED
    BY <1>1, <1>4, <2>1, <2>2
    DEF SettledIsPaid, RefundIsRecorded, NothingDueBefore,
        PaymentStep
<1>5. CASE /\ payment = "PENDING" /\ request'[w] = Idle
           /\ \/ payment' = "PAID"
              \/ payment' = "FAILED" /\ status' = status
  <2>1. RecorderIsCurrent'
    BY <1>0, <1>5 DEF RecorderIsCurrent, IsPending, Idle, Loaded
  <2>2. DisputeKnowsPayment'
    BY <1>1, <1>3, <1>5 DEF DisputeKnowsPayment
  <2>3. SettledIsPaid'
    BY <1>1, <1>5 DEF SettledIsPaid
  <2>4. RefundIsRecorded'
    BY <1>1, <1>5 DEF RefundIsRecorded
  <2> QED
    BY <1>1, <1>5, <2>1, <2>2, <2>3, <2>4
    DEF NothingDueBefore, PaymentStep
<1>6. CASE LoadPayment(w) \/ RefusePayment(w) \/ WritePaid(w) \/ RollbackPaid(w)
  BY <1>2, <1>4, <1>6 DEF LoadPayment, RefusePayment, WritePaid, RollbackPaid,
                          SetRequest, IsPending, Idle, Loaded, Paying, RecorderIsCurrent
<1>7. CASE CommitPaid(w) \/ MarkFailed(w)
  BY <1>2, <1>5, <1>7 DEF CommitPaid, MarkFailed, SetRequest, RecorderIsCurrent
<1> QED
  BY <1>6, <1>7 DEF RecordPayment

(* The steps of disputes: resolving with a refund is the only one that     *)
(* writes the payment.                                                     *)
LEMMA ResolutionStep ==
  ASSUME DisputeInv, PaymentInv, NEW w \in Workers, Resolve(w)
  PROVE  PaymentInv' /\ PaymentStep
<1> USE DEF PaymentInv
<1>1. /\ DOMAIN request = Workers /\ Recorders \subseteq Workers
      /\ disputes \in Seq(DisputeRow)
  BY SettlementAssumption DEF DisputeInv, TypeOK
<1>2. ASSUME NEW r, SetRequest(w, r), r.step \notin {"loaded", "paying"}
      PROVE  \A p \in Recorders :
               IsPending(p)' \/ request'[p].step = "paying" =>
                 request'[p] = request[p]
  BY <1>1, <1>2 DEF SetRequest, IsPending, Loaded
<1>3. ASSUME NEW r, SetRequest(w, r), r.step \notin {"loaded", "paying"},
             UNCHANGED <<status, payment, disputes>>,
             r.step = "resolving" /\ r.refund => payment = "PAID"
      PROVE  PaymentInv' /\ PaymentStep
  <2>1. RecorderIsCurrent'
    BY <1>2, <1>3 DEF RecorderIsCurrent, IsPending
  <2>2. DisputeKnowsPayment'
    BY <1>1, <1>3 DEF DisputeKnowsPayment, Active, SetRequest
  <2> QED
    BY <1>3, <2>1, <2>2
    DEF SettledIsPaid, RefundIsRecorded, NothingDueBefore,
        PaymentStep
<1>4. ASSUME NEW d \in DOMAIN disputes, NEW refund \in BOOLEAN,
             BeginResolve(w, d, refund)
      PROVE  PaymentInv' /\ PaymentStep
  <2>1. /\ Resolving(d, refund).step = "resolving"
        /\ Resolving(d, refund).refund = refund
    BY DEF Resolving
  <2>2. /\ SetRequest(w, Resolving(d, refund))
        /\ UNCHANGED <<status, payment, disputes>>
        /\ refund => payment = "PAID"
    BY <1>4 DEF BeginResolve
  <2> HIDE DEF PaymentInv
  <2> QED
    BY <1>3, <2>1, <2>2
<1>5. ASSUME RollbackResolve(w)
      PROVE  PaymentInv' /\ PaymentStep
  <2>1. /\ SetRequest(w, Idle) /\ Idle.step = "idle"
        /\ UNCHANGED <<status, payment, disputes>>
    BY <1>5 DEF RollbackResolve, Idle
  <2> HIDE DEF PaymentInv
  <2> QED
    BY <1>3, <2>1
<1>6. ASSUME CommitResolve(w)
      PROVE  PaymentInv' /\ PaymentStep
  <2> DEFINE d == request[w].dispute
             refund == request[w].refund
  <2>1. request[w].step = "resolving" /\ d \in DOMAIN disputes /\ refund \in BOOLEAN
    BY <1>6, RequestShapes DEF CommitResolve, DisputeInv
  <2>2. /\ payment' = IF refund THEN "REFUNDED" ELSE payment
        /\ status' = ReturnStatus(d, refund)
        /\ disputes' = [disputes EXCEPT ![d].status = "RESOLVED", ![d].refunded = refund]
        /\ SetRequest(w, Idle)
    BY <1>6 DEF CommitResolve
  <2>3. /\ d \in Active /\ \A e \in Active : e = d
        /\ \A p \in Workers \ {w} : request[p].step # "resolving"
    BY <2>1 DEF DisputeInv, OneActiveDispute, ResolvesActive
  <2>4. /\ refund => payment = "PAID"
        /\ disputes[d].before = "SETTLED" => payment = "PAID"
        /\ disputes[d].refunded # TRUE
    BY <2>1, <2>3 DEF DisputeKnowsPayment
  <2> HIDE DEF d, refund
  <2>5. /\ DOMAIN disputes' = DOMAIN disputes /\ Active' = Active \ {d}
        /\ disputes'[d].refunded = refund
        /\ \A e \in DOMAIN disputes : e # d => disputes'[e].refunded = disputes[e].refunded
    BY <2>1, <2>2, ResolvingDisputes DEF DisputeInv
  <2>6. /\ request'[w] = Idle
        /\ \A p \in Workers \ {w} : request'[p] = request[p]
    BY <1>1, <2>2 DEF SetRequest
  <2>7. RecorderIsCurrent'
    <3>1. \A p \in Recorders : IsPending(p)' \/ request'[p].step = "paying" =>
            IsPending(p) \/ request[p].step = "paying"
      BY <1>1, <2>6 DEF IsPending, Idle, Loaded
    <3> QED
      BY <2>2, <2>4, <3>1 DEF RecorderIsCurrent
  <2>8. DisputeKnowsPayment'
    BY <2>3, <2>5, <2>6 DEF DisputeKnowsPayment, Idle
  <2>9. SettledIsPaid'
    BY <2>2, <2>4 DEF SettledIsPaid, ReturnStatus
  <2>10. RefundIsRecorded'
    <3>1. CASE refund
      BY <2>1, <2>2, <2>5, <3>1 DEF RefundIsRecorded
    <3>2. CASE ~refund
      BY <2>1, <2>2, <2>4, <2>5, <3>2 DEF RefundIsRecorded
    <3> QED
      BY <3>1, <3>2
  <2>11. NothingDueBefore'
    BY <2>2 DEF NothingDueBefore, ReturnStatus
  <2> QED
    BY <2>2, <2>4, <2>7, <2>8, <2>9, <2>10, <2>11 DEF PaymentStep
<1> QED
  BY <1>4, <1>5, <1>6 DEF Resolve

(* Raising a dispute and taking it for review write no payment. *)
LEMMA RaisingStep ==
  ASSUME DisputeInv, PaymentInv,
         \/ \E user \in Users : OpenDispute(user)
         \/ \E d \in DOMAIN disputes : TakeForReview(d)
  PROVE  PaymentInv' /\ PaymentStep
<1> USE DEF PaymentInv
<1>1. ASSUME NEW user \in Users, OpenDispute(user)
      PROVE  PaymentInv' /\ PaymentStep
  <2>1. /\ DOMAIN disputes' = DOMAIN disputes \cup {Len(disputes) + 1}
        /\ Active' = {Len(disputes) + 1}
        /\ disputes'[Len(disputes) + 1].refunded = FALSE
        /\ disputes'[Len(disputes) + 1].before = status
        /\ \A d \in DOMAIN disputes : disputes'[d] = disputes[d]
    BY <1>1, OpeningDisputes DEF DisputeInv
  <2>2. UNCHANGED <<payment, request>> /\ status' = "DISPUTED"
    BY <1>1 DEF OpenDispute, CanRaise
  <2>3. RecorderIsCurrent'
    BY <2>2 DEF RecorderIsCurrent, IsPending
  <2>4. DisputeKnowsPayment'
    BY <2>1, <2>2 DEF DisputeKnowsPayment, SettledIsPaid
  <2>5. RefundIsRecorded'
    BY <2>1, <2>2 DEF RefundIsRecorded
  <2> QED
    BY <2>2, <2>3, <2>4, <2>5
    DEF SettledIsPaid, NothingDueBefore, PaymentStep
<1>2. ASSUME NEW d \in DOMAIN disputes, TakeForReview(d)
      PROVE  PaymentInv' /\ PaymentStep
  <2>1. /\ DOMAIN disputes' = DOMAIN disputes /\ Active' = Active
        /\ \A e \in DOMAIN disputes : /\ disputes'[e].before = disputes[e].before
                                      /\ disputes'[e].refunded = disputes[e].refunded
    BY <1>2, ReviewingDisputes DEF DisputeInv
  <2>2. UNCHANGED <<status, payment, request>>
    BY <1>2 DEF TakeForReview
  <2>3. DisputeKnowsPayment'
    BY <2>1, <2>2 DEF DisputeKnowsPayment, Active
  <2> QED
    BY <2>1, <2>2, <2>3 DEF RecorderIsCurrent, IsPending,
                            SettledIsPaid, RefundIsRecorded, NothingDueBefore,
                            PaymentStep
<1> QED
  BY <1>1, <1>2

(* Closing an auction is what a payment begins with. *)
LEMMA ClosingStep ==
  ASSUME DisputeInv, PaymentInv, CloseAuction
  PROVE  PaymentInv' /\ PaymentStep
<1> USE DEF PaymentInv
<1>1. /\ status' = "CLOSED" /\ payment = "NONE" /\ payment' \in {"NONE", "PENDING"}
      /\ UNCHANGED <<disputes, request>>
  BY DEF CloseAuction, NothingDueBefore
<1>2. Active = {} /\ Active' = {}
  BY <1>1 DEF CloseAuction, DisputeInv, OneActiveDispute, Active
<1>3. \A w \in Workers : request[w].step # "resolving"
  BY <1>2 DEF DisputeInv, ResolvesActive
<1>4. RecorderIsCurrent'
  BY <1>1 DEF RecorderIsCurrent, IsPending
<1>5. DisputeKnowsPayment'
  BY <1>1, <1>2, <1>3 DEF DisputeKnowsPayment
<1> QED
  BY <1>1, <1>4, <1>5
  DEF SettledIsPaid, RefundIsRecorded, NothingDueBefore,
      PaymentStep

(* Every step of a system that records payments one at a time. *)
LEMMA PaymentNext ==
  ASSUME DisputeInv, PaymentInv, OneAtATime, [Next]_vars
  PROVE  PaymentInv' /\ PaymentStep
<1>1. CASE UNCHANGED vars
  BY <1>1 DEF vars, PaymentInv, RecorderIsCurrent, IsPending, DisputeKnowsPayment,
              Active, SettledIsPaid, RefundIsRecorded,
              NothingDueBefore, PaymentStep
<1> QED
  BY <1>1, ClosingStep, RecordingStep, ResolutionStep, RaisingStep DEF Next

(***************************************************************************)
(* With payments recorded one at a time, and however many requests resolve *)
(* disputes: a SETTLED auction is paid, refunds and payments agree.        *)
(***************************************************************************)
THEOREM PaymentsCorrect ==
  ASSUME OneAtATime
  PROVE  Spec => []PaymentInv
<1>1. ASSUME Init
      PROVE  PaymentInv
  <2>1. /\ DOMAIN disputes = {} /\ Active = {}
        /\ status = "LIVE" /\ payment = "NONE"
        /\ \A w \in Workers : request[w] = Idle
    BY <1>1 DEF Init, Active
  <2>2. \A w \in Workers : ~IsPending(w) /\ request[w].step = "idle"
    <3>1. Idle.step = "idle" /\ Loaded("PENDING").step = "loaded"
      BY DEF Idle, Loaded
    <3> QED
      BY <2>1, <3>1 DEF IsPending
  <2> QED
    BY <2>1, <2>2, SettlementAssumption
    DEF PaymentInv, RecorderIsCurrent, DisputeKnowsPayment,
        SettledIsPaid, RefundIsRecorded, NothingDueBefore
<1>2. DisputeInv /\ PaymentInv /\ [Next]_vars => PaymentInv'
  BY OneAtATime, PaymentNext
<1> QED
  BY <1>1, <1>2, DisputesCorrect, PTL DEF Spec

(* Recorded one at a time, a SETTLED auction is a paid one. *)
THEOREM SettledIsPaidCorrect ==
  ASSUME OneAtATime
  PROVE  Spec => []SettledIsPaid
BY OneAtATime, PaymentsCorrect, PTL DEF PaymentInv

(* Recorded one at a time, the payment and the disputes agree about refunds. *)
THEOREM RefundIsRecordedCorrect ==
  ASSUME OneAtATime
  PROVE  Spec => []RefundIsRecorded
BY OneAtATime, PaymentsCorrect, PTL DEF PaymentInv

(* Recorded one at a time, a payment only moves PENDING to PAID or FAILED, *)
(* and PAID to REFUNDED.                                                   *)
THEOREM PaymentMovesForwardCorrect ==
  ASSUME OneAtATime
  PROVE  Spec => PaymentMovesForward
<1>1. DisputeInv /\ PaymentInv /\ [Next]_vars => [PaymentStep]_vars
  BY OneAtATime, PaymentNext
<1> QED
  BY <1>1, OneAtATime, DisputesCorrect, PaymentsCorrect, PTL
  DEF Spec, PaymentMovesForward, PaymentStep

(* A payment of an auction that nobody ever disputed found it CLOSED, so   *)
(* it settles it.                                                          *)
UndisputedSettles ==
  ~Disputed => \A w \in Recorders : request[w].step = "paying" =>
                                     request[w].auction = "CLOSED"

(* Without any dispute, a due payment is of a CLOSED auction. *)
LEMMA UndisputedIsClosed ==
  ASSUME DisputeInv, PaymentInv, ~Disputed, payment = "PENDING"
  PROVE  status = "CLOSED"
<1>1. Active = {}
  BY DEF Disputed, Active
<1> QED
  BY <1>1 DEF DisputeInv, OneActiveDispute, TypeOK, AuctionStatus,
              PaymentInv, SettledIsPaid, NothingDueBefore

LEMMA UndisputedNext ==
  ASSUME DisputeInv, PaymentInv, UndisputedSettles, [Next]_vars
  PROVE  UndisputedSettles'
<1> SUFFICES ASSUME ~Disputed', NEW p \in Recorders, request'[p].step = "paying"
             PROVE  request'[p].auction = "CLOSED"
  BY DEF UndisputedSettles
<1>1. ~Disputed
  BY DisputedSteps DEF Disputed
<1>2. request \in [Workers -> Requests] /\ p \in Workers
  BY SettlementAssumption DEF DisputeInv, TypeOK, Requests
<1>3. CASE request'[p] = request[p]
  BY <1>1, <1>3 DEF UndisputedSettles
<1>4. ASSUME NEW w \in Workers, NEW r, SetRequest(w, r), r.step # "paying"
      PROVE  request'[p] = request[p]
  BY <1>2, <1>4 DEF SetRequest
<1>5. ASSUME NEW w \in Recorders, WritePaid(w)
      PROVE  request'[p].auction = "CLOSED"
  <2>1. payment = "PENDING"
    BY <1>5 DEF WritePaid, PaymentInv, RecorderIsCurrent
  <2>2. status = "CLOSED"
    BY <1>1, <2>1, UndisputedIsClosed
  <2>3. request' = [request EXCEPT ![w] = Paying("CLOSED")]
    BY <1>5, <2>2 DEF WritePaid, SetRequest
  <2> QED
    BY <1>1, <1>2, <2>3 DEF Paying, UndisputedSettles
<1>6. /\ Idle.step # "paying" /\ \A seen : Loaded(seen).step # "paying"
      /\ \A d, refund : Resolving(d, refund).step # "paying"
  BY DEF Idle, Loaded, Resolving
<1>7. ASSUME NEW w \in Recorders, RecordPayment(w), ~WritePaid(w)
      PROVE  request'[p] = request[p]
  BY <1>4, <1>6, <1>7, SettlementAssumption
  DEF RecordPayment, LoadPayment, RefusePayment, CommitPaid, RollbackPaid, MarkFailed
<1>8. ASSUME NEW w \in Workers, Resolve(w)
      PROVE  request'[p] = request[p]
  BY <1>4, <1>6, <1>8 DEF Resolve, BeginResolve, CommitResolve, RollbackResolve
<1>9. CASE UNCHANGED request
  BY <1>3, <1>9
<1> QED
  BY <1>3, <1>5, <1>7, <1>8, <1>9
  DEF Next, vars, CloseAuction, OpenDispute, TakeForReview

(* Recorded one at a time, a payment that nobody disputes will settle. *)
THEOREM UndisputedSettlesCorrect ==
  ASSUME OneAtATime
  PROVE  Spec => []UndisputedSettles
<1>1. Init => UndisputedSettles
  BY SettlementAssumption DEF Init, UndisputedSettles, Idle
<1>2. DisputeInv /\ PaymentInv /\ UndisputedSettles /\ [Next]_vars => UndisputedSettles'
  BY UndisputedNext
<1> QED
  BY <1>1, <1>2, OneAtATime, DisputesCorrect, PaymentsCorrect, PTL DEF Spec

----------------------------------------------------------------------------
(***************************************************************************)
(* Settlement implements the sale.  A step that writes neither the payment *)
(* nor the status and keeps what disputes remember is none of the sale's.  *)
(***************************************************************************)
LEMMA QuietStep ==
  ASSUME UNCHANGED <<status, payment>>, Disputed' = Disputed, Settled' = Settled
  PROVE  UNCHANGED Promise!saleVars
BY DEF Promise!saleVars, Money, Contested

(* Without an active dispute only the status says what is settled. *)
LEMMA SettledWhenQuiet ==
  ASSUME DisputeInv
  PROVE  /\ ~Contested <=> Active = {}
         /\ ~Contested => (Settled <=> status = "SETTLED")
BY DEF DisputeInv, OneActiveDispute, Contested, Settled

(* The recorder pays or gives up, or does nothing yet. *)
LEMMA RecordingMoves ==
  ASSUME DisputeInv, PaymentInv, UndisputedSettles,
         NEW w \in Recorders, RecordPayment(w)
  PROVE  [Promise!Next]_(Promise!saleVars)
<1>1. /\ UNCHANGED disputes
      /\ status' = status \/ (status = "CLOSED" /\ status' = "SETTLED")
  BY PaymentSteps DEF DisputeInv
<1>2. Active' = Active
  BY <1>1 DEF Active
<1>3. CASE UNCHANGED <<status, payment>>
  BY <1>1, <1>2, <1>3, QuietStep DEF Settled, Disputed
<1>4. CASE CommitPaid(w) \/ MarkFailed(w)
  <2>1. payment = "PENDING" /\ ~Settled
    BY <1>4 DEF CommitPaid, MarkFailed, PaymentInv, RecorderIsCurrent, Settled,
                SettledIsPaid, DisputeKnowsPayment
  <2>2. Money = "due"
    BY <2>1 DEF Money
  <2>3. CASE CommitPaid(w)
    <3>1. payment' = "PAID" /\ Money' = "paid"
      BY <2>3 DEF CommitPaid, Money
    <3>2. /\ Contested' = Contested /\ Disputed' = Disputed
          /\ Settled' \in {FALSE, ~Contested}
      BY <1>1, <1>2, <2>1, SettledWhenQuiet DEF Settled, Contested, Disputed
    <3>3. ~Disputed => Settled'
      <4>1. ~Disputed => request[w].auction = "CLOSED"
        BY <2>3 DEF CommitPaid, UndisputedSettles
      <4> QED
        BY <2>3, <4>1, UndisputedIsClosed DEF CommitPaid, Settled
    <3> QED
      BY <2>2, <3>1, <3>2, <3>3 DEF Promise!Next, Promise!Pay
  <2>4. CASE MarkFailed(w)
    <3>1. payment' = "FAILED" /\ Money' = "failed" /\ status' = status
      BY <2>4 DEF MarkFailed, Money
    <3>2. Contested' = Contested /\ Disputed' = Disputed /\ Settled' = Settled
      BY <1>1, <1>2, <3>1 DEF Settled, Contested, Disputed
    <3> QED
      BY <2>2, <3>1, <3>2 DEF Promise!Next, Promise!GiveUp
  <2> QED
    BY <1>4, <2>3, <2>4
<1> QED
  BY <1>3, <1>4 DEF RecordPayment, LoadPayment, RefusePayment, WritePaid, RollbackPaid

(* A dispute is dismissed or the payment refunded, or nothing yet.         *)
LEMMA ResolutionMoves ==
  ASSUME DisputeInv, PaymentInv, NEW w \in Workers, Resolve(w)
  PROVE  [Promise!Next]_(Promise!saleVars)
<1>1. CASE UNCHANGED <<status, payment, disputes>>
  <2>1. Active' = Active
    BY <1>1 DEF Active
  <2> QED
    BY <1>1, <2>1, QuietStep DEF Settled, Disputed
<1>2. CASE CommitResolve(w)
  <2> DEFINE d == request[w].dispute
             refund == request[w].refund
  <2>1. request[w].step = "resolving" /\ d \in DOMAIN disputes /\ refund \in BOOLEAN
    BY <1>2, RequestShapes DEF CommitResolve, DisputeInv
  <2>2. /\ payment' = IF refund THEN "REFUNDED" ELSE payment
        /\ status' = ReturnStatus(d, refund)
        /\ disputes' = [disputes EXCEPT ![d].status = "RESOLVED", ![d].refunded = refund]
    BY <1>2 DEF CommitResolve
  <2>3. Active = {d} /\ (refund => payment = "PAID") /\ status = "DISPUTED"
    BY <2>1 DEF DisputeInv, OneActiveDispute, ResolvesActive, PaymentInv,
                DisputeKnowsPayment
  <2> HIDE DEF d, refund
  <2>4. Active' = {}
    BY <2>1, <2>2, <2>3, ResolvingDisputes DEF DisputeInv
  <2>5. status' \in {"CLOSED", "SETTLED"}
    BY <2>2 DEF ReturnStatus
  <2>6. Contested /\ Contested' = FALSE /\ Disputed' = Disputed
    <3>1. DOMAIN disputes' = DOMAIN disputes /\ Next
      BY <1>2, <2>2 DEF Next, Resolve
    <3> QED
      BY <2>3, <2>5, <3>1, DisputedSteps DEF Contested
  <2>7. Settled <=> disputes[d].before = "SETTLED"
    BY <2>3 DEF Settled
  <2>8. Settled' <=> disputes[d].before = "SETTLED" /\ ~refund
    BY <2>2, <2>4 DEF Settled, ReturnStatus
  <2>9. CASE refund
    <3>1. Money = "paid" /\ Money' = "refunded" /\ Settled' = FALSE
      BY <2>2, <2>3, <2>8, <2>9 DEF Money, Settled
    <3> QED
      BY <2>6, <3>1 DEF Promise!Next, Promise!Refund
  <2>10. CASE ~refund
    <3>1. Money' = Money /\ Settled' = Settled
      BY <2>2, <2>3, <2>5, <2>7, <2>8, <2>10 DEF Money, Settled
    <3> QED
      BY <2>6, <3>1 DEF Promise!Next, Promise!Dismiss
  <2> QED
    BY <2>1, <2>9, <2>10
<1> QED
  BY <1>1, <1>2 DEF Resolve, BeginResolve, RollbackResolve

(* The auction closes; a dispute is raised or taken for review. *)
LEMMA OtherMoves ==
  ASSUME DisputeInv, PaymentInv,
         \/ CloseAuction
         \/ \E user \in Users : OpenDispute(user)
         \/ \E d \in DOMAIN disputes : TakeForReview(d)
  PROVE  [Promise!Next]_(Promise!saleVars)
<1>1. CASE CloseAuction
  <2>1. /\ status = "LIVE" /\ status' = "CLOSED" /\ payment = "NONE"
        /\ payment' \in {"NONE", "PENDING"} /\ UNCHANGED disputes
    BY <1>1 DEF CloseAuction, PaymentInv, NothingDueBefore
  <2>2. Money = "open" /\ Money' \in {"unsold", "due"}
    BY <2>1 DEF Money
  <2>3. Active' = Active
    BY <2>1 DEF Active
  <2>4. Contested' = Contested /\ Disputed' = Disputed /\ Settled' = Settled
    BY <2>1, <2>3 DEF Contested, Disputed, Settled
  <2> QED
    BY <2>2, <2>4 DEF Promise!Next, Promise!Close
<1>2. ASSUME NEW user \in Users, OpenDispute(user)
      PROVE  [Promise!Next]_(Promise!saleVars)
  <2>1. /\ Active' = {Len(disputes) + 1}
        /\ disputes'[Len(disputes) + 1].before = status
    BY <1>2, OpeningDisputes DEF DisputeInv
  <2>2. /\ status \in {"CLOSED", "SETTLED"} /\ status' = "DISPUTED"
        /\ Active = {} /\ UNCHANGED payment
    BY <1>2 DEF OpenDispute, CanRaise
  <2>3. /\ ~Contested /\ Contested' = TRUE /\ Disputed' = TRUE
        /\ Settled' = Settled
    <3>1. Disputed'
      BY <1>2, DisputedSteps DEF Next
    <3> QED
      BY <2>1, <2>2, <3>1 DEF Contested, Disputed, Settled
  <2>4. Money # "open" /\ Money' = Money
    BY <2>2 DEF Money, DisputeInv, TypeOK, PaymentStatus
  <2> QED
    BY <2>3, <2>4 DEF Promise!Next, Promise!Contest
<1>3. ASSUME NEW d \in DOMAIN disputes, TakeForReview(d)
      PROVE  [Promise!Next]_(Promise!saleVars)
  <2>1. /\ DOMAIN disputes' = DOMAIN disputes /\ Active' = Active
        /\ \A e \in DOMAIN disputes : disputes'[e].before = disputes[e].before
    BY <1>3, ReviewingDisputes DEF DisputeInv
  <2>2. UNCHANGED <<status, payment>>
    BY <1>3 DEF TakeForReview
  <2>3. Settled' = Settled /\ Disputed' = Disputed
    BY <1>3, <2>1, <2>2, DisputedSteps DEF Settled, Active, Next
  <2> QED
    BY <2>2, <2>3, QuietStep
<1> QED
  BY <1>1, <1>2, <1>3

(***************************************************************************)
(* Recorded one at a time, settlement implements Sale: every step of       *)
(* payments and disputes is one of the sale's or none at all.              *)
(***************************************************************************)
THEOREM SaleRefinement ==
  ASSUME OneAtATime
  PROVE  Spec => RefinesSale
<1>1. ASSUME Init
      PROVE  Promise!Init
  <2>1. Active = {} /\ status = "LIVE" /\ payment = "NONE"
    BY <1>1 DEF Init, Active
  <2> QED
    BY <1>1, <2>1 DEF Init, Promise!Init, Money, Contested, Disputed, Settled
<1>2. DisputeInv /\ PaymentInv /\ UndisputedSettles /\ [Next]_vars => [Promise!Next]_(Promise!saleVars)
  <2> SUFFICES ASSUME DisputeInv, PaymentInv, UndisputedSettles, [Next]_vars
               PROVE  [Promise!Next]_(Promise!saleVars)
    OBVIOUS
  <2>1. CASE UNCHANGED vars
    BY <2>1, QuietStep DEF vars, Disputed, Settled, Active
  <2> QED
    BY <2>1, RecordingMoves, ResolutionMoves, OtherMoves DEF Next
<1> QED
  BY <1>1, <1>2, OneAtATime, DisputesCorrect, PaymentsCorrect,
     UndisputedSettlesCorrect, PTL
  DEF Spec, RefinesSale, Promise!Spec
=============================================================================
