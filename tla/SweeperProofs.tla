--------------------------- MODULE SweeperProofs ---------------------------
(* Theorems about Sweeper, for any number of auctions and processes. *)
EXTENDS Sweeper, TLAPS

Moving == {"SCHEDULED", "LIVE", "PAUSED", "CLOSED", "CANCELLED"}

SweepInv == TypeOK /\ BidsKeepAuctionLive

(* What every step does to the statuses: at most one auction moves, along  *)
(* the table and while no bid holds it.                                    *)
Moves(a) ==
  /\ a \notin bidding /\ UNCHANGED bidding
  /\ \E to \in {"LIVE", "PAUSED", "CLOSED", "CANCELLED"} :
       LC!CanMove(status[a], to) /\ status' = [status EXCEPT ![a] = to]

StatusStep == (\E a : Moves(a)) \/ UNCHANGED status

LEMMA MovesLive ==
  ASSUME NEW a, NEW to \in {"LIVE", "PAUSED", "CLOSED", "CANCELLED"},
         Transition(a, to), UNCHANGED bidding
  PROVE  Moves(a)
BY DEF Transition, RowFree, Moves

LEMMA SetRunTyped ==
  ASSUME TypeOK, NEW p, NEW todo \in SUBSET Auctions,
         NEW step \in {"starting", "closing"}, SetRun(p, step, todo)
  PROVE  /\ run' \in [Processes -> [step : {"idle", "starting", "halfway", "closing"},
                                    todo : SUBSET Auctions]]
         /\ \A q \in Processes : run'[q].step \in {"idle", "halfway"} <=> run'[q].todo = {}
<1> DEFINE R == [step : {"idle", "starting", "halfway", "closing"}, todo : SUBSET Auctions]
           r == CASE todo # {} -> [step |-> step, todo |-> todo]
                  [] todo = {} /\ p \in Requests /\ step = "starting" -> Halfway
                  [] OTHER -> Idle
<1>1. r \in R /\ (r.step \in {"idle", "halfway"} <=> r.todo = {})
  <2>1. CASE todo # {}
    BY <2>1
  <2>2. CASE todo = {}
    <3>1. r \in {Halfway, Idle}
      BY <2>2
    <3> QED
      BY <3>1 DEF Halfway, Idle
  <2> QED
    BY <2>1, <2>2
<1>2. run' = [run EXCEPT ![p] = r]
  BY DEF SetRun
<1> HIDE DEF r
<1>3. /\ run \in [Processes -> R]
      /\ \A q \in Processes : run[q].step \in {"idle", "halfway"} <=> run[q].todo = {}
  BY DEF TypeOK
<1>4. \A q \in Processes : run'[q] = IF q = p THEN r ELSE run[q]
  BY <1>2, <1>3
<1> QED
  BY <1>1, <1>2, <1>3, <1>4

(* Starting and closing an auction, and the runs around them. *)
LEMMA SweepSteps ==
  ASSUME TypeOK,
         \/ \E p \in Starters \cup Requests : BeginStarting(p)
         \/ \E p \in Closers : BeginClosing(p)
         \/ \E p \in Requests : GoOnClosing(p)
         \/ \E p \in Processes : Work(p) \/ Die(p)
  PROVE  /\ StatusStep /\ UNCHANGED <<clock, bidding, staff>>
         /\ faults' \in Nat
         /\ run' \in [Processes -> [step : {"idle", "starting", "halfway", "closing"},
                                    todo : SUBSET Auctions]]
         /\ \A q \in Processes : run'[q].step \in {"idle", "halfway"} <=> run'[q].todo = {}
<1> DEFINE Goal == /\ StatusStep /\ UNCHANGED <<clock, bidding, staff>>
                   /\ faults' \in Nat
                   /\ run' \in [Processes -> [step : {"idle", "starting", "halfway", "closing"},
                                              todo : SUBSET Auctions]]
                   /\ \A q \in Processes :
                        run'[q].step \in {"idle", "halfway"} <=> run'[q].todo = {}
<1>0. faults \in Nat
  BY DEF TypeOK
<1>1. ASSUME NEW p, BeginStarting(p)
      PROVE  Goal
  <2>1. DueAuctions \in SUBSET Auctions
    BY DEF DueAuctions
  <2> QED
    BY <1>0, <1>1, <2>1, SetRunTyped DEF BeginStarting, StatusStep
<1>2. ASSUME NEW p, BeginClosing(p) \/ GoOnClosing(p)
      PROVE  Goal
  <2>1. \E todo \in SUBSET Auctions : SetRun(p, "closing", todo)
    BY <1>2 DEF BeginClosing, GoOnClosing, OverdueAuctions
  <2>2. UNCHANGED <<status, clock, bidding, staff, faults>>
    BY <1>2 DEF BeginClosing, GoOnClosing
  <2> QED
    BY <1>0, <2>1, <2>2, SetRunTyped DEF StatusStep
<1>3. ASSUME NEW p \in Processes, Work(p)
      PROVE  Goal
  <2>1. UNCHANGED <<clock, bidding, staff, faults>>
    BY <1>3 DEF Work, StartNext, CloseNext
  <2>2. Rest(p) \in SUBSET Auctions /\ LeftAfterError(p) \in SUBSET Auctions
    BY DEF TypeOK, Rest, LeftAfterError
  <2>3. \E step \in {"starting", "closing"}, todo \in SUBSET Auctions : SetRun(p, step, todo)
    BY <1>3, <2>2 DEF Work, StartNext, CloseNext
  <2>4. StatusStep
    BY <1>3, <2>1, MovesLive DEF Work, StartNext, CloseNext, StatusStep
  <2> QED
    BY <1>0, <2>1, <2>3, <2>4, SetRunTyped
<1>4. ASSUME NEW p \in Processes, Die(p)
      PROVE  Goal
  <2>1. /\ UNCHANGED <<status, clock, bidding, staff>> /\ faults' = faults + 1
        /\ run' = [run EXCEPT ![p] = Idle]
    BY <1>4 DEF Die
  <2>2. Idle.step = "idle" /\ Idle.todo = {}
        /\ Idle \in [step : {"idle", "starting", "halfway", "closing"}, todo : SUBSET Auctions]
    BY DEF Idle
  <2>3. \A q \in Processes : run'[q] = IF q = p THEN Idle ELSE run[q]
    BY <2>1 DEF TypeOK
  <2> QED
    BY <1>0, <2>1, <2>2, <2>3 DEF TypeOK, StatusStep
<1> QED
  BY <1>1, <1>2, <1>3, <1>4

(* Bids, the clock and the staff. *)
LEMMA OtherSteps ==
  ASSUME TypeOK, NEW a \in Auctions,
         Tick(a) \/ BeginBid(a) \/ EndBid(a) \/ Intervene(a)
  PROVE  /\ StatusStep /\ UNCHANGED <<run, faults>>
         /\ clock' \in [Auctions -> {"before", "during", "after"}]
         /\ staff' \in Nat
         /\ \/ bidding' \subseteq bidding
            \/ BeginBid(a)
<1>1. CASE Tick(a)
  BY <1>1 DEF Tick, SetClock, TypeOK, StatusStep
<1>2. CASE BeginBid(a)
  BY <1>2 DEF BeginBid, TypeOK, StatusStep
<1>3. CASE EndBid(a)
  BY <1>3 DEF EndBid, SetClock, TypeOK, StatusStep
<1>4. CASE Intervene(a)
  <2>1. /\ UNCHANGED <<bidding, run, faults>> /\ staff' \in Nat
        /\ clock' \in [Auctions -> {"before", "during", "after"}]
    BY <1>4 DEF Intervene, Control, StartNow, Pause, Resume, Cancel, EndNow, Reschedule,
                SetClock, TypeOK
  <2>2. StatusStep
    BY <1>4, <2>1, MovesLive DEF Intervene, Control, StartNow, Pause, Resume, Cancel, EndNow,
                                 Reschedule, StatusStep
  <2> QED
    BY <2>1, <2>2
<1> QED
  BY <1>1, <1>2, <1>3, <1>4

(* A move leaves the statuses typed and the auctions of bids alone. *)
LEMMA StatusTyped ==
  ASSUME TypeOK, StatusStep
  PROVE  /\ status' \in [Auctions -> Moving]
         /\ \A b \in bidding : status'[b] = status[b]
<1>1. status \in [Auctions -> Moving] /\ bidding \subseteq Auctions
  BY DEF TypeOK, Moving
<1>2. ASSUME NEW a, Moves(a)
      PROVE  /\ status' \in [Auctions -> Moving]
             /\ \A b \in bidding : status'[b] = status[b]
  <2>1. PICK to \in {"LIVE", "PAUSED", "CLOSED", "CANCELLED"} :
          LC!CanMove(status[a], to) /\ status' = [status EXCEPT ![a] = to]
    BY <1>2 DEF Moves
  <2>2. \A b \in Auctions : status'[b] = IF b = a THEN to ELSE status[b]
    BY <1>1, <2>1
  <2>3. to \in Moving
    BY DEF Moving
  <2> QED
    BY <1>1, <1>2, <2>1, <2>2, <2>3 DEF Moves
<1> QED
  BY <1>1, <1>2 DEF StatusStep

----------------------------------------------------------------------------
(***************************************************************************)
(* A bid in progress keeps its auction LIVE, whoever sweeps or intervenes. *)
(***************************************************************************)
THEOREM SweepsCorrect == Spec => []SweepInv
<1>1. Init => SweepInv
  BY DEF Init, Idle, SweepInv, TypeOK, BidsKeepAuctionLive
<1>2. ASSUME SweepInv, [Next]_vars
      PROVE  SweepInv'
  <2>0. TypeOK
    BY <1>2 DEF SweepInv
  <2>1. ASSUME NEW a \in Auctions, Tick(a) \/ BeginBid(a) \/ EndBid(a) \/ Intervene(a)
        PROVE  SweepInv'
    <3>1. /\ StatusStep /\ UNCHANGED <<run, faults>>
          /\ clock' \in [Auctions -> {"before", "during", "after"}]
          /\ staff' \in Nat
          /\ bidding' \subseteq bidding \/ BeginBid(a)
      BY <2>0, <2>1, OtherSteps
    <3>2. /\ status' \in [Auctions -> Moving]
          /\ \A b \in bidding : status'[b] = status[b]
      BY <2>0, <3>1, StatusTyped
    <3>3. /\ bidding' \subseteq Auctions
          /\ \A b \in bidding' : status'[b] = "LIVE"
      BY <1>2, <3>1, <3>2 DEF SweepInv, TypeOK, BidsKeepAuctionLive, BeginBid
    <3> QED
      BY <2>0, <3>1, <3>2, <3>3 DEF SweepInv, TypeOK, BidsKeepAuctionLive, Moving
  <2>2. ASSUME \/ \E p \in Starters \cup Requests : BeginStarting(p)
               \/ \E p \in Closers : BeginClosing(p)
               \/ \E p \in Requests : GoOnClosing(p)
               \/ \E p \in Processes : Work(p) \/ Die(p)
        PROVE  SweepInv'
    <3>1. /\ StatusStep /\ UNCHANGED <<clock, bidding, staff>>
          /\ faults' \in Nat
          /\ run' \in [Processes -> [step : {"idle", "starting", "halfway", "closing"},
                                     todo : SUBSET Auctions]]
          /\ \A q \in Processes :
               run'[q].step \in {"idle", "halfway"} <=> run'[q].todo = {}
      BY <2>0, <2>2, SweepSteps
    <3>2. /\ status' \in [Auctions -> Moving]
          /\ \A b \in bidding : status'[b] = status[b]
      BY <2>0, <3>1, StatusTyped
    <3> QED
      BY <1>2, <2>0, <3>1, <3>2 DEF SweepInv, TypeOK, BidsKeepAuctionLive, Moving
  <2>3. CASE UNCHANGED vars
    BY <1>2, <2>3 DEF vars, SweepInv, TypeOK, BidsKeepAuctionLive
  <2> QED
    BY <1>2, <2>1, <2>2, <2>3 DEF Next, Step
<1> QED
  BY <1>1, <1>2, PTL DEF Spec

(* Type correctness of every reachable state. *)
THEOREM SweeperTypeCorrect == Spec => []TypeOK
BY SweepsCorrect, PTL DEF SweepInv

(* No run or person moves an auction under a bid in progress. *)
THEOREM BidsKeepAuctionLiveCorrect == Spec => []BidsKeepAuctionLive
BY SweepsCorrect, PTL DEF SweepInv

(***************************************************************************)
(* No click leaves an auction of its query behind: an auction it drops has *)
(* just been moved, or could not be moved any more.                        *)
(***************************************************************************)
THEOREM ClicksLeaveNoneBehindCorrect == Spec => ClicksLeaveNoneBehind
<1> DEFINE Served(p) == \A a \in run[p].todo \ run'[p].todo :
                          status'[a] # Wanted(run[p].step)
           A == faults' = faults => \A p \in Requests : Served(p)
<1>1. ASSUME TypeOK, [Next]_vars
      PROVE  [A]_vars
  <2>0. /\ \A p \in Processes : run[p].todo \subseteq Auctions
        /\ \A q \in Requests : q \in Processes /\ q \notin Commands
        /\ Idle.todo = {} /\ Idle.step = "idle"
        /\ Halfway.todo = {} /\ Halfway.step = "halfway"
    BY <1>1, SweeperAssumption DEF TypeOK, Processes, Commands, Idle, Halfway
  <2>1. ASSUME NEW p \in Requests, Work(p)
        PROVE  Served(p)
    <3>1. LeftAfterError(p) = Rest(p)
      BY <2>0 DEF LeftAfterError
    <3>2. run[p].todo \ run'[p].todo \subseteq {First(run[p].todo)}
      <4>1. \E step : SetRun(p, step, Rest(p))
        BY <2>1, <3>1 DEF Work, StartNext, CloseNext
      <4>2. PICK step : SetRun(p, step, Rest(p))
        BY <4>1
      <4>3. run'[p].todo = Rest(p)
        BY <1>1, <2>0, <4>2 DEF SetRun, TypeOK
      <4> QED
        BY <4>3 DEF Rest
    <3>3. ASSUME First(run[p].todo) \in run[p].todo
          PROVE  status'[First(run[p].todo)] # Wanted(run[p].step)
      <4> DEFINE a == First(run[p].todo)
      <4>1. a \in Auctions
        BY <2>0, <3>3
      <4> HIDE DEF a
      <4>2. CASE StartNext(p)
        <5>1. \/ status' = [status EXCEPT ![a] = "LIVE"]
              \/ ~LC!CanMove(status[a], "LIVE") /\ status' = status
          BY <4>2 DEF StartNext, Transition, a
        <5>2. LC!CanMove("SCHEDULED", "LIVE")
          BY DEF LC!CanMove, LC!AllowedTransitions, LC!Status
        <5> QED
          BY <1>1, <4>1, <4>2, <5>1, <5>2 DEF TypeOK, StartNext, Wanted, a
      <4>3. CASE CloseNext(p)
        <5>1. \/ status' = [status EXCEPT ![a] = "CLOSED"]
              \/ status[a] # "LIVE" /\ status' = status
          BY <4>3 DEF CloseNext, Transition, a
        <5> QED
          BY <1>1, <4>1, <4>3, <5>1 DEF TypeOK, CloseNext, Wanted, a
      <4> QED
        BY <2>1, <4>2, <4>3 DEF Work
    <3> QED
      BY <3>2, <3>3
  <2>2. ASSUME NEW p \in Requests, ~Work(p), Next, faults' = faults
        PROVE  run[p].todo \ run'[p].todo = {}
    <3>1. CASE run[p].todo = {}
      BY <3>1
    <3>2. CASE run[p].todo # {} /\ run'[p] = run[p]
      BY <3>2
    <3>3. run[p].todo # {} => run'[p] = run[p]
      <4> SUFFICES ASSUME run[p].todo # {} PROVE run'[p] = run[p]
        OBVIOUS
      <4>0. run[p] # Idle /\ run[p] # Halfway
        BY <2>0
      <4>1. ASSUME NEW q \in Processes, Work(q) PROVE run'[p] = run[p]
        BY <1>1, <2>0, <2>2, <4>1 DEF Work, StartNext, CloseNext, SetRun, TypeOK
      <4>2. ASSUME NEW q, BeginStarting(q) \/ BeginClosing(q) \/ GoOnClosing(q)
            PROVE  run'[p] = run[p]
        BY <1>1, <2>0, <4>0, <4>2 DEF BeginStarting, BeginClosing, GoOnClosing, SetRun, TypeOK
      <4>3. ASSUME NEW q \in Processes, Die(q) PROVE run'[p] = run[p]
        BY <1>1, <2>2, <4>3 DEF Die, TypeOK
      <4>4. ASSUME NEW a \in Auctions, Tick(a) \/ BeginBid(a) \/ EndBid(a) \/ Intervene(a)
            PROVE  run'[p] = run[p]
        BY <4>4 DEF Tick, BeginBid, EndBid, Intervene
      <4> QED
        BY <2>2, <4>1, <4>2, <4>3, <4>4 DEF Next, Step
    <3> QED
      BY <3>1, <3>2, <3>3
  <2>3. CASE Next
    BY <2>1, <2>2, <2>3
  <2>4. CASE UNCHANGED vars
    BY <2>4
  <2> QED
    BY <1>1, <2>3, <2>4
<1> QED
  BY <1>1, SweeperTypeCorrect, PTL DEF Spec, ClicksLeaveNoneBehind
=============================================================================
