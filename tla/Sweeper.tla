------------------------------ MODULE Sweeper ------------------------------
(***************************************************************************)
(* Many auctions and the processes that start and close them: the command  *)
(* activate_scheduled_auctions, the command close_ended_auctions, and      *)
(* sweep_due behind a button of the staff.                                 *)
(*                                                                         *)
(* A run makes one query and then works through its result, newest auction *)
(* first, one transaction each.  In between anybody may move the auctions. *)
(* An auction that can no longer be moved raises: that ends the run of a   *)
(* command, and sweep_due catches it and goes on.                          *)
(*                                                                         *)
(* AuctionEngine has the bids, prices and winners of one auction; here an  *)
(* auction is its status and where the clock stands in its schedule.       *)
(* Operators named X_Slip are X with a plausible slip.                     *)
(***************************************************************************)
EXTENDS Naturals

CONSTANTS
  NumAuctions,  \* the auctions 1 .. NumAuctions in order of creation
  Starters,     \* processes that run activate_scheduled_auctions
  Closers,      \* processes that run close_ended_auctions
  Requests,     \* staff requests that call sweep_due
  MaxStaff,     \* bound on the interventions of staff
  MaxFaults     \* bound on the runs that are killed

ASSUME SweeperAssumption ==
  /\ NumAuctions \in Nat /\ MaxStaff \in Nat /\ MaxFaults \in Nat
  /\ Starters \cap Closers = {} /\ (Starters \cup Closers) \cap Requests = {}

VARIABLES
  status,   \* per auction, its status
  clock,    \* per auction, where now is in its schedule
  bidding,  \* auctions whose row a place_bid transaction has locked
  run,      \* per process, what it is doing and the auctions it still has
  staff,    \* interventions so far
  faults    \* runs killed so far

vars == <<status, clock, bidding, run, staff, faults>>

Auctions  == 1 .. NumAuctions
Commands  == Starters \cup Closers
Processes == Commands \cup Requests

LC == INSTANCE Lifecycle

Idle    == [step |-> "idle", todo |-> {}]
Halfway == [step |-> "halfway", todo |-> {}]

Init ==
  /\ status = [a \in Auctions |-> "SCHEDULED"]
  /\ clock \in [Auctions -> {"before", "during", "after"}]
  /\ bidding = {}
  /\ run = [p \in Processes |-> Idle]
  /\ staff = 0 /\ faults = 0

RowFree_Slip(a) == TRUE

RowFree(a) == a \notin bidding

Transition(a, to) ==
  /\ RowFree(a)
  /\ LC!CanMove(status[a], to)
  /\ status' = [status EXCEPT ![a] = to]

SetClock(a, c) == clock' = [clock EXCEPT ![a] = c]

----------------------------------------------------------------------------
(* Time passes the start or the end of an auction. *)
Tick(a) ==
  /\ \/ clock[a] = "before" /\ SetClock(a, "during")
     \/ clock[a] = "during" /\ SetClock(a, "after")
  /\ UNCHANGED <<status, bidding, run, staff, faults>>

(* place_bid locks an open auction; when it ends it may have moved the end *)
(* later, also if the end has passed since.                                *)
BeginBid(a) ==
  /\ RowFree(a)
  /\ status[a] = "LIVE" /\ clock[a] = "during"
  /\ bidding' = bidding \cup {a}
  /\ UNCHANGED <<status, clock, run, staff, faults>>

EndBid(a) ==
  /\ a \in bidding
  /\ bidding' = bidding \ {a}
  /\ \/ clock[a] = "after" /\ SetClock(a, "during")
     \/ UNCHANGED clock
  /\ UNCHANGED <<status, run, staff, faults>>

----------------------------------------------------------------------------
Due(a) == status[a] = "SCHEDULED" /\ clock[a] # "before"

Overdue(a) == status[a] = "LIVE" /\ clock[a] = "after"

DueAuctions     == {a \in Auctions : Due(a)}
OverdueAuctions == {a \in Auctions : Overdue(a)}

(* Meta.ordering is newest first. *)
First(todo) == CHOOSE a \in todo : \A b \in todo : b <= a

SetRun_Slip(p, step, todo) ==
  run' = [run EXCEPT ![p] = [step |-> step, todo |-> todo]]

(* A run without auctions left is over; sweep_due has a second half. *)
SetRun(p, step, todo) ==
  run' = [run EXCEPT ![p] =
            CASE todo # {} -> [step |-> step, todo |-> todo]
              [] todo = {} /\ p \in Requests /\ step = "starting" -> Halfway
              [] OTHER -> Idle]

(* The query of a run.  A command that finds nothing is no step. *)
BeginStarting(p) ==
  /\ run[p] = Idle
  /\ p \in Starters => DueAuctions # {}
  /\ SetRun(p, "starting", DueAuctions)
  /\ UNCHANGED <<status, clock, bidding, staff, faults>>

BeginClosing(p) ==
  /\ run[p] = Idle
  /\ OverdueAuctions # {}
  /\ SetRun(p, "closing", OverdueAuctions)
  /\ UNCHANGED <<status, clock, bidding, staff, faults>>

(* sweep_due looks at the clock once, before it starts auctions: one that  *)
(* has ended since then need not be in its second query.                   *)
GoOnClosing(p) ==
  /\ run[p] = Halfway
  /\ \E todo \in SUBSET OverdueAuctions : SetRun(p, "closing", todo)
  /\ UNCHANGED <<status, clock, bidding, staff, faults>>

(* What is left after the auction at hand, when moving it worked ... *)
Rest(p) == run[p].todo \ {First(run[p].todo)}

(* ... and when it raised.  LeftAfterError_Slip tries again, and again;    *)
(* LeftAfterError_SlipStop has no handler in sweep_due either.             *)
LeftAfterError_Slip(p) == run[p].todo

LeftAfterError_SlipStop(p) == {}

LeftAfterError(p) == IF p \in Commands THEN {} ELSE Rest(p)

(* activate_if_due tests the object of the query, transition() the row.    *)
StartNext(p) ==
  /\ run[p].step = "starting"
  /\ LET a == First(run[p].todo)
     IN  /\ RowFree(a)
         /\ \/ Transition(a, "LIVE") /\ SetRun(p, "starting", Rest(p))
            \/ /\ ~LC!CanMove(status[a], "LIVE")
               /\ SetRun(p, "starting", LeftAfterError(p))
               /\ UNCHANGED status
  /\ UNCHANGED <<clock, bidding, staff, faults>>

(* close_auction looks at the status of the row, and not at its end. *)
CloseNext(p) ==
  /\ run[p].step = "closing"
  /\ LET a == First(run[p].todo)
     IN  /\ RowFree(a)
         /\ \/ /\ status[a] = "LIVE"
               /\ Transition(a, "CLOSED") /\ SetRun(p, "closing", Rest(p))
            \/ /\ status[a] # "LIVE"
               /\ SetRun(p, "closing", LeftAfterError(p))
               /\ UNCHANGED status
  /\ UNCHANGED <<clock, bidding, staff, faults>>

(* The process is killed, or a notification cannot be queued, which no     *)
(* handler expects: the transaction at hand is rolled back, the run ends.  *)
Die(p) ==
  /\ run[p] # Idle
  /\ faults < MaxFaults /\ faults' = faults + 1
  /\ run' = [run EXCEPT ![p] = Idle]
  /\ UNCHANGED <<status, clock, bidding, staff>>

----------------------------------------------------------------------------
(* The staff controls, as far as statuses and schedules go. *)
StartNow(a) ==
  /\ status[a] = "SCHEDULED" /\ clock[a] # "after"
  /\ Transition(a, "LIVE")
  /\ SetClock(a, "during")

Pause(a) == Transition(a, "PAUSED") /\ UNCHANGED clock

Resume(a) ==
  /\ status[a] = "PAUSED" /\ clock[a] # "after"
  /\ Transition(a, "LIVE")
  /\ UNCHANGED clock

Cancel(a) ==
  /\ status[a] \in {"SCHEDULED", "LIVE", "PAUSED"}
  /\ Transition(a, "CANCELLED")
  /\ UNCHANGED clock

EndNow(a) == status[a] = "LIVE" /\ Transition(a, "CLOSED") /\ UNCHANGED clock

(* A new end lies in the future, a new start too.  A start can be given    *)
(* only while SCHEDULED.                                                   *)
Reschedule(a) ==
  /\ RowFree(a)
  /\ status[a] \in {"SCHEDULED", "LIVE", "PAUSED"}
  /\ \/ status[a] = "SCHEDULED" /\ SetClock(a, "before")
     \/ clock[a] = "after" /\ SetClock(a, "during")
  /\ UNCHANGED status

Control(a) ==
  StartNow(a) \/ Pause(a) \/ Resume(a) \/ Cancel(a) \/ EndNow(a) \/ Reschedule(a)

Intervene(a) ==
  /\ staff < MaxStaff /\ staff' = staff + 1
  /\ Control(a)
  /\ UNCHANGED <<bidding, run, faults>>

----------------------------------------------------------------------------
Work(p) == StartNext(p) \/ CloseNext(p)

Step ==
  \/ \E a \in Auctions : Tick(a) \/ BeginBid(a) \/ EndBid(a)
  \/ \E p \in Starters \cup Requests : BeginStarting(p)
  \/ \E p \in Closers : BeginClosing(p)
  \/ \E p \in Requests : GoOnClosing(p)
  \/ \E p \in Processes : Work(p)

Next ==
  \/ Step
  \/ \E a \in Auctions : Intervene(a)
  \/ \E p \in Processes : Die(p)

Spec == Init /\ [][Next]_vars

(***************************************************************************)
(* Fairness: cron runs both commands every minute, so a command that is    *)
(* not running and has something to do eventually runs; a process that     *)
(* waits for a row lock gets it in its turn, although bids take it again   *)
(* and again; a bid in progress ends.  Nobody owes a bid, an intervention  *)
(* or a click on the staff's button.                                       *)
(***************************************************************************)
Fairness ==
  /\ \A p \in Starters : WF_vars(BeginStarting(p))
  /\ \A p \in Closers : WF_vars(BeginClosing(p))
  /\ \A p \in Commands : SF_vars(Work(p))
  /\ \A a \in Auctions : WF_vars(EndBid(a))

FairSpec == Spec /\ Fairness

(* The same with interventions and without their count, for AuctionEngine. *)
UncountedSpec ==
  /\ Init
  /\ [][\/ Step
         \/ \E a \in Auctions : Control(a) /\ UNCHANGED <<bidding, run>>
       ]_<<status, clock, bidding, run>>

----------------------------------------------------------------------------
(***************************************************************************)
(*                              Properties                                 *)
(***************************************************************************)
(* Type invariant: statuses an auction has from SCHEDULED to its close,    *)
(* and runs that know which auctions they still have.                      *)
TypeOK ==
  /\ status \in [Auctions -> {"SCHEDULED", "LIVE", "PAUSED", "CLOSED",
                              "CANCELLED"}]
  /\ clock \in [Auctions -> {"before", "during", "after"}]
  /\ bidding \subseteq Auctions
  /\ run \in [Processes -> [step : {"idle", "starting", "halfway", "closing"},
                            todo : SUBSET Auctions]]
  /\ \A p \in Processes : run[p].step \in {"idle", "halfway"} <=> run[p].todo = {}
  /\ staff \in Nat /\ faults \in Nat

(* The status that put an auction on the list of a run. *)
Wanted(step) == IF step = "starting" THEN "SCHEDULED" ELSE "LIVE"

(* sweep_due comes to every auction it found: while the commands and the   *)
(* staff move auctions under it and some raise, none leaves its list until *)
(* it has left SCHEDULED in the first half, LIVE in the second.  Only a    *)
(* request that dies leaves auctions behind.                               *)
ClicksLeaveNoneBehind ==
  [][faults' = faults =>
       \A p \in Requests : \A a \in run[p].todo \ run'[p].todo :
         status'[a] # Wanted(run[p].step)]_vars

(* A bid in progress keeps its auction LIVE: no run or person closes,      *)
(* pauses or cancels it under the bid.                                     *)
BidsKeepAuctionLive == \A a \in bidding : status[a] = "LIVE"

(* Every auction whose start has come is started, although runs end early  *)
(* on auctions somebody else has moved: unless staff move it on or put it  *)
(* off, it leaves SCHEDULED.                                               *)
EveryDueAuctionStarts ==
  \A a \in Auctions : Due(a) ~> ~Due(a)

(* Every auction whose end has passed is closed, although runs end early   *)
(* and bids keep taking its row, unless it is extended, paused or          *)
(* cancelled.                                                              *)
EveryOverdueAuctionCloses ==
  \A a \in Auctions : Overdue(a) ~> ~Overdue(a)
=============================================================================
