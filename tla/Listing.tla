------------------------------ MODULE Listing ------------------------------
(***************************************************************************)
(* One listing from its draft to the end of its auction: the seller edits  *)
(* and submits it, officers approve or reject it, and then its schedule is *)
(* moved on by sweeps, staff and late bids.                                *)
(*                                                                         *)
(* The row has the columns of the seller's form in two parts, terms and    *)
(* schedule, because they are written by different people: staff and bids  *)
(* write the schedule of a listing that has been approved, and only the    *)
(* form writes the terms.  A schedule is a member of a small set; which    *)
(* times may follow which is in AuctionEngine.                             *)
(*                                                                         *)
(* transition() locks the row and writes the status column with a log row  *)
(* beside it.  The seller's edit form does not go through it: it checks    *)
(* DRAFT on an unlocked copy and then saves every column of that copy.     *)
(***************************************************************************)
EXTENDS Naturals, Sequences

CONSTANTS
  Tabs,       \* concurrent requests of the seller
  Officers,   \* reviewing officers, one request each at a time
  Terms,      \* prices and texts the seller may enter
  Schedules,  \* starts and ends
  MaxLog      \* bound on the status log

ASSUME ListingAssumption == MaxLog \in Nat

VARIABLES
  status,     \* the Auction row: status column
  terms,      \*   the columns of AuctionForm but two,
  schedule,   \*   start_time and end_time
  log,        \* AuctionStatusLog rows
  submitted,  \* terms and schedule the seller last put up for review
  edit,       \* per tab, the copy of the row an edit request works on
  approval    \* per officer, "idle" or "half" way through approve()

vars == <<status, terms, schedule, log, submitted, edit, approval>>

NoCopy == [status |-> "NONE"]

LC == INSTANCE Lifecycle

(* AuctionCreateView.post *)
Init ==
  /\ status = "DRAFT" /\ terms \in Terms /\ schedule \in Schedules
  /\ log = <<>>
  /\ submitted = [terms |-> terms, schedule |-> schedule]
  /\ edit = [t \in Tabs |-> NoCopy]
  /\ approval = [o \in Officers |-> "idle"]

LogRow == [from : LC!Status, to : LC!Status]

Transition(to) ==
  /\ Len(log) < MaxLog
  /\ LC!CanMove(status, to)
  /\ status' = to
  /\ log' = Append(log, [from |-> status, to |-> to])

----------------------------------------------------------------------------
(* AuctionEditView.post: _own_draft_or_403 loads and checks the row ...    *)
(* LoadEdit_Slip forgets to check it.                                      *)
LoadEdit_Slip(t) ==
  /\ edit[t] = NoCopy
  /\ edit' = [edit EXCEPT ![t] = [status |-> status]]
  /\ UNCHANGED <<status, terms, schedule, log, submitted, approval>>

LoadEdit(t) ==
  /\ edit[t] = NoCopy
  /\ status = "DRAFT"
  /\ edit' = [edit EXCEPT ![t] = [status |-> status]]
  /\ UNCHANGED <<status, terms, schedule, log, submitted, approval>>

(* ... and form.save() writes it back, with new terms and times and the    *)
(* status it had then.                                                     *)
SaveEdit(t, new, times) ==
  /\ edit[t] # NoCopy
  /\ status' = edit[t].status
  /\ terms' = new /\ schedule' = times
  /\ edit' = [edit EXCEPT ![t] = NoCopy]
  /\ UNCHANGED <<log, submitted, approval>>

(* The form or an image does not validate. *)
DropEdit(t) ==
  /\ edit[t] # NoCopy
  /\ edit' = [edit EXCEPT ![t] = NoCopy]
  /\ UNCHANGED <<status, terms, schedule, log, submitted, approval>>

SubmitForReview(t) ==
  /\ edit[t] = NoCopy
  /\ Transition("SUBMITTED")
  /\ submitted' = [terms |-> terms, schedule |-> schedule]
  /\ UNCHANGED <<terms, schedule, edit, approval>>

----------------------------------------------------------------------------
(* approve() is two transactions. *)
Approve(o) ==
  /\ approval[o] = "idle"
  /\ Transition("APPROVED")
  /\ approval' = [approval EXCEPT ![o] = "half"]
  /\ UNCHANGED <<terms, schedule, submitted, edit>>

AutoSchedule(o) ==
  /\ approval[o] = "half"
  /\ \/ Transition("SCHEDULED")
     \/ ~LC!CanMove(status, "SCHEDULED") /\ UNCHANGED <<status, log>>
  /\ approval' = [approval EXCEPT ![o] = "idle"]
  /\ UNCHANGED <<terms, schedule, submitted, edit>>

(* The worker dies, or the second transaction fails. *)
LoseApproval(o) ==
  /\ approval[o] = "half"
  /\ approval' = [approval EXCEPT ![o] = "idle"]
  /\ UNCHANGED <<status, terms, schedule, log, submitted, edit>>

Reject(o) ==
  /\ approval[o] = "idle"
  /\ Transition("REJECTED")
  /\ UNCHANGED <<terms, schedule, submitted, edit, approval>>

----------------------------------------------------------------------------
(* A sweep starts the auction, on an object that was SCHEDULED and due when*)
(* the sweep selected it and may be PAUSED by now.                         *)
GoLive ==
  /\ Transition("LIVE")
  /\ UNCHANGED <<terms, schedule, submitted, edit, approval>>

(* start_now sets the start to now if it was still to come. *)
StartNow(times) ==
  /\ status = "SCHEDULED"
  /\ schedule' = times
  /\ Transition("LIVE")
  /\ UNCHANGED <<terms, submitted, edit, approval>>

Reschedule(times) ==
  /\ status \in {"SCHEDULED", "LIVE", "PAUSED"}
  /\ schedule' = times
  /\ UNCHANGED <<status, terms, log, submitted, edit, approval>>

(* A bid in the last minutes moves the end. *)
Extend(times) ==
  /\ status = "LIVE"
  /\ schedule' = times
  /\ UNCHANGED <<status, terms, log, submitted, edit, approval>>

(* pause, resume, cancel_auction and close_auction: only the status. *)
MoveOn(from, to) ==
  /\ status \in from
  /\ Transition(to)
  /\ UNCHANGED <<terms, schedule, submitted, edit, approval>>

Pause  == MoveOn({"LIVE"}, "PAUSED")
Resume == MoveOn({"PAUSED"}, "LIVE")
Cancel == MoveOn({"SCHEDULED", "LIVE", "PAUSED"}, "CANCELLED")
Close  == MoveOn({"LIVE"}, "CLOSED")

----------------------------------------------------------------------------
SellerRequest(t) ==
  \/ LoadEdit(t) \/ DropEdit(t) \/ SubmitForReview(t)
  \/ \E new \in Terms, times \in Schedules : SaveEdit(t, new, times)

OfficerRequest(o) ==
  Approve(o) \/ AutoSchedule(o) \/ LoseApproval(o) \/ Reject(o)

(* What happens to an approved listing, whoever does it. *)
Run ==
  \/ \E times \in Schedules : StartNow(times) \/ Reschedule(times) \/ Extend(times)
  \/ GoLive \/ Pause \/ Resume \/ Cancel \/ Close

Next ==
  \/ \E t \in Tabs : SellerRequest(t)
  \/ \E o \in Officers : OfficerRequest(o)
  \/ Run

Spec == Init /\ [][Next]_vars

----------------------------------------------------------------------------
(***************************************************************************)
(*                              Properties                                 *)
(***************************************************************************)
(* Type invariant: the row, its log and the requests in progress.          *)
TypeOK ==
  /\ status \in LC!Status /\ terms \in Terms /\ schedule \in Schedules
  /\ submitted \in [terms : Terms, schedule : Schedules]
  /\ log \in Seq(LogRow)
  /\ edit \in [Tabs -> {NoCopy, [status |-> "DRAFT"]}]
  /\ approval \in [Officers -> {"idle", "half"}]

(* What officers review and schedule is what the seller submitted, its     *)
(* times included, and what is bid on, paused, cancelled or closed after   *)
(* that has the submitted prices and texts, whatever became of the times;  *)
(* also when the seller saves from two tabs: the stale save that would     *)
(* change a listing behind the officers' back takes it back to DRAFT with  *)
(* it.                                                                     *)
TermsAsSubmitted ==
  /\ status # "DRAFT" => terms = submitted.terms
  /\ status \in {"SUBMITTED", "APPROVED", "REJECTED"} =>
       schedule = submitted.schedule

(* transition() "locks the row so a concurrent approval/rejection can't    *)
(* race": however officers overlap, each decision in the log answers a     *)
(* submission of its own and each scheduling an approval of its own.       *)
OneDecision ==
  \A i \in DOMAIN log :
    /\ log[i].from = "SUBMITTED" => i > 1 /\ log[i - 1].to = "SUBMITTED"
    /\ log[i].to = "SCHEDULED" => i > 1 /\ log[i - 1].to = "APPROVED"

(* Docs: "every change is validated and audit-logged", so the log is an    *)
(* unbroken chain from DRAFT to the present status.                        *)
LogExplainsStatus ==
  /\ \A i \in 1 .. Len(log) - 1 : log[i].to = log[i + 1].from
  /\ log # <<>> => log[1].from = "DRAFT" /\ log[Len(log)].to = status
  /\ log = <<>> => status = "DRAFT"
=============================================================================
