---------------------------- MODULE ListingProofs ----------------------------
(* Theorems about Listing, for every value of its constants. *)
EXTENDS Listing, TLAPS

(* What transition() does to the status and its log. *)
LEMMA TransitionStep ==
  ASSUME TypeOK, NEW to \in LC!Status, Transition(to)
  PROVE  /\ status' = to /\ to \in LC!AllowedTransitions[status]
         /\ log' \in Seq(LogRow)
         /\ DOMAIN log' = DOMAIN log \cup {Len(log) + 1}
         /\ DOMAIN log = 1 .. Len(log) /\ Len(log) \in Nat
         /\ log'[Len(log) + 1] = [from |-> status, to |-> to]
         /\ \A i \in DOMAIN log : log'[i] = log[i]
         /\ Len(log') = Len(log) + 1
<1> DEFINE r == [from |-> status, to |-> to]
<1>1. /\ r \in LogRow
      /\ log \in Seq(LogRow)
      /\ log' = Append(log, r)
  BY DEF TypeOK, Transition, LogRow
<1>2. status' = to /\ to \in LC!AllowedTransitions[status]
  BY DEF Transition, LC!CanMove
<1> QED
  BY <1>1, <1>2

(***************************************************************************)
(* The writers of the row: a saved edit takes the listing back to DRAFT,   *)
(* with whatever terms and times; a transition keeps the terms, follows    *)
(* the table and, unless the auction starts, keeps the times; a running or *)
(* scheduled auction may get other times.  Only a submission records what  *)
(* was submitted.                                                          *)
(***************************************************************************)
Reached == {"SUBMITTED", "APPROVED", "SCHEDULED", "REJECTED", "LIVE", "PAUSED",
            "CANCELLED", "CLOSED"}

SavedEdit ==
  /\ status' = "DRAFT" /\ terms' \in Terms /\ schedule' \in Schedules
  /\ UNCHANGED <<log, submitted>>

Moved(to) ==
  /\ Transition(to) /\ UNCHANGED terms
  /\ schedule' \in Schedules
  /\ to # "LIVE" => UNCHANGED schedule
  /\ to = "CANCELLED" => status # "DRAFT"
  /\ submitted' = IF to = "SUBMITTED" THEN [terms |-> terms, schedule |-> schedule]
                                      ELSE submitted

Rescheduled ==
  /\ status \in {"SCHEDULED", "LIVE", "PAUSED"}
  /\ schedule' \in Schedules
  /\ UNCHANGED <<status, terms, log, submitted>>

Untouched == UNCHANGED <<status, terms, schedule, log, submitted>>

LEMMA RowWriters ==
  ASSUME TypeOK, [Next]_vars
  PROVE  SavedEdit \/ (\E to \in Reached : Moved(to)) \/ Rescheduled \/ Untouched
<1> USE DEF Reached, Untouched
<1>0. schedule \in Schedules
  BY DEF TypeOK
<1>1. ASSUME NEW t \in Tabs, SellerRequest(t)
      PROVE  SavedEdit \/ Moved("SUBMITTED") \/ Untouched
  <2>1. ASSUME NEW new \in Terms, NEW times \in Schedules, SaveEdit(t, new, times)
        PROVE  SavedEdit
    <3>1. edit[t] \in {NoCopy, [status |-> "DRAFT"]} /\ edit[t] # NoCopy
      BY <2>1 DEF SaveEdit, TypeOK
    <3> QED
      BY <2>1, <3>1 DEF SaveEdit, SavedEdit
  <2>2. CASE SubmitForReview(t)
    BY <1>0, <2>2 DEF SubmitForReview, Moved
  <2> QED
    BY <1>1, <2>1, <2>2 DEF SellerRequest, LoadEdit, DropEdit
<1>2. ASSUME NEW o \in Officers, OfficerRequest(o)
      PROVE  \/ Moved("APPROVED") \/ Moved("SCHEDULED") \/ Moved("REJECTED")
             \/ Untouched
  BY <1>0, <1>2 DEF OfficerRequest, Approve, AutoSchedule, LoseApproval, Reject, Moved
<1>3. CASE Run
  <2>1. ASSUME NEW times \in Schedules,
               StartNow(times) \/ Reschedule(times) \/ Extend(times)
        PROVE  Moved("LIVE") \/ Rescheduled
    BY <2>1 DEF StartNow, Reschedule, Extend, Moved, Rescheduled
  <2>2. CASE GoLive
    BY <1>0, <2>2 DEF GoLive, Moved
  <2>3. ASSUME NEW from \in SUBSET {"SCHEDULED", "LIVE", "PAUSED"},
               NEW to \in Reached \ {"SUBMITTED"}, MoveOn(from, to)
        PROVE  Moved(to)
    BY <1>0, <2>3 DEF MoveOn, Moved
  <2> QED
    BY <1>3, <2>1, <2>2, <2>3 DEF Run, Pause, Resume, Cancel, Close
<1>4. CASE UNCHANGED vars
  BY <1>4 DEF vars
<1> QED
  BY <1>1, <1>2, <1>3, <1>4 DEF Next

(* Every step keeps the types. *)
LEMMA TypeStep ==
  ASSUME TypeOK, [Next]_vars
  PROVE  TypeOK'
<1> DEFINE Row == /\ status \in LC!Status /\ terms \in Terms /\ schedule \in Schedules
                  /\ submitted \in [terms : Terms, schedule : Schedules]
                  /\ log \in Seq(LogRow)
<1>1. Row'
  <2>1. CASE SavedEdit
    BY <2>1 DEF SavedEdit, TypeOK, LC!Status
  <2>2. ASSUME NEW to \in Reached, Moved(to)
        PROVE  Row'
    <3>1. to \in LC!Status
      BY DEF LC!Status, Reached
    <3>2. status' = to /\ log' \in Seq(LogRow)
      BY <2>2, <3>1, TransitionStep DEF Moved
    <3> QED
      BY <2>2, <3>1, <3>2 DEF Moved, TypeOK
  <2>3. CASE Rescheduled \/ Untouched
    BY <2>3 DEF Rescheduled, Untouched, TypeOK
  <2> QED
    BY <2>1, <2>2, <2>3, RowWriters
<1>2. edit' \in [Tabs -> {NoCopy, [status |-> "DRAFT"]}]
  <2>1. ASSUME NEW t \in Tabs, SellerRequest(t)
        PROVE  edit' \in [Tabs -> {NoCopy, [status |-> "DRAFT"]}]
    BY <2>1 DEF SellerRequest, LoadEdit, SaveEdit, DropEdit, SubmitForReview, TypeOK
  <2>2. ASSUME NEW o \in Officers, OfficerRequest(o)
        PROVE  UNCHANGED edit
    BY <2>2 DEF OfficerRequest, Approve, AutoSchedule, LoseApproval, Reject
  <2>3. Run => UNCHANGED edit
    BY DEF Run, StartNow, Reschedule, Extend, GoLive, Pause, Resume, Cancel, Close, MoveOn
  <2> QED
    BY <2>1, <2>2, <2>3 DEF Next, vars, TypeOK
<1>3. approval' \in [Officers -> {"idle", "half"}]
  <2>1. ASSUME NEW o \in Officers, OfficerRequest(o)
        PROVE  approval' \in [Officers -> {"idle", "half"}]
    BY <2>1 DEF OfficerRequest, Approve, AutoSchedule, LoseApproval, Reject, TypeOK
  <2>2. ASSUME NEW t \in Tabs, SellerRequest(t)
        PROVE  UNCHANGED approval
    BY <2>2 DEF SellerRequest, LoadEdit, SaveEdit, DropEdit, SubmitForReview
  <2>3. Run => UNCHANGED approval
    BY DEF Run, StartNow, Reschedule, Extend, GoLive, Pause, Resume, Cancel, Close, MoveOn
  <2> QED
    BY <2>1, <2>2, <2>3 DEF Next, vars, TypeOK
<1> QED
  BY <1>1, <1>2, <1>3 DEF TypeOK

(***************************************************************************)
(* Type correctness: edits in progress hold copies of a DRAFT listing.     *)
(***************************************************************************)
THEOREM ListingTypeCorrect == Spec => []TypeOK
<1>1. Init => TypeOK
  BY DEF Init, TypeOK, LC!Status
<1> QED
  BY <1>1, TypeStep, PTL DEF Spec

(***************************************************************************)
(* What is reviewed and bid on is what the seller submitted, whatever tabs *)
(* the seller has open and whoever reschedules.                            *)
(***************************************************************************)
THEOREM TermsCorrect == Spec => []TermsAsSubmitted
<1>1. Init => TermsAsSubmitted
  BY DEF Init, TermsAsSubmitted
<1>2. ASSUME TypeOK, TermsAsSubmitted, [Next]_vars
      PROVE  TermsAsSubmitted'
  <2>1. CASE SavedEdit
    BY <2>1 DEF SavedEdit, TermsAsSubmitted
  <2>2. ASSUME NEW to \in Reached, Moved(to)
        PROVE  TermsAsSubmitted'
    <3>1. to \in LC!Status
      BY DEF LC!Status, Reached
    <3>2. status' = to /\ to \in LC!AllowedTransitions[status]
      BY <1>2, <2>2, <3>1, TransitionStep DEF Moved
    <3>3. /\ status = "DRAFT" => to \in {"SUBMITTED", "CANCELLED"}
          /\ to \in {"APPROVED", "REJECTED"} => status = "SUBMITTED"
      BY <1>2, <2>2, <3>2 DEF TypeOK, LC!AllowedTransitions, LC!Status
    <3>4. CASE to = "SUBMITTED"
      BY <2>2, <3>2, <3>4 DEF Moved, TermsAsSubmitted
    <3>5. CASE to # "SUBMITTED"
      BY <1>2, <2>2, <3>2, <3>3, <3>5 DEF Moved, TermsAsSubmitted
    <3> QED
      BY <3>4, <3>5
  <2>3. CASE Rescheduled \/ Untouched
    BY <1>2, <2>3 DEF Rescheduled, Untouched, TermsAsSubmitted
  <2> QED
    BY <1>2, <2>1, <2>2, <2>3, RowWriters
<1> QED
  BY <1>1, <1>2, ListingTypeCorrect, PTL DEF Spec

(***************************************************************************)
(* One decision per submission.  The log's last row explains SUBMITTED and *)
(* APPROVED, although a stale edit may have taken the listing to DRAFT     *)
(* behind the log's back.                                                  *)
(***************************************************************************)
LastRowExplains ==
  status \in {"SUBMITTED", "APPROVED"} => log # <<>> /\ log[Len(log)].to = status

DecisionInv == OneDecision /\ LastRowExplains

(* Every step keeps the decisions in order. *)
LEMMA DecisionStep ==
  ASSUME TypeOK, DecisionInv, [Next]_vars
  PROVE  DecisionInv'
<1> USE DEF DecisionInv
<1>1. CASE SavedEdit
  BY <1>1 DEF SavedEdit, OneDecision, LastRowExplains
<1>2. ASSUME NEW to \in Reached, Moved(to)
      PROVE  DecisionInv'
  <2> DEFINE n == Len(log)
  <2>0. to \in LC!Status
    BY DEF LC!Status, Reached
  <2>1. /\ status' = to /\ to \in LC!AllowedTransitions[status]
        /\ DOMAIN log = 1 .. n /\ n \in Nat
        /\ DOMAIN log' = DOMAIN log \cup {n + 1} /\ Len(log') = n + 1
        /\ log'[n + 1] = [from |-> status, to |-> to]
        /\ \A i \in DOMAIN log : log'[i] = log[i]
    BY <1>2, <2>0, TransitionStep DEF Moved
  <2>2. LastRowExplains'
    BY <2>1 DEF LastRowExplains
  <2>3. /\ status = "SUBMITTED" => n \in DOMAIN log /\ log[n].to = "SUBMITTED"
        /\ to = "SCHEDULED" => n \in DOMAIN log /\ log[n].to = "APPROVED"
    <3>1. to = "SCHEDULED" => status = "APPROVED"
      BY <2>1 DEF TypeOK, LC!AllowedTransitions, LC!Status
    <3>2. log # <<>> => n \in DOMAIN log
      BY <2>1 DEF TypeOK
    <3> QED
      BY <3>1, <3>2 DEF LastRowExplains
  <2> HIDE DEF n
  <2>4. ASSUME NEW i \in DOMAIN log'
        PROVE  /\ log'[i].from = "SUBMITTED" => i > 1 /\ log'[i - 1].to = "SUBMITTED"
               /\ log'[i].to = "SCHEDULED" => i > 1 /\ log'[i - 1].to = "APPROVED"
    <3>1. CASE i = n + 1
      BY <2>1, <2>3, <3>1
    <3>2. CASE i \in DOMAIN log
      <4>1. i > 1 => i - 1 \in DOMAIN log
        BY <2>1, <3>2
      <4> QED
        BY <2>1, <3>2, <4>1 DEF OneDecision
    <3> QED
      BY <2>1, <3>1, <3>2
  <2> QED
    BY <2>2, <2>4 DEF OneDecision
<1>3. CASE Rescheduled \/ Untouched
  BY <1>3 DEF Rescheduled, Untouched, OneDecision, LastRowExplains
<1> QED
  BY <1>1, <1>2, <1>3, RowWriters

(***************************************************************************)
(* Each decision answers a submission of its own, each scheduling an       *)
(* approval of its own, however requests of officers and seller overlap.   *)
(***************************************************************************)
THEOREM DecisionCorrect == Spec => []OneDecision
<1>1. Init => DecisionInv
  BY DEF Init, DecisionInv, OneDecision, LastRowExplains
<1>2. TypeOK /\ DecisionInv /\ [Next]_vars => DecisionInv'
  BY DecisionStep
<1>3. DecisionInv => OneDecision
  BY DEF DecisionInv
<1> QED
  BY <1>1, <1>2, <1>3, ListingTypeCorrect, PTL DEF Spec
=============================================================================
