# Mbarara Auction: a TLA+ model and its proofs

This directory specifies the part of the auction platform where money and
fairness are decided: how a listing is reviewed, how it is bid on, started,
paused, extended and closed, how its payment and its disputes end, what the
reports say of that, who may take part, and what people are told. The
specifications are checked by TLC on small instances, and their safety
properties are proved by TLAPS for all values of the constants.

Paths below are relative to `src/apps/`.

## 1. The system

A Django application on one PostgreSQL database. Web requests, two management
commands run by cron every minute, and a Celery worker are separate processes;
they meet only in the database. Concurrency control is `select_for_update` on a
row inside a transaction, at the database's default isolation (READ COMMITTED),
where it is used at all. The repository says of it: "row-locking behaviour
(`select_for_update`) is untested under real concurrency"
(`../DELIVERY_NOTES.md`). That sentence is the reason for this project.

| Component | State | Operations | What makes it correct |
|---|---|---|---|
| Lifecycle (`auctions/models.py`, `auctions/services.py`) | `Auction.status`, `AuctionStatusLog` | `transition` under the row lock | every change of status is in `ALLOWED_TRANSITIONS`, and logged |
| Listings and review (`listings/`) | the auction row while DRAFT or SUBMITTED | create, edit, submit; approve, reject | what is approved is what was submitted; one decision per submission |
| Bidding (`bidding/services.py`) | `Bid` rows, `current_highest_bid`, `end_time`, `winner`, `final_price` | `place_bid`, `invalidate_bid`, `close_auction`, `get_bid_history` | the cached maximum is right, bids climb by the increment, a bid counts only while the auction is live, the best bid wins |
| Staff controls (`auctions/scheduling.py`) | the schedule and the status | start, reschedule, pause, resume, cancel, end, sweep | a live end only moves later; an outcome is final |
| Sweeps (two management commands and `sweep_due`) | none: a query, then one call per auction | activate due, close overdue | due auctions start, overdue ones close, no others |
| Payments (`payments/services.py`) | one `Payment` per sale | create, mark paid, failed, refunded | one payment per sale, moving forward; SETTLED means paid |
| Disputes (`disputes/services.py`) | `Dispute` rows | open, take for review, resolve | at most one active; the auction returns to where it belongs |
| Notifications (`notifications/`) | rows, and a Celery queue | `notify`, mark read, deliver | whoever is outbid is told; all the people an event concerns are told or none; only committed rows are delivered |
| Accounts (`accounts/`) | users, roles, profiles | sign up, change role, verify, reject, suspend, reactivate | only eligible bidders bid; decisions do not undo each other; whoever was told finds the decision in the log |
| Reports (`reports/`) | none | aggregates, CSV | the figures of one page agree with each other |
| Audit (`audit/`) | append-only rows | `record` | complete |

How they interact: a service function calls `transition`, writes audit rows and
calls `notify`, all inside its own transaction when it has one. `close_auction`
creates the payment. `mark_paid` settles the auction. `resolve_dispute` refunds
the payment and returns the auction. The sweeps call the bidding service.
Suspension changes the row that `place_bid` reads, without the auction's lock.

### What is hard in it

* **A query, then an action.** A sweep selects auctions with a plain query and
  acts on each later. What it does then is decided partly by the locked row and
  partly by the object the query returned.
* **Checks on unlocked objects.** The payment services test the `Payment` the
  view loaded. The listing editor saves every column of an object it loaded.
* **A clock inside a lock.** `place_bid` reads the clock once, when it has the
  lock; it commits later, and moves the end by what it read.
* **A cached maximum** that bids and invalidations keep up to date by two
  different rules.
* **One operation in two transactions.** `approve` can stop half way.
* **A loop that may stop.** The commands act on one auction after another, and
  the first exception ends the run; `sweep_due` passes over it.
* **A message sent inside a transaction.** `notify` queues the delivery task
  before the row it is about is committed, once per recipient.
* **No transaction at all.** Signing up and deciding about an account are
  several commits each; a page of the report is a dozen queries.
* **Several rows.** A payment, a dispute and the auction are locked at
  different moments of one operation, if at all.

`PROJECT.json` lists each of these at its line under "hazards", with the
properties that watch it.

## 2. The modules

| Module | Models | Checked by |
|---|---|---|
| `Lifecycle` | `Auction.Status`, `ALLOWED_TRANSITIONS`: the most abstract view of an auction | instantiated by the four below that move an auction |
| `AscendingAuction` | what bidding promises: standing offers, a hammer that falls once. No clock, lock, cache or sweep | refined by `AuctionEngine` |
| `AuctionEngine` | one auction from SCHEDULED to CLOSED or CANCELLED: bidding, staff controls, sweeps | `MCAuctionEngine` |
| `BidHistory` | what a page shows of the engine's bids, and under which label | `MCAuctionEngine` |
| `Sweeper` | many auctions, and the runs that start and close them | `MCSweeper`; refined by `AuctionEngine`, one auction at a time |
| `Sale` | what settlement promises: money that takes one way, and what disputes do to it. No rows, locks or requests in it | refined by `Settlement` |
| `Settlement` | one auction from its close on: payment and disputes | `MCReports` |
| `Reports` | a page of figures compiled while the settlement goes on; extends `Settlement` | `MCReports` |
| `Listing` | one listing from DRAFT on, until its auction is closed or cancelled | `MCListing` |
| `Bulletin` | what the notifications promise: a board where news go up for everybody at once, and once. No rows, transactions, tasks or brokers | refined by `Notifications` |
| `Notifications` | what services announce: rows, tasks, worker and inbox | `MCAccounts` |
| `Accounts` | sign-up, roles, profiles and officers' decisions, composed with `Notifications` | `MCAccounts` |
| `AuctionEngineProofs`, `AuctionEngineRefinement`, `BidHistoryProofs`, `SweeperProofs`, `SettlementProofs`, `ReportsProofs`, `ListingProofs`, `AccountsProofs` | the theorems | TLAPS |

An operator named `X_Slip` is `X` with a plausible slip in it: a dropped guard,
a wrong comparison, a missing lock. It is no part of a specification. Put in the
place of `X` it makes the property named beside it in `PROJECT.json` ("mutants")
fail, which shows that the property watches that code.

### AuctionEngine

The variables are the columns of the auction row, the `Bid` rows in
`sequence_no` order, the amount of the payment created at the close, the
eligible bidders, and per bidder the sequence number of the bid that last made
`notify_outbid` tell them. Three variables are processes:

* `bidTx` is the transaction of `place_bid` between its checks (`BeginBid`) and
  its commit (`CommitBid`, or `AbortBid` when queueing the notification fails).
  It holds the row lock. The clock runs and unlocked readers read meanwhile.
* `activating` and `closing` are the workers that have selected this auction
  with the SCHEDULED or the LIVE query and have not acted on it yet.

Every other service function holds the row lock from its first read to its
commit and is one action. It needs the row to be free, and its guards are the
function's checks: a request that is refused changes nothing and is no step.
The rows such a function reads without a lock are the profile in `place_bid`
(`eligible` changes at any time) and the bids, which only holders of the auction
lock write. One sweep action is worth a second look: `activate_if_due` tests the
object its caller's query returned, so the test always passes, and
`ActivateSelected` has no guard on the clock or the status but the table's.

An amount is a natural number, in the smallest unit the two decimals allow.
Zero is null, which no stored amount can be (a CHECK constraint on bids,
`Auction.clean` for prices). `reserve_met` is left out: it is a function of
`winner` and the bids at the close. Time is a bounded counter; only the order
of the clock, the start and the end matters.

### BidHistory

`get_bid_history` is a function of the `Bid` rows and the viewer, so the module
adds operators and no state to the engine. Labels are not stored: each page walks
the rows in `sequence_no` order and hands out letters. The loop's dictionary
becomes `Letter`, the number of bidders seen before a bidder's first bid. That
two pages agree is therefore a property of the algorithm and of how bids change.

### Sweeper

The engine has one auction in all its detail; the sweeper has many in little:
status, where the clock is in the schedule (before, during or after it), and
whether a bid holds the row. `run[p]` is what a process still has of the result
of its query. `BeginStarting` and `BeginClosing` are the queries, `StartNext` and
`CloseNext` one turn of the loop, newest auction first, as the model's ordering
has it. What a turn leaves when the auction has been moved by somebody else is
`LeftAfterError`: nothing for the two commands, whose run the exception ends, the
rest for `sweep_due`, which passes over it. `GoOnClosing` is the second query of
`sweep_due`, made with the clock of the first. A process may be killed at any
point (`Die`). A command that finds nothing is no step. An auction may begin
anywhere in its schedule, as one does whose approval came after its start.

The two views fit together: `RefinesSweeper` says that an engine, its clock seen
from the schedule and its workers seen as runs over that one auction, is an
auction of the sweeper (`UncountedSpec`: interventions of staff are not counted
there, and no run needs to be killed).

### Settlement

`request[w]` is what the request that web worker `w` is busy with is in the
middle of: a payment loaded by the view, a `mark_paid` that has written the
payment row and not committed, or a `resolve_dispute` that holds its dispute row.
Two requests that overlap are on two workers, whoever sent them: two officers, or
one officer who submits a form twice. `mark_failed` is a single UPDATE outside
any transaction: it waits for the row and overwrites it. `open_dispute` and
`take_for_review` are one action each. The auction row is locked only within one
step, so those locks need no variable.

Nothing in the code keeps two requests about one payment apart. Each tests the
object it loaded, so two that overlap may record one payment twice, with two
audit rows, or overwrite each other. The constant `Recorders` is the set of
workers that get requests to record payments, so that what holds when payments
are recorded one request at a time can be stated with that condition
(`OneAtATime`); `lost_update` shows what happens otherwise. The disputes, the
lifecycle and two of the three properties of a report need no condition.

`Sale` says what this amounts to: money is due, paid, given up and returned, a
dispute suspends, and only a refund takes a settled sale away. A sale counts as
settled also while a dispute is going on that was raised when it was SETTLED.
A payment has to settle a sale that nobody ever disputed; after a dispute it may
settle it or not, which is what `paid_in_dispute` is about.

The module starts with a LIVE auction, so that a report can be compiled across
the close; `CloseAuction` leaves to the engine whether there is a winner.

### Reports

`build_summary` is one query after another. `page` holds the figures read so far,
`query` the next one; between two of them the settlement may take any step. With
one auction a figure is 0 or 1, and an inequality between figures of one auction
is one between the sums over many, because every figure is a sum over auctions
or payments and each auction contributes to it by itself.

### Listing

The columns of the seller's form are in two variables, because different people
write them later: `terms` are prices and texts, `schedule` the start and the end.
`edit[t]` is the copy of the row that the edit request in tab `t` works on;
`SaveEdit` writes its `status` back along with new terms and times. `approve` is
two actions, with `LoseApproval` between them. Once a listing is scheduled its
auction runs (`Run`): sweeps and staff start it, staff reschedule, pause, resume
and cancel it, bids near the end extend it, and it is closed. Which of these
write the schedule matters here; when they may is the engine's business.
`submitted` remembers terms and schedule at the last submission, for the property
only.

### Notifications and Accounts

An announcement is one use of a `notify_` wrapper: an event, the people it is
for, those told so far, and whether its caller is still at work, committed or
rolled back. `Notify` writes the row of one recipient and queues its task at once,
as the code does; `Visible` says whether other connections see the row, which
they do not while the announcement's transaction is open. The services announce
inside a transaction except for the account services and `mark_failed`
(`InTransaction`). `BrokerDown` is `.delay` raising after the row was written: it
takes the transaction with it, or leaves a row without a task where there is
none. `Deliver` finds the row or, run before the commit, gives up for good (the
task returns, so its `max_retries` never come into play), `LoseTask` is a worker
that dies with a task. That a committed notice is delivered in the end is
therefore no property of this code.
`OpenNotice`, `MarkRead` and `MarkAllRead` are the inbox.

`Bulletin` is what a reader may believe of all this. A pair of an announcement
and a person is posted when its row is visible, so a commit posts all rows of an
announcement in one step (`Put`), and a row without a transaction, which has one
recipient, is posted as it is written. A rolled-back row is never posted.

In `Accounts` nothing has a transaction. `SignUp` inserts the user and
`CreateProfile` is the signal that inserts the profile after it. `desk[o]` is an
officer's decision: loaded, saved, audited, then told through the outbox. `seen`
is the row the request loaded; that a save writes only its own column of it is
`SavedRow`. `Tell` hands the notice to the outbox and frees the desk, so an
officer may begin another request while the notice is being written, as officers
may with two tabs.

## 3. What is checked

| Run | Question | Bounds |
|---|---|---|
| `bidding` | do the cached maximum, the ladder, the outbid notices, the sale and the labels of the bid history survive bids and invalidations in any order, and is the engine an ascending auction? | two bidders and a seller with a bidder profile, amounts to 3, increment 2, reserve 2, three bids, one tick |
| `timing` | what may happen between a check and its commit, a query and its action, and is the engine an auction of `Sweeper`? | one bidder, the seller, two workers, four clock values, window 2, two bids |
| `sweeps` | does every due auction start and every overdue one close, whatever ends the runs, and does the staff sweep leave none of its auctions behind? | two auctions, one process per command, one staff sweep, two interventions of staff, one run killed |
| `one_at_a_time` | are payment, auction and disputes consistent, do they implement a `Sale`, and do the figures of a page of the report agree? | payments recorded one request at a time, two workers that resolve disputes, a participant and a stranger, four disputes in a row |
| `review` | is what was approved what was submitted, and is what is bid on? | two tabs, two officers, two terms, two schedules, eight log rows |
| `accounts` | do decisions, audit rows and notices agree, whatever fails, and is the outbox a `Bulletin`? | one person with two profiles, two officers, two decisions, one announcement at a time: a decision's or a dispute's, to two people |
| `early_close`, `stale_activation`, `lost_update`, `paid_in_dispute`, `stale_edit`, `role_profile` | six statements of the repository's own comments, which the code does not keep | as above, smaller |

**Why the bounds are enough.** Three bids let the lead change hands, be struck,
be regained and change hands again, which is the shortest way to upset the
cached maximum, and two overtakings of the same bidder with a strike between
them are the shortest way to miss an outbid notice. Amounts up to 3 with increment 2 leave room
for exactly one raise, a struck bid and the same raise again. Four clock values
leave room for an end before, inside and after the extension window of 2, and
for a reschedule after a sweep's query. Two workers are needed for a second
close; no property relates three. Two auctions are the fewest of which one can
keep a run from the other, and two interventions let staff move both.
Four disputes cover every order of settled,
refunded and unrefunded returns. Eight log rows leave room for a rejected
submission and a second one that is approved, scheduled, started, paused and
resumed. Two decisions of two officers are needed for
one to undo the other; announcements do not touch each other's rows, so one at a
time with two recipients shows what can go wrong within it. Bidders (`bidding`),
workers (`timing`) and officers (`accounts`) are interchangeable and used as
symmetry sets; `sweeps`, the run with liveness, uses none. The safety
properties do not depend on any bound: they are proved below.

`Settlement`, `Listing`, `Sweeper` and `Accounts` may really stop (a resolved
auction, a rejected listing, auctions all closed, everything decided and told), so
deadlock is not checked there. The engine never stops: eligibility can always
change.

**Fairness** (`FairSpec` of `Sweeper`). The commands document that cron runs them
every minute, so a command that is idle and has something to do eventually begins
a run. A turn of its loop needs the row of the auction at hand, which bids take
again and again; that a waiting run gets it in the end is strong fairness, and is
what the database's queue for a row lock provides. A bid that has begun ends. No
bidder or officer owes an action, the staff's sweep is not owed, and the clock
owes nothing either: both properties are about an auction that is due already.
Kills and interventions are bounded, as a command killed every minute starts
nothing. With them, a run that ends early on one auction still leaves the rest
to the next: the auction it stumbled over is no longer in the next query, and
that is why the missing handler delays auctions and does not strand them.

### What the failing runs show

* `early_close`: `close_auction` rechecks LIVE, not `end_time`. A bid inside the
  anti-sniping window commits between a sweep's query and its close, moves the
  end later, and the auction closes at once. The bid that paid for the extension
  may win because nobody could answer it.
* `stale_activation`: an auction rescheduled to a later start after the query
  goes LIVE with the new schedule. An auction started by hand and paused after
  the query is resumed without staff.
* `lost_update`: two requests load the same pending payment; one records it
  paid, the other failed. The second write wins and the auction stays SETTLED.
* `paid_in_dispute`: a payment recorded while the auction is DISPUTED does not
  settle it, resolving the dispute returns it to CLOSED, and as the payment is no
  longer pending nothing settles it later.
* `stale_edit`: the seller saves the draft in one tab while submitting it in
  another. The save writes `status = DRAFT` over SUBMITTED (or APPROVED, or
  SCHEDULED), past the state machine and its log. The passing run shows the
  consolation: nothing in the form changes while the listing is under review or
  approved, and prices and texts not after that either, because the status goes
  back with them.
* `role_profile`: a registration that dies between inserting the user and the
  signal's insert, or an admin who turns a bidder into a seller, leaves somebody
  whose role has no profile. The signal's `get_or_create` is described as ready
  for a role that changes, but the signal returns before it unless the user is
  new.

## 4. What is proved

Thirty-seven theorems, for any sets of users, workers, auctions, tabs and
officers, any prices, window and bounds, from the named assumptions in the modules:
`UserAssumption` (the null user is no user), `TermsAssumption` (prices and the
increment are positive and the reserve is at least the starting price, as
`Auction.clean` and `AuctionForm.clean` demand), `BoundAssumption`,
`FiniteAssumption` (there are finitely many bidders), `SettlementAssumption`,
`ListingAssumption`, `SweeperAssumption`, `NotificationsAssumption` and
`AccountsAssumption`. TLC evaluates them in every run.

**AuctionEngine.** `TypeOK` is inductive by itself. The bidding rules are not
inductive one by one: that the next bid keeps the ladder needs the cached
maximum to be right, and that the bid about to commit is above the maximum needs
the checks made at `BeginBid` to still hold. `BiddingInv` joins the three
(`HighestIsBest`, `BidLadder`, `TxStillValid`) and is inductive together with
`TypeOK`; the lemma behind it is that a bid in progress excludes every other
writer of the row. `OvertakenAreTold` is about one step, the commit of a bid,
in a state that satisfies `BiddingInv`: the new bid leads, being above the cached
maximum (`CommitLeads`); on a ladder the best of the other bids by amount, which
is whom `notify_outbid` finds, is whoever led before it (`PreviousLeads`), also
when that bidder had lost the lead before and regained it by a strike; and the
notice is a new one, because notices name bids there are (`NoticesNameBids`).
`SaleIsWhole` is
strengthened by "no sale before the close" (`SaleInv`). The action properties
follow from one action at a time.

**Refinement.** `RefinementCorrect` maps LIVE to open, SCHEDULED and PAUSED to
waiting, the accepted bids to the standing offers. `CommitBid` is `MakeOffer`
(by `TxStillValid` and `HighestIsBest`), `InvalidateBid` is `StrikeOffer` (bids
on a ladder are distinct as offers), `CloseAuction` is `Sell` or `FailToSell`,
status changes are `SetPhase`, and all else stutters.

**The engine in the sweeper.** `SweeperRefinement` relates the two models of an
auction. A bid in progress is the locked row, a worker that has selected the
auction is a run with it as its whole result. `CommitBid` is `EndBid`: under the
lock the end can only have moved from the past to the future, because the clock
it read is not later than now. The one new fact this needs is that an auction
starts before it ends (`ScheduleOrder`): without it an auction could be after its
end and before its start, which the sweeper has no place for. In the
code only the listing's form and `reschedule` compare the two; that early starts
and extensions keep the order is `ScheduleCorrect`. A stale sweep that finds the auction moved is a turn that
raised.

**Bid history.** Of two bidders, the one whose first bid came earlier has fewer
bidders before that bid, and a proper subset of them: counting distinguishes the
two because the bidders are finitely many. No step changes the bidder of a row or
takes a row away, so what is counted before a row never changes.

**Sweeper.** `SweepInv` is the type invariant and `BidsKeepAuctionLive`; it is
inductive because every step that moves an auction needs its row (`Moves`) and
goes along the table, whatever result the process works from. From it
`ClicksLeaveNoneBehind`: a turn of `sweep_due` takes one auction off its list, and
either has just moved it or was refused because it can no longer move that way.

**Settlement.** `DisputeInv` (type, one active dispute, a resolution in progress
is about it) is inductive for any workers and any overlap of their requests. The
payment properties need `OneAtATime`, the hypothesis of those theorems that no
two workers record payments, and it is necessary, as the `lost_update` run shows.
`BegunInv`, which needs no hypothesis either, says that there is no payment before
the close and that only a payment there is gets recorded; its steps show that the
payment never goes back to none, nor to pending.
`PaymentInv` adds what the one recording request knows about the payment and what
each active dispute knows about it from the status it recorded. `SaleRefinement`
uses all of them: `CommitPaid` is `Pay`, which settles if nobody ever disputed
the sale (`UndisputedSettles`), a resolution is `Dismiss` or `Refund`, and what a
request holds before its commit, the written payment row included, is a stutter.

**Reports.** A report changes nothing (`ReportReadsOnly`), so the settlement's
theorems hold beside it. What a page can rely on is that things only move one way:
a finished auction stays finished and keeps its payment row, and, with payments
recorded one request at a time, a payment only moves forward. The invariants
behind the three theorems say, for the queries made so far, how far things must
have come. `SalesHavePaymentRows` needs `OneAtATime` through `SettledIsPaid`; the
other two need no condition.

**Accounts.** `AccountsInv` joins the outbox's invariant (whoever was told has a
row and the other way round, a committed announcement has told everybody, only
a transaction has several recipients, what was opened or read is visible) with the desks' (a decision in progress is about a profile there is,
and once audited has its row) and the link between the two, that an announced
decision is in the log. `BulletinRefinement` adds `BoardInv`: nobody has two rows
of one announcement, and a request to mark a row read has loaded one of its
user's. With these a commit posts exactly the people concerned (the rows of an
announcement are those told, and all are), the first visible row without a
transaction is the only one, and a delivered row was not sent before.

**Listing.** `TermsAsSubmitted` follows from the type invariant, which says
every copy in an editor is of a DRAFT, and from the table: whoever writes the
schedule outside the form finds the listing past APPROVED, and no transition leads
from there back to review. `OneDecision` is strengthened by "a listing that is
SUBMITTED or APPROVED has the matching last row in its log".

Only model-checked: the two liveness properties of the sweeps, which rest on
fairness and are out of reach of the prover. Every other property of a passing
run is a theorem. The statements of the failing runs are false of the code, and
those that need payments recorded one at a time are proved under that hypothesis.

## 5. What is not modelled

* The Django admin. Its auction form leaves `status` editable, past
  `transition`. With a form that writes any column by hand no property of the
  services could be stated; the hazard is listed.
  For the same reason the admin's forms for profiles are left out of `Accounts`;
  its role field is in, being the documented way to make officers.
* A deadlock of row locks. The operations with two locks take them in one order:
  `mark_paid` the payment before the auction, `resolve_dispute` the dispute, the
  payment and then the auction, `open_dispute` the auction before a row nobody
  else has yet, `close_auction` the auction before a payment nobody else has
  yet. There is no cycle, so there is nothing to model.
* The engine and the settlement on one auction. Past the close they share
  nothing but the status and the payment row that `close_auction` creates: no
  operation of one writes a column the other's guards read, but for that
  hand-over, which both have (`CloseAuction`). Striking a bid after the close is in
  the engine, and `OutcomeIsFinal` says that it leaves the outcome alone.
* Of the reports, date ranges and the files: a sale and its payment may lie on
  different sides of a date. Of the accounts, logging in, passwords and `is_active`.
* SETTLED to COMPLETED, which no code performs; images, wording, pages, settings
  and start scripts.

## 6. Plan

Done, in this order: `Lifecycle`, `AuctionEngine` with its abstraction
`AscendingAuction`, `BidHistory`, `Settlement`, `Listing`; then `Sweeper` with
liveness for several auctions, `Reports` beside a running settlement,
`Notifications` and `Accounts`; each with its runs and proofs. Then the
abstractions `Sale` and `Bulletin` and their refinement, and the refinement that
ties `AuctionEngine` to `Sweeper`.

What could follow:

1. The audit log as one module, with the claim that every change of status has
   its row in the same transaction, over all the services at once.
2. Reports with dates, for which a page needs auctions and payments on both
   sides of a bound.
3. An abstract specification of `Listing`, small enough to be read by the staff
   who review, and its refinement.
