--------------------------- MODULE AuctionEngine ---------------------------
(***************************************************************************)
(* One auction from the moment it is SCHEDULED until it is CLOSED or       *)
(* CANCELLED: the bidding service, the staff scheduling controls, and the  *)
(* periodic sweeps that start and close auctions.                          *)
(*                                                                         *)
(* Every service function locks the auction row and works on the locked    *)
(* copy, so its database effects appear at one instant; it is one action.  *)
(* Two things do not take that lock and are steps of their own:            *)
(*   - place_bid reads the clock after it has the lock and commits later;  *)
(*     bidTx is the transaction in between, during which time passes and   *)
(*     unlocked readers still see the row as it was;                       *)
(*   - a sweep selects the due auctions with a plain query and acts on     *)
(*     each of them later; activating and closing hold the workers that    *)
(*     have selected this auction and not yet acted on it.                 *)
(*                                                                         *)
(* An operator named X_Slip is X with a plausible slip in it.  It is no    *)
(* part of the specification: put in X's place, it shows that a property   *)
(* notices the slip (PROJECT.json, "mutants").                             *)
(***************************************************************************)
EXTENDS Integers, Sequences

CONSTANTS
  Bidders,        \* users with a bidder profile
  Seller,         \* the seller's user, who may hold a bidder profile too
  NoUser,         \* a null foreign key
  Workers,        \* processes that sweep: cron commands and staff requests
  StartingPrice,
  MinIncrement,
  Reserve,        \* reserve_price, NoAmount when the seller set none
  Window,         \* extension_minutes, 0 disables the extension
  MaxBidAmount,   \* MAX_BID_AMOUNT, exclusive
  MaxTime,        \* bound on the clock
  MaxBids         \* bound on the bids of a behaviour

(* A null amount.  No stored amount is 0: bids have a CHECK constraint,    *)
(* prices are validated as positive.                                       *)
NoAmount == 0

ASSUME UserAssumption == NoUser \notin Bidders \cup {Seller}
ASSUME TermsAssumption ==
  /\ StartingPrice \in Nat \ {0}
  /\ MinIncrement \in Nat \ {0}
  /\ Reserve \in Nat /\ (Reserve # NoAmount => Reserve >= StartingPrice)
  /\ Window \in Nat
  /\ MaxBidAmount \in Nat
ASSUME BoundAssumption == MaxTime \in Nat /\ MaxBids \in Nat

VARIABLES
  now,             \* timezone.now() on the servers
  status,          \* the auction row, column by column
  startTime,
  endTime,
  currentHighest,
  winner,
  finalPrice,
  amountDue,       \* amount of the auction's Payment row, NoAmount: no row
  bids,            \* the Bid rows in sequence_no order
  eligible,        \* bidders whose profile is_eligible_to_bid
  notified,        \* per bidder, sequence_no of the bid that last outbid them
  bidTx,           \* the place_bid transaction that holds the row lock
  activating,      \* workers holding this auction from the SCHEDULED query
  closing          \* workers holding this auction from the LIVE query

row    == <<status, startTime, endTime, currentHighest>>
sale   == <<winner, finalPrice, amountDue>>
sweeps == <<activating, closing>>
vars   == <<now, row, sale, bids, eligible, notified, bidTx, sweeps>>

Time    == 0 .. MaxTime
Amounts == 0 .. MaxBidAmount

LC == INSTANCE Lifecycle

----------------------------------------------------------------------------
(***************************************************************************)
(* Queries on the Bid rows.                                                *)
(***************************************************************************)
Accepted(bs) == {i \in DOMAIN bs : bs[i].status = "ACCEPTED"}

(* order_by("-amount", "sequence_no").first() among the bids in S *)
IsFirst(bs, S, i) ==
  /\ i \in S
  /\ \A j \in S : \/ bs[j].amount < bs[i].amount
                  \/ bs[j].amount = bs[i].amount /\ i <= j

Best_Slip(bs) == CHOOSE i \in Accepted(bs) : \A j \in Accepted(bs) : i <= j

Best(bs) == CHOOSE i \in Accepted(bs) : IsFirst(bs, Accepted(bs), i)

BestAmount(bs) ==
  IF Accepted(bs) = {} THEN NoAmount ELSE bs[Best(bs)].amount

(* order_by("-amount", "-sequence_no").first() of the other accepted bids  *)
(* is whom notify_outbid tells.                                            *)
IsPrevious_Slip(bs, i) == i = Len(bs) /\ i \in Accepted(bs)

IsPrevious(bs, i) ==
  /\ i \in Accepted(bs)
  /\ \A j \in Accepted(bs) : \/ bs[j].amount < bs[i].amount
                             \/ bs[j].amount = bs[i].amount /\ j <= i

----------------------------------------------------------------------------
NoTx == [bidder |-> NoUser, amount |-> NoAmount, at |-> 0]

(* select_for_update() returns: no other transaction holds the row. *)
RowFree_Slip == TRUE

RowFree == bidTx = NoTx

Init ==
  /\ now = 0
  /\ status = "SCHEDULED"
  /\ startTime \in Time /\ endTime \in Time /\ startTime < endTime
  /\ currentHighest = NoAmount
  /\ winner = NoUser /\ finalPrice = NoAmount /\ amountDue = NoAmount
  /\ bids = <<>>
  /\ eligible = Bidders
  /\ notified = [b \in Bidders |-> 0]
  /\ bidTx = NoTx
  /\ activating = {} /\ closing = {}

Tick == now < MaxTime /\ now' = now + 1
        /\ UNCHANGED <<row, sale, bids, eligible, notified, bidTx, sweeps>>

----------------------------------------------------------------------------
(***************************************************************************)
(* place_bid.  BeginBid takes the lock, reads the clock and runs every     *)
(* check; a bid that fails one changes nothing and is no step.             *)
(***************************************************************************)
MinimumPermitted_Slip == currentHighest

MinimumPermitted ==
  IF currentHighest # NoAmount THEN currentHighest + MinIncrement
                               ELSE StartingPrice

OpenForBidding == status = "LIVE" /\ startTime <= now /\ now < endTime

(* Verified, active and not suspended, as the profile says at this moment. *)
IsEligible(b) == b \in eligible

BeginBid(b, amount) ==
  /\ RowFree
  /\ Len(bids) < MaxBids
  /\ amount < MaxBidAmount
  /\ OpenForBidding
  /\ IsEligible(b)
  /\ b # Seller
  /\ amount >= MinimumPermitted
  /\ bidTx' = [bidder |-> b, amount |-> amount, at |-> now]
  /\ UNCHANGED <<now, row, sale, bids, eligible, notified, sweeps>>

(* The anti-sniping extension, with the clock place_bid read. *)
ExtendedEnd_Slip == bidTx.at + Window

ExtendedEnd ==
  IF Window > 0 /\ endTime - bidTx.at <= Window THEN bidTx.at + Window
                                                ELSE endTime

(* notify_outbid: the best other accepted bid, unless it is the bidder's own. *)
NotifyOutbid(seq) ==
  notified' = [b \in Bidders |->
                 IF b # bidTx.bidder /\ \E i \in Accepted(bids) :
                      IsPrevious(bids, i) /\ bids[i].bidder = b
                 THEN seq ELSE notified[b]]

CommitBid ==
  /\ bidTx # NoTx
  /\ bids' = Append(bids, [bidder |-> bidTx.bidder, amount |-> bidTx.amount,
                           status |-> "ACCEPTED"])
  /\ currentHighest' = bidTx.amount
  /\ endTime' = ExtendedEnd
  /\ NotifyOutbid(Len(bids) + 1)
  /\ bidTx' = NoTx
  /\ UNCHANGED <<now, status, startTime, sale, eligible, sweeps>>

(* The notification broker is down or the process dies: all is rolled back. *)
AbortBid ==
  /\ bidTx # NoTx
  /\ bidTx' = NoTx
  /\ UNCHANGED <<now, row, sale, bids, eligible, notified, sweeps>>

(***************************************************************************)
(* invalidate_bid looks at neither the auction's nor the bid's status.     *)
(***************************************************************************)
InvalidateBid(i) ==
  /\ RowFree
  /\ bids' = [bids EXCEPT ![i].status = "INVALIDATED"]
  /\ currentHighest' = BestAmount(bids')
  /\ UNCHANGED <<now, status, startTime, endTime, sale, eligible, notified,
                 bidTx, sweeps>>

(***************************************************************************)
(* suspend_bidder, reactivate_bidder: they do not touch the auction row.   *)
(***************************************************************************)
SetEligible(b) ==
  /\ eligible' \in {eligible \cup {b}, eligible \ {b}}
  /\ UNCHANGED <<now, row, sale, bids, notified, bidTx, sweeps>>

----------------------------------------------------------------------------
(***************************************************************************)
(* close_auction rechecks that the auction is LIVE, not that it is over.   *)
(* create_pending_payment is part of the same transaction.                 *)
(***************************************************************************)
ReserveMet_Slip == Accepted(bids) # {}

ReserveMet ==
  /\ Accepted(bids) # {}
  /\ Reserve = NoAmount \/ BestAmount(bids) >= Reserve

CloseAuction ==
  /\ RowFree
  /\ status = "LIVE"
  /\ status' = "CLOSED"
  /\ winner' = IF ReserveMet THEN bids[Best(bids)].bidder ELSE NoUser
  /\ finalPrice' = IF ReserveMet THEN BestAmount(bids) ELSE NoAmount
  /\ amountDue' = IF amountDue # NoAmount THEN amountDue ELSE finalPrice'
  /\ UNCHANGED <<now, startTime, endTime, currentHighest, bids, eligible,
                 notified, bidTx>>

(* transition(): the row lock and the table. *)
Transition_Slip(to) == RowFree /\ status' = to

Transition(to) == RowFree /\ LC!CanMove(status, to) /\ status' = to

(***************************************************************************)
(* The sweeps: activate_scheduled_auctions, close_ended_auctions and       *)
(* sweep_due, which runs the first and then the second.                    *)
(***************************************************************************)
SelectScheduled(w) ==
  /\ w \notin activating
  /\ status = "SCHEDULED" /\ startTime <= now
  /\ activating' = activating \cup {w}
  /\ UNCHANGED <<now, row, sale, bids, eligible, notified, bidTx, closing>>

(* activate_if_due tests the object the query returned, so its own test    *)
(* always passes; only the table stands between it and LIVE.               *)
ActivateSelected(w) ==
  /\ w \in activating
  /\ RowFree
  /\ activating' = activating \ {w}
  /\ \/ Transition("LIVE")
     \/ ~LC!CanMove(status, "LIVE") /\ UNCHANGED status
  /\ UNCHANGED <<now, startTime, endTime, currentHighest, sale, bids, eligible,
                 notified, bidTx, closing>>

SelectEnded(w) ==
  /\ w \notin closing
  /\ status = "LIVE" /\ endTime <= now
  /\ closing' = closing \cup {w}
  /\ UNCHANGED <<now, row, sale, bids, eligible, notified, bidTx, activating>>

CloseSelected(w) ==
  /\ w \in closing
  /\ RowFree
  /\ closing' = closing \ {w}
  /\ \/ CloseAuction
     \/ status # "LIVE"
        /\ UNCHANGED <<now, row, sale, bids, eligible, notified, bidTx>>
  /\ UNCHANGED activating

----------------------------------------------------------------------------
(***************************************************************************)
(* The staff controls of apps/auctions/scheduling.py.                      *)
(***************************************************************************)
StartNow ==
  /\ status = "SCHEDULED"
  /\ endTime > now
  /\ Transition("LIVE")
  /\ startTime' = IF startTime > now THEN now ELSE startTime
  /\ UNCHANGED <<now, endTime, currentHighest, sale, bids, eligible, notified,
                 bidTx, sweeps>>

Pause ==
  /\ Transition("PAUSED")
  /\ UNCHANGED <<now, startTime, endTime, currentHighest, sale, bids, eligible,
                 notified, bidTx, sweeps>>

Resume ==
  /\ status = "PAUSED"
  /\ endTime > now
  /\ Transition("LIVE")
  /\ UNCHANGED <<now, startTime, endTime, currentHighest, sale, bids, eligible,
                 notified, bidTx, sweeps>>

CancelAuction ==
  /\ status \in {"SCHEDULED", "LIVE", "PAUSED"}
  /\ Transition("CANCELLED")
  /\ UNCHANGED <<now, startTime, endTime, currentHighest, sale, bids, eligible,
                 notified, bidTx, sweeps>>

EndNow == CloseAuction /\ UNCHANGED sweeps

(* A field left empty in the form keeps the row's value. *)
Reschedule(newStart, newEnd, givesStart, givesEnd) ==
  /\ RowFree
  /\ status \in {"SCHEDULED", "LIVE", "PAUSED"}
  /\ givesStart \/ givesEnd
  /\ givesStart => status = "SCHEDULED" /\ newStart > now
  /\ ~givesStart => newStart = startTime
  /\ ~givesEnd => newEnd = endTime
  /\ newStart < newEnd
  /\ newEnd > now
  /\ status = "LIVE" /\ givesEnd => newEnd > endTime
  /\ startTime' = newStart /\ endTime' = newEnd
  /\ UNCHANGED <<now, status, currentHighest, sale, bids, eligible, notified,
                 bidTx, sweeps>>

----------------------------------------------------------------------------
Bidding ==
  \/ \E b \in Bidders, amount \in Amounts : BeginBid(b, amount)
  \/ CommitBid
  \/ AbortBid
  \/ \E i \in DOMAIN bids : InvalidateBid(i)
  \/ \E b \in Bidders : SetEligible(b)

Sweep(w) ==
  SelectScheduled(w) \/ ActivateSelected(w) \/ SelectEnded(w) \/ CloseSelected(w)

(* newStart and newEnd also range over the row's own values, for the       *)
(* fields a request leaves empty.                                          *)
Staff ==
  \/ StartNow \/ Pause \/ Resume \/ CancelAuction \/ EndNow
  \/ \E newStart \in Time, newEnd \in Time \cup {endTime},
        givesStart \in BOOLEAN, givesEnd \in BOOLEAN :
       Reschedule(newStart, newEnd, givesStart, givesEnd)

Next == Tick \/ Bidding \/ (\E w \in Workers : Sweep(w)) \/ Staff

Spec == Init /\ [][Next]_vars

----------------------------------------------------------------------------
(***************************************************************************)
(*                              Properties                                 *)
(***************************************************************************)
BidRow == [bidder : Bidders, amount : 1 .. MaxBidAmount - 1,
           status : {"ACCEPTED", "INVALIDATED"}]

(* Type invariant: the auction row, the Bid rows and the transaction in    *)
(* progress only ever hold values the schema and the services allow.       *)
TypeOK ==
  /\ now \in Time
  /\ status \in LC!Status
  /\ startTime \in Time /\ endTime \in Nat
  /\ currentHighest \in Amounts /\ finalPrice \in Amounts /\ amountDue \in Amounts
  /\ winner \in Bidders \cup {NoUser}
  /\ bids \in Seq(BidRow)
  /\ eligible \subseteq Bidders
  /\ notified \in [Bidders -> Nat]
  /\ bidTx \in {NoTx} \cup [bidder : Bidders, amount : 1 .. MaxBidAmount - 1, at : Time]
  /\ activating \subseteq Workers /\ closing \subseteq Workers

(* The denormalised current_highest_bid of the auction row is the amount   *)
(* of the best accepted bid, whatever bids and invalidations came before,  *)
(* and null exactly when no accepted bid is left (place_bid trusts it for  *)
(* the minimum permitted amount).                                          *)
HighestIsBest ==
  /\ currentHighest = NoAmount <=> Accepted(bids) = {}
  /\ \A i \in Accepted(bids) : bids[i].amount <= currentHighest
  /\ currentHighest # NoAmount =>
       \E i \in Accepted(bids) : bids[i].amount = currentHighest

(* BR-10 and the increment rule: the accepted bids, in sequence order,     *)
(* start at the starting price and each clears every earlier one by the    *)
(* increment, even after bids in the middle were invalidated; two accepted *)
(* bids never tie.                                                         *)
BidLadder ==
  /\ \A i \in Accepted(bids) : bids[i].amount >= StartingPrice
  /\ \A i, j \in Accepted(bids) :
       i < j => bids[j].amount >= bids[i].amount + MinIncrement

(* A sale is whole: winner, final price and payment come together, at the  *)
(* amount of a bid the winner placed, at or above the reserve, and only on *)
(* a closed auction.                                                       *)
SaleIsWhole ==
  /\ winner = NoUser <=> finalPrice = NoAmount
  /\ amountDue = finalPrice
  /\ winner # NoUser =>
       /\ status = "CLOSED"
       /\ winner # Seller
       /\ finalPrice >= Reserve
       /\ \E i \in DOMAIN bids : bids[i].bidder = winner /\ bids[i].amount = finalPrice

(* The inductive form of the bidding rules: an accepted bid's transaction  *)
(* in progress was checked against the row it will be committed to, which  *)
(* the lock keeps as it was.                                               *)
TxStillValid ==
  bidTx # NoTx =>
    /\ status = "LIVE"
    /\ bidTx.bidder # Seller
    /\ bidTx.amount >= MinimumPermitted
    /\ Len(bids) < MaxBids
    /\ startTime <= bidTx.at /\ bidTx.at < endTime /\ bidTx.at <= now

(* Who leads, by the rows and not by what the auction row caches. *)
Leader(bs) == IF Accepted(bs) = {} THEN NoUser ELSE bs[Best(bs)].bidder

(* Exactly the bidder who loses the lead to a bid is told, at that bid:    *)
(* also one who has been told before and only led again because the bids   *)
(* above theirs were invalidated, and nobody who raises their own bid.     *)
OvertakenAreTold ==
  [][\A b \in Bidders :
       notified'[b] # notified[b] <=>
         Len(bids') > Len(bids) /\ Leader(bids) = b /\ Leader(bids') # b]_vars

(* A bid is recorded only in a LIVE auction: not after a close, a pause or *)
(* a cancellation that came between place_bid's checks and its commit.     *)
BidsLandWhileLive == [][bids' # bids /\ Len(bids') > Len(bids) =>
                          status = "LIVE" /\ status' = "LIVE"]_vars

(* While an auction stays LIVE its end only moves later, whoever moves it  *)
(* ("a live auction can only be extended, not shortened"), bids included.  *)
LiveEndOnlyMovesLater ==
  [][status = "LIVE" /\ status' = "LIVE" => endTime' >= endTime]_vars

(* The outcome of a finished auction is final: a second sweep, a late      *)
(* EndNow or an invalidation never changes the winner, price or payment.   *)
OutcomeIsFinal ==
  [][(status \in {"CLOSED", "CANCELLED"})
        => UNCHANGED <<status, winner, finalPrice, amountDue>>]_vars

(* Every change of status follows ALLOWED_TRANSITIONS, for the staff       *)
(* controls, the sweeps and the stale objects they act on.                 *)
FollowsLifecycle == LC!Steps

(* The engine implements the ascending auction: its accepted bids are the  *)
(* standing offers, its row lock and cached maximum are invisible.         *)
Abstract == INSTANCE AscendingAuction WITH
  phase  <- CASE status \in {"SCHEDULED", "PAUSED"} -> "waiting"
              [] status = "LIVE" -> "open"
              [] status = "CANCELLED" -> "void"
              [] OTHER -> IF winner = NoUser THEN "unsold" ELSE "sold",
  offers <- {[bidder |-> bids[i].bidder, amount |-> bids[i].amount] :
               i \in Accepted(bids)},
  buyer  <- winner,
  price  <- finalPrice

RefinesAscendingAuction == Abstract!Spec

(* Sweeper shows one auction by its status, by where the clock stands in   *)
(* its schedule and by who holds it; a worker is two of its processes.     *)
OnlyAuction == 1
Roles == {"starting", "closing"}

Phase == IF now < startTime THEN "before"
         ELSE IF now < endTime THEN "during" ELSE "after"

Selected(w, r) == w \in (IF r = "starting" THEN activating ELSE closing)

Sweeping == INSTANCE Sweeper WITH
  NumAuctions <- OnlyAuction,
  Starters <- Workers \X {"starting"},
  Closers  <- Workers \X {"closing"},
  Requests <- {}, MaxStaff <- 0, MaxFaults <- 0,
  status  <- [a \in {OnlyAuction} |-> status],
  clock   <- [a \in {OnlyAuction} |-> Phase],
  bidding <- IF bidTx = NoTx THEN {} ELSE {OnlyAuction},
  run     <- [p \in Workers \X Roles |->
                IF Selected(p[1], p[2])
                THEN [step |-> p[2], todo |-> {OnlyAuction}]
                ELSE [step |-> "idle", todo |-> {}]],
  staff <- 0, faults <- 0

(* The engine implements what Sweeper says of an auction: extensions,      *)
(* reschedules and clocks read at different moments never move it or its   *)
(* place in the schedule otherwise than there, and so what Sweeper shows   *)
(* of many auctions stands for engines.                                    *)
RefinesSweeper == Sweeping!UncountedSpec

(* Docs: a sweep "closes LIVE auctions whose end_time has passed".         *)
SweepClosesOnlyEnded ==
  [][status = "LIVE" /\ status' = "CLOSED" /\ closing' # closing =>
       endTime <= now]_vars

(* Docs: a sweep moves "SCHEDULED -> LIVE once start_time has passed"; a   *)
(* paused auction is for staff to resume.                                  *)
SweepActivatesOnlyDue ==
  [][status # "LIVE" /\ status' = "LIVE" /\ activating' # activating =>
       status = "SCHEDULED" /\ startTime <= now]_vars
=============================================================================
