------------------------ MODULE AuctionEngineProofs ------------------------
(* Theorems about AuctionEngine, for every value of its constants. *)
EXTENDS AuctionEngine, FiniteSetTheorems, TLAPS

(***************************************************************************)
(* Every nonempty set of naturals has a least element.  The argument goes  *)
(* through intervals: a minimal set among the 0 .. x is that of the least. *)
(***************************************************************************)
LEMMA LeastNatural ==
  ASSUME NEW T \in SUBSET Nat, T # {}
  PROVE  \E x \in T : \A y \in T : x <= y
<1> DEFINE R == StrictSubsetOrdering(Nat)
           I == {0 .. x : x \in T}
<1>1. I \subseteq FiniteSubsetsOf(Nat) /\ I # {}
  <2>1. ASSUME NEW x \in T
        PROVE  0 .. x \in FiniteSubsetsOf(Nat)
    <3>1. x \in Nat /\ 0 .. x \in SUBSET Nat
      OBVIOUS
    <3>2. IsFiniteSet(0 .. x)
      BY <3>1, FS_Interval
    <3> QED
      BY <3>1, <3>2 DEF FiniteSubsetsOf
  <2> QED
    BY <2>1
<1>2. \E m \in I : \A k \in I : ~(<<k, m>> \in R)
  <2> HIDE DEF R, I
  <2>1. IsWellFoundedOn(R, FiniteSubsetsOf(Nat))
    BY FS_StrictSubsetOrderingWellFounded DEF R
  <2> QED
    BY <1>1, <2>1, WFMin
<1>3. PICK x \in T : \A y \in T : ~(<<0 .. y, 0 .. x>> \in R)
  BY <1>2
<1>4. ASSUME NEW y \in T, y < x
      PROVE  <<0 .. y, 0 .. x>> \in R
  BY <1>4 DEF StrictSubsetOrdering
<1>5. \A y \in T : y \in Nat /\ x \in Nat /\ ~(y < x)
  BY <1>3, <1>4
<1> QED
  BY <1>5

----------------------------------------------------------------------------
(***************************************************************************)
(* The columns of the Bid rows.                                            *)
(***************************************************************************)
LEMMA RowTypes ==
  ASSUME NEW bs \in Seq(BidRow)
  PROVE  /\ DOMAIN bs = 1 .. Len(bs) /\ Len(bs) \in Nat
         /\ Accepted(bs) \subseteq 1 .. Len(bs)
         /\ \A i \in 1 .. Len(bs) : /\ bs[i].amount \in 1 .. MaxBidAmount - 1
                                    /\ bs[i].bidder \in Bidders
<1>1. /\ DOMAIN bs = 1 .. Len(bs) /\ Len(bs) \in Nat
      /\ \A i \in 1 .. Len(bs) : bs[i] \in BidRow
  OBVIOUS
<1>2. \A r \in BidRow : r.amount \in 1 .. MaxBidAmount - 1 /\ r.bidder \in Bidders
  BY DEF BidRow
<1> QED
  BY <1>1, <1>2 DEF Accepted

(***************************************************************************)
(* The order_by of the bid queries always has a first row.                 *)
(***************************************************************************)
LEMMA BestIsFirst ==
  ASSUME NEW bs \in Seq(BidRow), Accepted(bs) # {}
  PROVE  IsFirst(bs, Accepted(bs), Best(bs))
<1> DEFINE A == Accepted(bs)
           Gap(i) == MaxBidAmount - bs[i].amount
<1>1. /\ A \subseteq Nat
      /\ \A i \in A : bs[i].amount \in Nat /\ Gap(i) \in Nat
  BY RowTypes, TermsAssumption
<1>2. PICK i \in A : \A j \in A : Gap(i) <= Gap(j)
  <2> HIDE DEF Gap
  <2>1. {Gap(i) : i \in A} \in SUBSET Nat /\ {Gap(i) : i \in A} # {}
    BY <1>1
  <2>2. PICK g \in {Gap(i) : i \in A} : \A h \in {Gap(i) : i \in A} : g <= h
    BY <2>1, LeastNatural
  <2> QED
    BY <2>2
<1>3. \A j \in A : bs[j].amount <= bs[i].amount
  BY <1>1, <1>2, TermsAssumption
<1> DEFINE T == {j \in A : bs[j].amount = bs[i].amount}
<1>4. T \in SUBSET Nat /\ T # {}
  BY <1>1
<1>5. PICK k \in T : \A j \in T : k <= j
  <2> HIDE DEF T
  <2> QED
    BY <1>4, LeastNatural
<1>6. IsFirst(bs, A, k)
  BY <1>1, <1>3, <1>5 DEF IsFirst
<1> QED
  BY <1>6 DEF Best

(***************************************************************************)
(* What BestAmount returns: the largest accepted amount.                   *)
(***************************************************************************)
LEMMA BestAmountIsMax ==
  ASSUME NEW bs \in Seq(BidRow)
  PROVE  /\ BestAmount(bs) \in Amounts
         /\ BestAmount(bs) = NoAmount <=> Accepted(bs) = {}
         /\ Accepted(bs) # {} => /\ Best(bs) \in Accepted(bs)
                                 /\ BestAmount(bs) = bs[Best(bs)].amount
         /\ \A i \in Accepted(bs) : bs[i].amount <= BestAmount(bs)
<1>1. CASE Accepted(bs) = {}
  BY <1>1, TermsAssumption DEF BestAmount, NoAmount, Amounts
<1>2. CASE Accepted(bs) # {}
  <2>1. IsFirst(bs, Accepted(bs), Best(bs))
    BY <1>2, BestIsFirst
  <2>2. \A i \in Accepted(bs) : bs[i].amount \in 1 .. MaxBidAmount - 1
    BY RowTypes
  <2> QED
    BY <1>2, <2>1, <2>2, TermsAssumption
    DEF IsFirst, BestAmount, NoAmount, Amounts
<1> QED
  BY <1>1, <1>2

(***************************************************************************)
(* invalidate_bid keeps the rows and takes one out of the accepted set.    *)
(***************************************************************************)
LEMMA InvalidateKeepsRows ==
  ASSUME NEW bs \in Seq(BidRow), NEW k \in DOMAIN bs
  PROVE  LET cs == [bs EXCEPT ![k].status = "INVALIDATED"]
         IN  /\ cs \in Seq(BidRow) /\ Len(cs) = Len(bs) /\ DOMAIN cs = DOMAIN bs
             /\ Accepted(cs) = Accepted(bs) \ {k}
             /\ \A i \in DOMAIN bs : /\ cs[i].amount = bs[i].amount
                                     /\ cs[i].bidder = bs[i].bidder
<1> DEFINE cs == [bs EXCEPT ![k].status = "INVALIDATED"]
<1>1. /\ DOMAIN bs = 1 .. Len(bs) /\ Len(bs) \in Nat
      /\ \A i \in DOMAIN bs : bs[i] \in BidRow
  OBVIOUS
<1>2. DOMAIN cs = DOMAIN bs
  OBVIOUS
<1>3. \A i \in DOMAIN bs :
         /\ cs[i] \in BidRow
         /\ cs[i].amount = bs[i].amount
         /\ cs[i].bidder = bs[i].bidder
         /\ cs[i].status = IF i = k THEN "INVALIDATED" ELSE bs[i].status
  BY <1>1 DEF BidRow
<1>4. cs \in Seq(BidRow) /\ Len(cs) = Len(bs)
  <2>1. cs \in [1 .. Len(bs) -> BidRow]
    BY <1>1, <1>2, <1>3
  <2> QED
    BY <1>1, <2>1
<1>5. Accepted(cs) = Accepted(bs) \ {k}
  BY <1>2, <1>3 DEF Accepted
<1> QED
  BY <1>2, <1>3, <1>4, <1>5

(***************************************************************************)
(* Appending an accepted bid adds its sequence number to the accepted set. *)
(***************************************************************************)
LEMMA AppendKeepsRows ==
  ASSUME NEW bs \in Seq(BidRow), NEW r \in BidRow, r.status = "ACCEPTED"
  PROVE  LET cs == Append(bs, r)
         IN  /\ cs \in Seq(BidRow) /\ Len(cs) = Len(bs) + 1
             /\ DOMAIN cs = 1 .. Len(bs) + 1
             /\ cs[Len(bs) + 1] = r
             /\ \A i \in DOMAIN bs : cs[i] = bs[i]
             /\ Accepted(cs) = Accepted(bs) \cup {Len(bs) + 1}
<1> DEFINE cs == Append(bs, r)
<1>1. /\ cs \in Seq(BidRow) /\ Len(cs) = Len(bs) + 1
      /\ DOMAIN bs = 1 .. Len(bs) /\ DOMAIN cs = 1 .. Len(bs) + 1
      /\ Len(bs) \in Nat
  OBVIOUS
<1>2. cs[Len(bs) + 1] = r /\ \A i \in DOMAIN bs : cs[i] = bs[i]
  BY <1>1
<1>3. Accepted(cs) = Accepted(bs) \cup {Len(bs) + 1}
  BY <1>1, <1>2 DEF Accepted
<1> QED
  BY <1>1, <1>2, <1>3

----------------------------------------------------------------------------
(***************************************************************************)
(* Type correctness: whatever sequence of bids, sweeps and staff actions,  *)
(* the rows hold values of their columns' types.                           *)
(***************************************************************************)
LEMMA TypeStep ==
  ASSUME TypeOK, [Next]_vars
  PROVE  TypeOK'
<1> USE UserAssumption, TermsAssumption, BoundAssumption
    DEF TypeOK, row, sale, sweeps, Time, Amounts, NoAmount
<1>1. CASE Tick
  BY <1>1 DEF Tick
<1>2. ASSUME NEW b \in Bidders, NEW amount \in Amounts, BeginBid(b, amount)
      PROVE  TypeOK'
  <2>1. amount \in 1 .. MaxBidAmount - 1
    BY <1>2 DEF BeginBid, MinimumPermitted
  <2>2. bidTx' \in [bidder : Bidders, amount : 1 .. MaxBidAmount - 1, at : Time]
    BY <1>2, <2>1 DEF BeginBid
  <2> QED
    BY <1>2, <2>2 DEF BeginBid
<1>3. CASE CommitBid
  <2>1. /\ bidTx.bidder \in Bidders /\ bidTx.amount \in 1 .. MaxBidAmount - 1
        /\ bidTx.at \in Time
    BY <1>3 DEF CommitBid
  <2>2. bids' \in Seq(BidRow)
    BY <1>3, <2>1 DEF CommitBid, BidRow
  <2>3. endTime' \in Nat
    BY <1>3, <2>1 DEF CommitBid, ExtendedEnd
  <2>4. notified' \in [Bidders -> Nat]
    BY <1>3 DEF CommitBid, NotifyOutbid
  <2> QED
    BY <1>3, <2>1, <2>2, <2>3, <2>4 DEF CommitBid
<1>4. CASE AbortBid
  BY <1>4 DEF AbortBid
<1>5. ASSUME NEW i \in DOMAIN bids, InvalidateBid(i)
      PROVE  TypeOK'
  <2>1. bids' \in Seq(BidRow)
    BY <1>5, InvalidateKeepsRows DEF InvalidateBid
  <2>2. currentHighest' \in Amounts
    BY <1>5, <2>1, BestAmountIsMax DEF InvalidateBid
  <2> QED
    BY <1>5, <2>1, <2>2 DEF InvalidateBid
<1>6. ASSUME NEW b \in Bidders, SetEligible(b)
      PROVE  TypeOK'
  BY <1>6 DEF SetEligible
<1>7. ASSUME CloseAuction, sweeps' \in (SUBSET Workers) \X (SUBSET Workers)
      PROVE  TypeOK'
  <2>1. BestAmount(bids) \in Amounts
    BY BestAmountIsMax
  <2>2. ReserveMet => bids[Best(bids)].bidder \in Bidders
    BY BestAmountIsMax, RowTypes DEF ReserveMet
  <2> QED
    BY <1>7, <2>1, <2>2 DEF CloseAuction, LC!Status
<1>8. ASSUME NEW w \in Workers, Sweep(w)
      PROVE  TypeOK'
  <2>1. CASE SelectScheduled(w)
    BY <2>1 DEF SelectScheduled
  <2>2. CASE ActivateSelected(w)
    BY <2>2 DEF ActivateSelected, Transition, LC!Status
  <2>3. CASE SelectEnded(w)
    BY <2>3 DEF SelectEnded
  <2>4. CASE CloseSelected(w)
    BY <2>4, <1>7 DEF CloseSelected
  <2> QED
    BY <1>8, <2>1, <2>2, <2>3, <2>4 DEF Sweep
<1>9. CASE Staff
  <2>1. CASE StartNow
    BY <2>1 DEF StartNow, Transition, LC!Status
  <2>2. CASE Pause
    BY <2>2 DEF Pause, Transition, LC!Status
  <2>3. CASE Resume
    BY <2>3 DEF Resume, Transition, LC!Status
  <2>4. CASE CancelAuction
    BY <2>4 DEF CancelAuction, Transition, LC!Status
  <2>5. CASE EndNow
    BY <2>5, <1>7 DEF EndNow
  <2>6. ASSUME NEW newStart \in Time, NEW newEnd \in Time \cup {endTime},
               NEW givesStart \in BOOLEAN, NEW givesEnd \in BOOLEAN,
               Reschedule(newStart, newEnd, givesStart, givesEnd)
        PROVE  TypeOK'
    BY <2>6 DEF Reschedule
  <2> HIDE DEF TypeOK, Time
  <2> QED
    BY <1>9, <2>1, <2>2, <2>3, <2>4, <2>5, <2>6 DEF Staff
<1>10. CASE UNCHANGED vars
  BY <1>10 DEF vars
<1> QED
  BY <1>1, <1>2, <1>3, <1>4, <1>5, <1>6, <1>8, <1>9, <1>10 DEF Next, Bidding

(* A freshly scheduled auction has well-typed columns.                     *)
LEMMA TypeInit == Init => TypeOK
BY UserAssumption, TermsAssumption, BoundAssumption
DEF Init, TypeOK, Time, Amounts, NoAmount, NoTx, LC!Status

(* Type correctness of every reachable state.                              *)
THEOREM TypeCorrect == Spec => []TypeOK
BY TypeInit, TypeStep, PTL DEF Spec

----------------------------------------------------------------------------
(***************************************************************************)
(* What the row lock buys.  While place_bid holds it, every other step     *)
(* leaves the auction, its bids and its outcome alone.                     *)
(***************************************************************************)
LEMMA LockHolds ==
  ASSUME TypeOK, [Next]_vars, ~RowFree
  PROVE  \/ CommitBid
         \/ AbortBid
         \/ UNCHANGED <<row, sale, bids, notified, bidTx>> /\ now' >= now
<1> USE DEF row, sale
<1>1. CASE Tick
  BY <1>1 DEF Tick, TypeOK, Time
<1>2. CASE \E b \in Bidders, amount \in Amounts : BeginBid(b, amount)
  BY <1>2 DEF BeginBid
<1>3. CASE \E i \in DOMAIN bids : InvalidateBid(i)
  BY <1>3 DEF InvalidateBid
<1>4. CASE \E b \in Bidders : SetEligible(b)
  BY <1>4 DEF SetEligible, TypeOK, Time
<1>5. ASSUME NEW w \in Workers, Sweep(w)
      PROVE  UNCHANGED <<row, sale, bids, notified, bidTx>> /\ now' >= now
  BY <1>5 DEF Sweep, SelectScheduled, ActivateSelected, SelectEnded,
              CloseSelected, TypeOK, Time
<1>6. CASE Staff
  BY <1>6 DEF Staff, StartNow, Pause, Resume, CancelAuction, EndNow,
              CloseAuction, Reschedule, Transition
<1>7. CASE UNCHANGED vars
  BY <1>7 DEF vars, TypeOK, Time
<1> QED
  BY <1>1, <1>2, <1>3, <1>4, <1>5, <1>6, <1>7 DEF Next, Bidding

(***************************************************************************)
(* Only place_bid takes the lock over several steps.                       *)
(***************************************************************************)
LEMMA LockTaken ==
  ASSUME [Next]_vars, RowFree
  PROVE  \/ \E b \in Bidders, amount \in Amounts : BeginBid(b, amount)
         \/ bidTx' = NoTx
<1>1. CASE Tick
  BY <1>1 DEF Tick, RowFree
<1>2. CASE Bidding
  BY <1>2 DEF Bidding, CommitBid, AbortBid, InvalidateBid, SetEligible, RowFree
<1>3. ASSUME NEW w \in Workers, Sweep(w)
      PROVE  bidTx' = NoTx
  BY <1>3 DEF Sweep, SelectScheduled, ActivateSelected, SelectEnded,
              CloseSelected, CloseAuction, RowFree
<1>4. CASE Staff
  BY <1>4 DEF Staff, StartNow, Pause, Resume, CancelAuction, EndNow,
              CloseAuction, Reschedule, RowFree
<1>5. CASE UNCHANGED vars
  BY <1>5 DEF vars, RowFree
<1> QED
  BY <1>1, <1>2, <1>3, <1>4, <1>5 DEF Next

(***************************************************************************)
(* The writers of the Bid rows and of current_highest_bid.                 *)
(***************************************************************************)
LEMMA BidWriters ==
  ASSUME [Next]_vars
  PROVE  \/ CommitBid
         \/ \E i \in DOMAIN bids : InvalidateBid(i)
         \/ UNCHANGED <<bids, currentHighest, notified>>
<1> USE DEF row
<1>1. CASE Tick
  BY <1>1 DEF Tick
<1>2. CASE Bidding
  BY <1>2 DEF Bidding, BeginBid, AbortBid, SetEligible
<1>3. ASSUME NEW w \in Workers, Sweep(w)
      PROVE  UNCHANGED <<bids, currentHighest, notified>>
  BY <1>3 DEF Sweep, SelectScheduled, ActivateSelected, SelectEnded,
              CloseSelected, CloseAuction
<1>4. CASE Staff
  BY <1>4 DEF Staff, StartNow, Pause, Resume, CancelAuction, EndNow,
              CloseAuction, Reschedule
<1>5. CASE UNCHANGED vars
  BY <1>5 DEF vars
<1> QED
  BY <1>1, <1>2, <1>3, <1>4, <1>5 DEF Next

----------------------------------------------------------------------------
(***************************************************************************)
(* The bidding rules.  They are inductive together: a bid is checked       *)
(* against current_highest_bid, which HighestIsBest ties to the accepted   *)
(* bids, and TxStillValid carries the check over to the commit.            *)
(***************************************************************************)
BiddingInv == HighestIsBest /\ BidLadder /\ TxStillValid

(* A bid checked under the lock is still a valid bid until it commits.     *)
LEMMA TxStep ==
  ASSUME TypeOK, TxStillValid, [Next]_vars
  PROVE  TxStillValid'
<1>1. CASE RowFree
  <2>1. ASSUME NEW b \in Bidders, NEW amount \in Amounts, BeginBid(b, amount)
        PROVE  TxStillValid'
    BY <2>1 DEF BeginBid, OpenForBidding, TxStillValid, MinimumPermitted, row,
                TypeOK, Time
  <2>2. CASE bidTx' = NoTx
    BY <2>2 DEF TxStillValid, NoTx
  <2> QED
    BY <1>1, <2>1, <2>2, LockTaken
<1>2. CASE ~RowFree
  <2>1. CASE CommitBid \/ AbortBid
    BY <2>1 DEF CommitBid, AbortBid, TxStillValid, NoTx
  <2>2. CASE UNCHANGED <<row, sale, bids, notified, bidTx>> /\ now' >= now
    <3>1. bidTx # NoTx => bidTx.at \in Nat /\ now \in Nat /\ now' \in Int
      BY TypeStep DEF TypeOK, Time
    <3> QED
      BY <2>2, <3>1 DEF TxStillValid, MinimumPermitted, row
  <2> QED
    BY <1>2, <2>1, <2>2, LockHolds
<1> QED
  BY <1>1, <1>2

(* Committing a valid bid keeps the ladder and makes it the highest;       *)
(* invalidating one leaves a ladder and recomputes the highest.            *)
LEMMA LadderStep ==
  ASSUME TypeOK, BiddingInv, [Next]_vars
  PROVE  HighestIsBest' /\ BidLadder'
<1> USE TermsAssumption
<1>1. /\ DOMAIN bids = 1 .. Len(bids) /\ Len(bids) \in Nat
      /\ Accepted(bids) \subseteq 1 .. Len(bids)
      /\ \A i \in 1 .. Len(bids) : bids[i].amount \in 1 .. MaxBidAmount - 1
  BY RowTypes DEF TypeOK
<1>2. CASE CommitBid
  <2> DEFINE r == [bidder |-> bidTx.bidder, amount |-> bidTx.amount,
                   status |-> "ACCEPTED"]
             n == Len(bids) + 1
  <2>1. r \in BidRow /\ r.status = "ACCEPTED" /\ bidTx.amount \in 1 .. MaxBidAmount - 1
    BY <1>2 DEF CommitBid, TypeOK, BidRow
  <2>2. /\ Accepted(bids') = Accepted(bids) \cup {n}
        /\ bids'[n].amount = bidTx.amount
        /\ \A i \in Accepted(bids) : bids'[i] = bids[i]
    BY <1>1, <1>2, <2>1, AppendKeepsRows DEF CommitBid, TypeOK
  <2>3. \A i \in Accepted(bids) : bidTx.amount >= bids[i].amount + MinIncrement
    BY <1>1, <1>2, <2>1
    DEF CommitBid, BiddingInv, TxStillValid, HighestIsBest, MinimumPermitted,
        TypeOK, Amounts, NoAmount
  <2>4. bidTx.amount >= StartingPrice
    BY <1>1, <1>2, <2>1, <2>3
    DEF CommitBid, BiddingInv, TxStillValid, HighestIsBest, BidLadder,
        MinimumPermitted, TypeOK, Amounts, NoAmount
  <2>5. BidLadder'
    BY <1>1, <2>1, <2>2, <2>3, <2>4 DEF BiddingInv, BidLadder
  <2>6. HighestIsBest'
    BY <1>1, <1>2, <2>1, <2>2, <2>3 DEF CommitBid, HighestIsBest, NoAmount
  <2> QED
    BY <2>5, <2>6
<1>3. ASSUME NEW k \in DOMAIN bids, InvalidateBid(k)
      PROVE  HighestIsBest' /\ BidLadder'
  <2>1. /\ bids' \in Seq(BidRow)
        /\ Accepted(bids') = Accepted(bids) \ {k}
        /\ \A i \in DOMAIN bids : bids'[i].amount = bids[i].amount
    BY <1>3, InvalidateKeepsRows DEF InvalidateBid, TypeOK
  <2>2. HighestIsBest'
    <3>1. /\ currentHighest' = NoAmount <=> Accepted(bids') = {}
          /\ \A i \in Accepted(bids') : bids'[i].amount <= currentHighest'
          /\ Accepted(bids') # {} =>
               \E i \in Accepted(bids') : bids'[i].amount = currentHighest'
      BY <1>3, <2>1, BestAmountIsMax DEF InvalidateBid
    <3> QED
      BY <3>1 DEF HighestIsBest
  <2>3. BidLadder'
    <3>1. /\ Accepted(bids') \subseteq Accepted(bids)
          /\ \A i \in Accepted(bids') : bids'[i].amount = bids[i].amount
      BY <1>1, <2>1
    <3>2. BidLadder
      BY DEF BiddingInv
    <3> QED
      BY <3>1, <3>2 DEF BidLadder
  <2> QED
    BY <2>2, <2>3
<1>4. CASE UNCHANGED <<bids, currentHighest, notified>>
  BY <1>4 DEF BiddingInv, HighestIsBest, BidLadder
<1> QED
  BY <1>2, <1>3, <1>4, BidWriters

(***************************************************************************)
(* current_highest_bid always is the best accepted bid, accepted bids      *)
(* climb by the increment, and a bid's checks still hold when it commits.  *)
(***************************************************************************)
THEOREM BiddingCorrect == Spec => []BiddingInv
<1>1. Init => BiddingInv
  BY DEF Init, BiddingInv, HighestIsBest, BidLadder, TxStillValid, Accepted
<1>2. TypeOK /\ BiddingInv /\ [Next]_vars => BiddingInv'
  BY LadderStep, TxStep DEF BiddingInv
<1> QED
  BY <1>1, <1>2, TypeCorrect, PTL DEF Spec

(* A bid in progress is checked against the row it will be committed to.   *)
THEOREM TxCorrect == Spec => []TxStillValid
BY BiddingCorrect, PTL DEF BiddingInv

(* The cached current_highest_bid is never stale.                          *)
THEOREM HighestCorrect == Spec => []HighestIsBest
BY BiddingCorrect, PTL DEF BiddingInv

(* The accepted bids climb by at least the increment.                      *)
THEOREM LadderCorrect == Spec => []BidLadder
BY BiddingCorrect, PTL DEF BiddingInv

----------------------------------------------------------------------------
(***************************************************************************)
(* Outbid notifications.  notify_outbid tells the bidder of the best of    *)
(* the other accepted bids, which on a ladder is the one that led.         *)
(***************************************************************************)
(* On a ladder nobody ties, so both orderings of the bid queries agree.    *)
LEMMA BestIsPrevious ==
  ASSUME TypeOK, BidLadder, Accepted(bids) # {}
  PROVE  IsPrevious(bids, Best(bids))
<1>1. IsFirst(bids, Accepted(bids), Best(bids))
  BY BestIsFirst DEF TypeOK
<1>2. \A i \in Accepted(bids) : i \in Nat /\ bids[i].amount \in Nat
  BY RowTypes, TermsAssumption DEF TypeOK
<1> QED
  BY <1>1, <1>2, TermsAssumption DEF IsFirst, IsPrevious, BidLadder

(* The bid that notify_outbid finds is the leader's. *)
LEMMA PreviousLeads ==
  ASSUME TypeOK, BidLadder, NEW b \in Bidders
  PROVE  Leader(bids) = b <=>
           \E i \in Accepted(bids) : IsPrevious(bids, i) /\ bids[i].bidder = b
<1>1. CASE Accepted(bids) = {}
  BY <1>1, UserAssumption DEF Leader
<1>2. CASE Accepted(bids) # {}
  <2>1. IsPrevious(bids, Best(bids))
    BY <1>2, BestIsPrevious
  <2>2. \A i \in Accepted(bids) : i \in Nat /\ bids[i].amount \in Nat
    BY RowTypes, TermsAssumption DEF TypeOK
  <2>3. \A i \in Accepted(bids) : IsPrevious(bids, i) => i = Best(bids)
    BY <2>1, <2>2 DEF IsPrevious
  <2> QED
    BY <1>2, <2>1, <2>3 DEF Leader, IsPrevious
<1> QED
  BY <1>1, <1>2

(* A bid that is recorded leads from then on. *)
LEMMA CommitLeads ==
  ASSUME TypeOK, TypeOK', BidLadder', CommitBid
  PROVE  /\ Len(bids') = Len(bids) + 1 /\ Len(bids) \in Nat
         /\ Leader(bids') = bidTx.bidder
<1> DEFINE r == [bidder |-> bidTx.bidder, amount |-> bidTx.amount,
                 status |-> "ACCEPTED"]
           n == Len(bids) + 1
           k == Best(bids')
<1>1. r \in BidRow /\ r.status = "ACCEPTED"
  BY DEF CommitBid, TypeOK, BidRow
<1>2. /\ n \in Accepted(bids') /\ bids'[n].bidder = bidTx.bidder
      /\ Len(bids') = n /\ Len(bids) \in Nat
  <2>1. bids \in Seq(BidRow) /\ bids' = Append(bids, r)
    BY DEF CommitBid, TypeOK
  <2> HIDE DEF r
  <2>2. /\ Len(bids') = n /\ bids'[n] = r /\ Len(bids) \in Nat
        /\ Accepted(bids') = Accepted(bids) \cup {n}
    BY <1>1, <2>1, AppendKeepsRows
  <2> QED
    BY <2>2 DEF r
<1>3. IsFirst(bids', Accepted(bids'), k)
  BY <1>2, BestIsFirst DEF TypeOK
<1>4. /\ \A i \in Accepted(bids') : i \in 1 .. n /\ bids'[i].amount \in Nat
  BY <1>2, RowTypes, TermsAssumption DEF TypeOK
<1>5. k = n
  <2> HIDE DEF k
  <2>1. k \in Accepted(bids') /\ bids'[n].amount <= bids'[k].amount
    BY <1>2, <1>3, <1>4 DEF IsFirst
  <2>2. k < n => bids'[n].amount >= bids'[k].amount + MinIncrement
    BY <1>2, <2>1 DEF BidLadder
  <2> QED
    BY <1>2, <1>4, <2>1, <2>2, TermsAssumption
<1> QED
  BY <1>2, <1>5 DEF Leader

(* A notice names a bid that exists, so the next bid's is a new one. *)
NoticesNameBids == \A b \in Bidders : notified[b] <= Len(bids)

LEMMA NoticesStep ==
  ASSUME TypeOK, NoticesNameBids, [Next]_vars
  PROVE  NoticesNameBids'
<1>1. Len(bids) \in Nat /\ \A b \in Bidders : notified[b] \in Nat
  BY DEF TypeOK
<1>2. CASE CommitBid
  <2>1. Len(bids') = Len(bids) + 1
    BY <1>2 DEF CommitBid, TypeOK
  <2>2. \A b \in Bidders : notified'[b] \in {Len(bids) + 1, notified[b]}
    BY <1>2 DEF CommitBid, NotifyOutbid
  <2> QED
    BY <1>1, <2>1, <2>2 DEF NoticesNameBids
<1>3. ASSUME NEW k \in DOMAIN bids, InvalidateBid(k)
      PROVE  NoticesNameBids'
  <2>1. Len(bids') = Len(bids) /\ notified' = notified
    BY <1>3, InvalidateKeepsRows DEF InvalidateBid, TypeOK
  <2> QED
    BY <2>1 DEF NoticesNameBids
<1>4. CASE UNCHANGED <<bids, currentHighest, notified>>
  BY <1>4 DEF NoticesNameBids
<1> QED
  BY <1>2, <1>3, <1>4, BidWriters

(***************************************************************************)
(* Who loses the lead to a bid is told at that bid, and nobody else is.    *)
(***************************************************************************)
THEOREM OvertakenCorrect == Spec => OvertakenAreTold
<1> DEFINE Told ==
             \A b \in Bidders :
               notified'[b] # notified[b] <=>
                 Len(bids') > Len(bids) /\ Leader(bids) = b /\ Leader(bids') # b
<1>1. Init => NoticesNameBids
  <2> SUFFICES ASSUME Init PROVE NoticesNameBids
    OBVIOUS
  <2>1. bids = <<>> /\ notified = [b \in Bidders |-> 0]
    BY DEF Init
  <2>2. Len(bids) = 0
    BY <2>1
  <2>3. ASSUME NEW b \in Bidders
        PROVE  notified[b] <= Len(bids)
    <3>1. notified[b] = 0
      BY <2>1
    <3> QED
      BY <2>2, <3>1
  <2> QED
    BY <2>3 DEF NoticesNameBids
<1>2. TypeOK /\ NoticesNameBids /\ [Next]_vars => NoticesNameBids'
  BY NoticesStep
<1>3. ASSUME TypeOK, TypeOK', BidLadder, BidLadder', NoticesNameBids, [Next]_vars
      PROVE  [Told]_vars
  <2>1. ASSUME CommitBid, NEW b \in Bidders
        PROVE  notified'[b] # notified[b] <=>
                 Len(bids') > Len(bids) /\ Leader(bids) = b /\ Leader(bids') # b
    <3>1. /\ Len(bids') = Len(bids) + 1 /\ Len(bids) \in Nat
          /\ Leader(bids') = bidTx.bidder
      BY <1>3, <2>1, CommitLeads
    <3>2. notified'[b] = IF b # bidTx.bidder /\ Leader(bids) = b
                         THEN Len(bids) + 1 ELSE notified[b]
      BY <1>3, <2>1, PreviousLeads DEF CommitBid, NotifyOutbid
    <3>3. notified[b] \in Nat /\ notified[b] <= Len(bids)
      BY <1>3 DEF TypeOK, NoticesNameBids
    <3> QED
      BY <3>1, <3>2, <3>3
  <2>2. ASSUME NEW k \in DOMAIN bids, InvalidateBid(k)
        PROVE  Told
    <3>1. Len(bids') = Len(bids) /\ notified' = notified /\ Len(bids) \in Nat
      BY <1>3, <2>2, InvalidateKeepsRows DEF InvalidateBid, TypeOK
    <3> QED
      BY <3>1
  <2>3. CASE UNCHANGED <<bids, currentHighest, notified>>
    <3>1. Len(bids) \in Nat
      BY <1>3 DEF TypeOK
    <3> QED
      BY <2>3, <3>1
  <2> QED
    BY <1>3, <2>1, <2>2, <2>3, BidWriters
<1> QED
  BY <1>1, <1>2, <1>3, TypeCorrect, LadderCorrect, PTL DEF Spec, OvertakenAreTold

----------------------------------------------------------------------------
(***************************************************************************)
(* The sale.  It needs one fact more: no Bid row is the seller's.          *)
(***************************************************************************)
SellerNeverBids == \A i \in DOMAIN bids : bids[i].bidder # Seller

SaleInv == SaleIsWhole /\ SellerNeverBids

(* place_bid never records a bid of the seller.                            *)
LEMMA SellerStep ==
  ASSUME TypeOK, TxStillValid, SellerNeverBids, [Next]_vars
  PROVE  SellerNeverBids'
<1>1. CASE CommitBid
  <2> DEFINE r == [bidder |-> bidTx.bidder, amount |-> bidTx.amount,
                   status |-> "ACCEPTED"]
  <2>1. r \in BidRow /\ r.status = "ACCEPTED" /\ r.bidder # Seller
    BY <1>1 DEF CommitBid, TypeOK, BidRow, TxStillValid
  <2> QED
    BY <1>1, <2>1, AppendKeepsRows, RowTypes DEF CommitBid, TypeOK, SellerNeverBids
<1>2. ASSUME NEW k \in DOMAIN bids, InvalidateBid(k)
      PROVE  SellerNeverBids'
  BY <1>2, InvalidateKeepsRows DEF InvalidateBid, TypeOK, SellerNeverBids
<1>3. CASE UNCHANGED <<bids, currentHighest, notified>>
  BY <1>3 DEF SellerNeverBids
<1> QED
  BY <1>1, <1>2, <1>3, BidWriters

(***************************************************************************)
(* Only close_auction writes the sale, and nothing in this module takes a  *)
(* CLOSED auction anywhere else.                                           *)
(***************************************************************************)
LEMMA SaleWriters ==
  ASSUME TypeOK, [Next]_vars
  PROVE  \/ CloseAuction
         \/ UNCHANGED sale /\ (status \in {"CLOSED", "CANCELLED"} => status' = status)
<1> USE DEF row
<1>1. CASE Tick
  BY <1>1 DEF Tick
<1>2. CASE Bidding
  BY <1>2 DEF Bidding, BeginBid, CommitBid, AbortBid, InvalidateBid, SetEligible
<1>3. ASSUME NEW w \in Workers, Sweep(w)
      PROVE  \/ CloseAuction
             \/ UNCHANGED sale /\ (status \in {"CLOSED", "CANCELLED"} => status' = status)
  BY <1>3 DEF Sweep, SelectScheduled, ActivateSelected, SelectEnded,
              CloseSelected, Transition, LC!CanMove, LC!AllowedTransitions, LC!Status
<1>4. CASE Staff
  BY <1>4 DEF Staff, StartNow, Pause, Resume, CancelAuction, EndNow,
              Reschedule, Transition, LC!CanMove, LC!AllowedTransitions, LC!Status
<1>5. CASE UNCHANGED vars
  BY <1>5 DEF vars
<1> QED
  BY <1>1, <1>2, <1>3, <1>4, <1>5 DEF Next

(* close_auction writes a whole sale and nothing takes it apart later.     *)
LEMMA SaleStep ==
  ASSUME TypeOK, SaleInv, [Next]_vars
  PROVE  SaleIsWhole'
<1> USE UserAssumption, TermsAssumption DEF NoAmount
<1>1. /\ DOMAIN bids = 1 .. Len(bids) /\ Len(bids) \in Nat
      /\ Accepted(bids) \subseteq 1 .. Len(bids)
      /\ \A i \in 1 .. Len(bids) : /\ bids[i].amount \in 1 .. MaxBidAmount - 1
                                   /\ bids[i].bidder \in Bidders
  BY RowTypes DEF TypeOK
<1>2. CASE CloseAuction
  <2>1. finalPrice = NoAmount /\ amountDue = NoAmount
    BY <1>2 DEF CloseAuction, SaleInv, SaleIsWhole
  <2>2. CASE ReserveMet
    <3> DEFINE k == Best(bids)
    <3>1. /\ k \in 1 .. Len(bids) /\ BestAmount(bids) = bids[k].amount
          /\ BestAmount(bids) >= Reserve /\ BestAmount(bids) # NoAmount
      BY <1>1, <2>2, BestAmountIsMax DEF ReserveMet, TypeOK
    <3>2. /\ winner' = bids[k].bidder /\ finalPrice' = bids[k].amount
          /\ amountDue' = finalPrice' /\ status' = "CLOSED" /\ bids' = bids
      BY <1>2, <2>1, <2>2, <3>1 DEF CloseAuction
    <3>3. winner' # NoUser /\ winner' # Seller
      BY <1>1, <3>1, <3>2 DEF SaleInv, SellerNeverBids
    <3> QED
      BY <1>1, <3>1, <3>2, <3>3 DEF SaleIsWhole
  <2>3. CASE ~ReserveMet
    BY <1>2, <2>1, <2>3 DEF CloseAuction, SaleIsWhole
  <2> QED
    BY <2>2, <2>3
<1>3. CASE /\ UNCHANGED sale
           /\ status \in {"CLOSED", "CANCELLED"} => status' = status
  <2>1. ASSUME NEW i \in DOMAIN bids
        PROVE  /\ i \in DOMAIN bids'
               /\ bids'[i].bidder = bids[i].bidder
               /\ bids'[i].amount = bids[i].amount
    <3>1. CASE CommitBid
      <4> DEFINE r == [bidder |-> bidTx.bidder, amount |-> bidTx.amount,
                       status |-> "ACCEPTED"]
      <4>1. r \in BidRow /\ r.status = "ACCEPTED"
        BY <3>1 DEF CommitBid, TypeOK, BidRow
      <4> QED
        BY <1>1, <3>1, <4>1, AppendKeepsRows DEF CommitBid, TypeOK
    <3>2. ASSUME NEW k \in DOMAIN bids, InvalidateBid(k)
          PROVE  /\ i \in DOMAIN bids'
                 /\ bids'[i].bidder = bids[i].bidder
                 /\ bids'[i].amount = bids[i].amount
      BY <3>2, InvalidateKeepsRows DEF InvalidateBid, TypeOK
    <3>3. CASE UNCHANGED <<bids, currentHighest, notified>>
      BY <3>3
    <3> QED
      BY <3>1, <3>2, <3>3, BidWriters
  <2> QED
    BY <1>3, <2>1 DEF sale, SaleInv, SaleIsWhole
<1> QED
  BY <1>2, <1>3, SaleWriters

(***************************************************************************)
(* A sale is whole: a closed auction, an entitled winner, a price at or    *)
(* above the reserve that the winner bid, and a payment of that amount.    *)
(***************************************************************************)
THEOREM SaleCorrect == Spec => []SaleIsWhole
<1>1. Init => SaleInv
  BY DEF Init, SaleInv, SaleIsWhole, SellerNeverBids
<1>2. TypeOK /\ BiddingInv /\ SaleInv /\ [Next]_vars => SaleInv'
  BY SaleStep, SellerStep DEF SaleInv, BiddingInv
<1>3. SaleInv => SaleIsWhole
  BY DEF SaleInv
<1> QED
  BY <1>1, <1>2, <1>3, TypeCorrect, BiddingCorrect, PTL DEF Spec

(***************************************************************************)
(* The outcome of a finished auction never changes.                        *)
(***************************************************************************)
THEOREM OutcomeCorrect == Spec => OutcomeIsFinal
<1>1. TypeOK /\ [Next]_vars =>
        [(status \in {"CLOSED", "CANCELLED"})
           => UNCHANGED <<status, winner, finalPrice, amountDue>>]_vars
  BY SaleWriters DEF CloseAuction, sale
<1> QED
  BY <1>1, TypeCorrect, PTL DEF Spec, OutcomeIsFinal

----------------------------------------------------------------------------
(***************************************************************************)
(* A bid is recorded only while the auction is LIVE, before and after.     *)
(***************************************************************************)
THEOREM BidsLandCorrect == Spec => BidsLandWhileLive
<1>1. ASSUME TypeOK, TxStillValid, [Next]_vars, Len(bids') > Len(bids)
      PROVE  status = "LIVE" /\ status' = "LIVE"
  <2>1. CASE CommitBid
    BY <1>1, <2>1 DEF CommitBid, TxStillValid
  <2>2. ASSUME NEW k \in DOMAIN bids, InvalidateBid(k)
        PROVE  FALSE
    <3>1. Len(bids') = Len(bids) /\ Len(bids) \in Nat
      BY <2>2, InvalidateKeepsRows DEF InvalidateBid, TypeOK
    <3> QED
      BY <1>1, <3>1
  <2>3. CASE UNCHANGED <<bids, currentHighest, notified>>
    BY <1>1, <2>3 DEF TypeOK
  <2> QED
    BY <1>1, <2>1, <2>2, <2>3, BidWriters
<1>2. TypeOK /\ BiddingInv /\ [Next]_vars =>
        [bids' # bids /\ Len(bids') > Len(bids) =>
           status = "LIVE" /\ status' = "LIVE"]_vars
  BY <1>1 DEF BiddingInv
<1> QED
  BY <1>2, TypeCorrect, BiddingCorrect, PTL DEF Spec, BidsLandWhileLive

(***************************************************************************)
(* No bid and no staff action brings the end of a LIVE auction forward.    *)
(***************************************************************************)
THEOREM LiveEndCorrect == Spec => LiveEndOnlyMovesLater
<1> DEFINE Later == status = "LIVE" /\ status' = "LIVE" => endTime' >= endTime
<1>1. ASSUME TypeOK, [Next]_vars
      PROVE  Later
  <2> USE DEF row
  <2>0. endTime \in Nat
    BY <1>1 DEF TypeOK
  <2>1. CASE Tick
    BY <2>0, <2>1 DEF Tick
  <2>2. CASE CommitBid
    <3>1. bidTx.at \in Nat /\ Window \in Nat
      BY <1>1, <2>2, TermsAssumption DEF CommitBid, TypeOK, Time
    <3> QED
      BY <2>0, <2>2, <3>1 DEF CommitBid, ExtendedEnd
  <2>3. CASE Bidding /\ ~CommitBid
    BY <2>0, <2>3 DEF Bidding, BeginBid, AbortBid, InvalidateBid, SetEligible
  <2>4. ASSUME NEW w \in Workers, Sweep(w)
        PROVE  Later
    BY <2>0, <2>4 DEF Sweep, SelectScheduled, ActivateSelected, SelectEnded,
                      CloseSelected, CloseAuction
  <2>5. ASSUME NEW newStart \in Time, NEW newEnd \in Time \cup {endTime},
               NEW givesStart \in BOOLEAN, NEW givesEnd \in BOOLEAN,
               Reschedule(newStart, newEnd, givesStart, givesEnd)
        PROVE  Later
    BY <2>0, <2>5 DEF Reschedule, Time
  <2>6. CASE StartNow \/ Pause \/ Resume \/ CancelAuction \/ EndNow
    BY <2>0, <2>6 DEF StartNow, Pause, Resume, CancelAuction, EndNow, CloseAuction
  <2>7. CASE UNCHANGED vars
    BY <2>0, <2>7 DEF vars
  <2>8. ASSUME Staff PROVE Later
    <3> HIDE DEF Later
    <3> QED
      BY <2>5, <2>6, <2>8 DEF Staff
  <2> HIDE DEF Later
  <2> QED
    BY <1>1, <2>1, <2>2, <2>3, <2>4, <2>7, <2>8 DEF Next
<1>2. TypeOK /\ [Next]_vars => [Later]_vars
  BY <1>1
<1> QED
  BY <1>2, TypeCorrect, PTL DEF Spec, LiveEndOnlyMovesLater

----------------------------------------------------------------------------
(***************************************************************************)
(* Every change of status follows ALLOWED_TRANSITIONS, also when a sweep   *)
(* acts on an auction it selected long ago.                                *)
(***************************************************************************)
THEOREM LifecycleCorrect == Spec => FollowsLifecycle
<1> DEFINE Step == LC!Move \/ LC!RestoreSettled
<1>1. ASSUME NEW to \in LC!Status, Transition(to)
      PROVE  Step
  BY <1>1 DEF Transition, LC!Move
<1>2. ASSUME CloseAuction
      PROVE  Step
  BY <1>2 DEF CloseAuction, LC!Move, LC!CanMove, LC!AllowedTransitions, LC!Status
<1>3. ASSUME TypeOK, [Next]_vars
      PROVE  Step \/ UNCHANGED status
  <2> HIDE DEF Step
  <2> USE DEF row
  <2>0. {"LIVE", "PAUSED", "CANCELLED"} \subseteq LC!Status
    BY DEF LC!Status
  <2>1. CASE Tick
    BY <2>1 DEF Tick
  <2>2. CASE Bidding
    BY <2>2 DEF Bidding, BeginBid, CommitBid, AbortBid, InvalidateBid, SetEligible
  <2>3. ASSUME NEW w \in Workers, Sweep(w)
        PROVE  Step \/ UNCHANGED status
    BY <1>1, <1>2, <2>0, <2>3 DEF Sweep, SelectScheduled, ActivateSelected,
                                  SelectEnded, CloseSelected
  <2>4. CASE Staff
    BY <1>1, <1>2, <2>0, <2>4 DEF Staff, StartNow, Pause, Resume, CancelAuction,
                                  EndNow, Reschedule
  <2>5. CASE UNCHANGED vars
    BY <2>5 DEF vars
  <2> QED
    BY <1>3, <2>1, <2>2, <2>3, <2>4, <2>5 DEF Next
<1>4. TypeOK /\ [Next]_vars => [Step]_status
  BY <1>3
<1> QED
  BY <1>4, TypeCorrect, PTL DEF Spec, FollowsLifecycle, LC!Steps
=============================================================================
