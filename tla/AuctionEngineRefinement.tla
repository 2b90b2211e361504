---------------------- MODULE AuctionEngineRefinement ----------------------
(* AuctionEngine implements AscendingAuction and Sweeper, for every value  *)
(* of the constants.  The mappings are those of the instances Abstract and *)
(* Sweeping of AuctionEngine.                                              *)
EXTENDS AuctionEngineProofs

OffersOf(bs) == {[bidder |-> bs[i].bidder, amount |-> bs[i].amount] : i \in Accepted(bs)}

PhaseOf(st, buyer) ==
  CASE st \in {"SCHEDULED", "PAUSED"} -> "waiting"
    [] st = "LIVE" -> "open"
    [] st = "CANCELLED" -> "void"
    [] OTHER -> IF buyer = NoUser THEN "unsold" ELSE "sold"

(***************************************************************************)
(* The offers of well-typed rows.                                          *)
(***************************************************************************)
LEMMA OffersAreOffers ==
  ASSUME NEW bs \in Seq(BidRow)
  PROVE  OffersOf(bs) \subseteq Abstract!Offer
BY RowTypes DEF OffersOf, Abstract!Offer

(***************************************************************************)
(* Recording a bid is making an offer: a bid that clears the cached        *)
(* maximum by the increment beats every standing offer.                    *)
(***************************************************************************)
LEMMA CommitMakesOffer ==
  ASSUME TypeOK, BiddingInv, CommitBid
  PROVE  \E o \in Abstract!Offer : Abstract!MakeOffer(o)
<1> USE TermsAssumption DEF BiddingInv
<1> DEFINE o == [bidder |-> bidTx.bidder, amount |-> bidTx.amount]
           r == [bidder |-> bidTx.bidder, amount |-> bidTx.amount,
                 status |-> "ACCEPTED"]
<1>1. bidTx.bidder \in Bidders /\ bidTx.amount \in 1 .. MaxBidAmount - 1
  BY DEF CommitBid, TypeOK
<1>2. r \in BidRow /\ r.status = "ACCEPTED" /\ bids' = Append(bids, r)
  BY <1>1 DEF CommitBid, BidRow
<1>3. /\ DOMAIN bids = 1 .. Len(bids) /\ Len(bids) \in Nat
      /\ Accepted(bids) \subseteq 1 .. Len(bids)
      /\ \A i \in 1 .. Len(bids) : bids[i].amount \in 1 .. MaxBidAmount - 1
  BY RowTypes DEF TypeOK
<1>4. OffersOf(bids') = OffersOf(bids) \cup {o}
  <2>1. /\ Accepted(bids') = Accepted(bids) \cup {Len(bids) + 1}
        /\ bids'[Len(bids) + 1] = r
        /\ \A i \in Accepted(bids) : bids'[i] = bids[i]
    BY <1>2, <1>3, AppendKeepsRows DEF TypeOK
  <2>2. OffersOf(bids') =
          {[bidder |-> bids'[i].bidder, amount |-> bids'[i].amount] : i \in Accepted(bids)}
            \cup {[bidder |-> r.bidder, amount |-> r.amount]}
    BY <2>1 DEF OffersOf
  <2> QED
    BY <2>1, <2>2 DEF OffersOf
<1>5. PhaseOf(status, winner) = "open" /\ PhaseOf(status', winner') = "open"
  BY DEF CommitBid, TxStillValid, PhaseOf, sale
<1>6. Abstract!Beats(o.amount, OffersOf(bids))
  <2>1. bidTx.amount >= MinimumPermitted
    BY DEF CommitBid, TxStillValid
  <2>2. \A i \in Accepted(bids) : o.amount >= bids[i].amount + MinIncrement
    BY <1>1, <1>3, <2>1 DEF MinimumPermitted, HighestIsBest, TypeOK, Amounts, NoAmount
  <2>3. o.amount >= StartingPrice
    <3>1. currentHighest # NoAmount => currentHighest >= StartingPrice
      BY DEF HighestIsBest, BidLadder
    <3> QED
      BY <1>1, <2>1, <3>1 DEF MinimumPermitted, TypeOK, Amounts, NoAmount
  <2> QED
    BY <2>2, <2>3 DEF Abstract!Beats, OffersOf
<1>7. UNCHANGED <<winner, finalPrice>>
  BY DEF CommitBid, sale
<1> QED
  BY <1>1, <1>4, <1>5, <1>6, <1>7
  DEF Abstract!MakeOffer, Abstract!Offer, OffersOf, PhaseOf

(***************************************************************************)
(* Invalidating an accepted bid strikes its offer and no other: on the     *)
(* ladder no two accepted bids make the same offer.                        *)
(***************************************************************************)
LEMMA InvalidateStrikesOffer ==
  ASSUME TypeOK, BidLadder, NEW k \in DOMAIN bids, InvalidateBid(k)
  PROVE  \/ \E o \in OffersOf(bids) : Abstract!StrikeOffer(o)
         \/ UNCHANGED <<OffersOf(bids), PhaseOf(status, winner), winner, finalPrice>>
<1> USE TermsAssumption
<1> DEFINE Offer(i) == [bidder |-> bids[i].bidder, amount |-> bids[i].amount]
<1>1. /\ Accepted(bids) \subseteq Nat
      /\ \A i \in Accepted(bids) : bids[i].amount \in Nat
  BY RowTypes DEF TypeOK
<1>2. /\ Accepted(bids') = Accepted(bids) \ {k}
      /\ \A i \in Accepted(bids) : /\ bids'[i].amount = bids[i].amount
                                   /\ bids'[i].bidder = bids[i].bidder
  BY InvalidateKeepsRows DEF InvalidateBid, TypeOK, Accepted
<1>3. OffersOf(bids) = {Offer(i) : i \in Accepted(bids)}
  BY DEF OffersOf
<1>4. OffersOf(bids') = {Offer(i) : i \in Accepted(bids) \ {k}}
  BY <1>2 DEF OffersOf
<1>5. UNCHANGED <<status, winner, finalPrice>>
  BY DEF InvalidateBid, sale
<1>6. CASE k \in Accepted(bids)
  <2>1. \A i \in Accepted(bids) \ {k} : bids[i].amount # bids[k].amount
    BY <1>1, <1>6 DEF BidLadder
  <2>2. \A i \in Accepted(bids) \ {k} : Offer(i) # Offer(k)
    BY <2>1
  <2>3. OffersOf(bids') = OffersOf(bids) \ {Offer(k)} /\ Offer(k) \in OffersOf(bids)
    BY <1>3, <1>4, <1>6, <2>2
  <2> HIDE DEF Offer
  <2>4. PICK o \in OffersOf(bids) : OffersOf(bids') = OffersOf(bids) \ {o}
    BY <2>3
  <2>5. Abstract!StrikeOffer(o)
    BY <1>5, <2>4 DEF Abstract!StrikeOffer, OffersOf
  <2> QED
    BY <2>4, <2>5
<1>7. CASE k \notin Accepted(bids)
  <2>1. Accepted(bids) \ {k} = Accepted(bids)
    BY <1>7
  <2>2. OffersOf(bids') = OffersOf(bids)
    BY <1>3, <1>4, <2>1
  <2> QED
    BY <1>5, <2>2 DEF PhaseOf
<1> QED
  BY <1>6, <1>7

(***************************************************************************)
(* Closing sells to the best standing offer that meets the reserve, or     *)
(* fails to sell when none does.                                           *)
(***************************************************************************)
LEMMA CloseSellsOrFails ==
  ASSUME TypeOK, SaleIsWhole, CloseAuction
  PROVE  Abstract!FailToSell \/ \E o \in Abstract!Offer : Abstract!Sell(o)
<1> USE TermsAssumption, UserAssumption
<1>1. /\ Accepted(bids) \subseteq 1 .. Len(bids)
      /\ \A i \in 1 .. Len(bids) : /\ bids[i].amount \in 1 .. MaxBidAmount - 1
                                   /\ bids[i].bidder \in Bidders
  BY RowTypes DEF TypeOK
<1>2. /\ BestAmount(bids) = NoAmount <=> Accepted(bids) = {}
      /\ BestAmount(bids) \in Nat
      /\ Accepted(bids) # {} => /\ Best(bids) \in Accepted(bids)
                                /\ BestAmount(bids) = bids[Best(bids)].amount
      /\ \A i \in Accepted(bids) : bids[i].amount <= BestAmount(bids)
  BY BestAmountIsMax DEF TypeOK, Amounts
<1>3. status = "LIVE" /\ status' = "CLOSED" /\ bids' = bids
  BY DEF CloseAuction
<1>4. winner = NoUser /\ finalPrice = NoAmount
  BY <1>3 DEF SaleIsWhole
<1>5. PhaseOf(status, winner) = "open" /\ OffersOf(bids') = OffersOf(bids)
  BY <1>3 DEF PhaseOf, OffersOf
<1>6. CASE ReserveMet
  <2> DEFINE k == Best(bids)
             o == [bidder |-> bids[k].bidder, amount |-> bids[k].amount]
  <2>1. k \in Accepted(bids) /\ BestAmount(bids) = bids[k].amount
    BY <1>2, <1>6 DEF ReserveMet
  <2>2. o \in OffersOf(bids) /\ o \in Abstract!Offer
    BY <1>1, <2>1 DEF OffersOf, Abstract!Offer
  <2>3. winner' = o.bidder /\ finalPrice' = o.amount
    BY <1>6, <2>1 DEF CloseAuction
  <2>4. PhaseOf(status', winner') = "sold"
    BY <1>1, <1>3, <2>1, <2>3 DEF PhaseOf
  <2>5. o.amount >= Reserve
    BY <1>1, <1>6, <2>1 DEF ReserveMet, NoAmount
  <2>6. \A p \in OffersOf(bids) : p.amount <= o.amount
    BY <1>2, <2>1 DEF OffersOf
  <2> HIDE DEF o
  <2>7. Abstract!Sell(o)
    BY <1>3, <1>5, <2>2, <2>3, <2>4, <2>5, <2>6
    DEF Abstract!Sell, Abstract!IsBestOffer, OffersOf, PhaseOf
  <2> QED
    BY <2>2, <2>7
<1>7. CASE ~ReserveMet
  <2>1. winner' = NoUser /\ finalPrice' = NoAmount
    BY <1>7 DEF CloseAuction
  <2>2. PhaseOf(status', winner') = "unsold"
    BY <1>3, <2>1 DEF PhaseOf
  <2>3. \A i \in Accepted(bids) : bids[i].amount < Reserve
    BY <1>1, <1>2, <1>7 DEF ReserveMet, NoAmount
  <2>4. \A o \in OffersOf(bids) : o.amount < Reserve
    BY <2>3 DEF OffersOf
  <2> QED
    BY <1>3, <1>4, <1>5, <2>1, <2>2, <2>4 DEF Abstract!FailToSell, OffersOf, PhaseOf
<1> QED
  BY <1>6, <1>7

----------------------------------------------------------------------------
(***************************************************************************)
(* Every other step moves the status along the table or leaves what the    *)
(* abstract auction shows alone.                                           *)
(***************************************************************************)
OtherStep ==
  /\ UNCHANGED <<bids, winner, finalPrice>>
  /\ \/ UNCHANGED status
     \/ /\ status \in {"SCHEDULED", "LIVE", "PAUSED"}
        /\ status' \in {"LIVE", "PAUSED", "CANCELLED"}
        /\ LC!CanMove(status, status')

LEMMA StepKinds ==
  ASSUME TypeOK, [Next]_vars
  PROVE  \/ CommitBid
         \/ \E k \in DOMAIN bids : InvalidateBid(k)
         \/ CloseAuction
         \/ OtherStep
<1> USE DEF OtherStep, row, sale
<1>1. ASSUME NEW to \in {"LIVE", "PAUSED"}, Transition(to),
             UNCHANGED <<bids, winner, finalPrice>>
      PROVE  OtherStep
  <2>1. \A st \in LC!Status :
           LC!CanMove(st, to) => st \in {"SCHEDULED", "LIVE", "PAUSED"}
    BY DEF LC!CanMove, LC!AllowedTransitions, LC!Status
  <2> QED
    BY <1>1, <2>1 DEF Transition, TypeOK
<1>2. CASE Tick
  BY <1>2 DEF Tick
<1>3. CASE Bidding
  BY <1>3 DEF Bidding, BeginBid, AbortBid, SetEligible
<1>4. ASSUME NEW w \in Workers, Sweep(w)
      PROVE  CloseAuction \/ OtherStep
  <2> HIDE DEF OtherStep
  <2>1. CASE ActivateSelected(w)
    BY <1>1, <2>1 DEF ActivateSelected, OtherStep
  <2>2. CASE SelectScheduled(w) \/ SelectEnded(w)
    BY <2>2 DEF SelectScheduled, SelectEnded, OtherStep
  <2>3. CASE CloseSelected(w)
    BY <2>3 DEF CloseSelected, OtherStep
  <2> QED
    BY <1>4, <2>1, <2>2, <2>3 DEF Sweep
<1>5. CASE Staff
  <2> HIDE DEF OtherStep
  <2>1. CASE StartNow \/ Pause \/ Resume
    BY <1>1, <2>1 DEF StartNow, Pause, Resume
  <2>4. CASE CancelAuction
    BY <2>4 DEF CancelAuction, Transition, OtherStep
  <2>2. CASE EndNow
    BY <2>2 DEF EndNow
  <2>3. ASSUME NEW newStart \in Time, NEW newEnd \in Time \cup {endTime},
               NEW givesStart \in BOOLEAN, NEW givesEnd \in BOOLEAN,
               Reschedule(newStart, newEnd, givesStart, givesEnd)
        PROVE  OtherStep
    BY <2>3 DEF Reschedule, OtherStep
  <2> QED
    BY <1>5, <2>1, <2>2, <2>3, <2>4 DEF Staff
<1>6. CASE UNCHANGED vars
  BY <1>6 DEF vars
<1> QED
  BY <1>2, <1>3, <1>4, <1>5, <1>6 DEF Next

(***************************************************************************)
(* Such a step opens, closes or withdraws the abstract auction, or is      *)
(* invisible in it.                                                        *)
(***************************************************************************)
LEMMA OtherStepSetsPhase ==
  ASSUME TypeOK, OtherStep
  PROVE  Abstract!SetPhase \/ UNCHANGED Abstract!abstractVars
<1>1. UNCHANGED <<OffersOf(bids), winner, finalPrice>>
  BY DEF OtherStep, OffersOf
<1>2. CASE UNCHANGED status
  BY <1>1, <1>2 DEF OtherStep, Abstract!abstractVars, OffersOf, PhaseOf
<1>3. CASE /\ status \in {"SCHEDULED", "LIVE", "PAUSED"}
           /\ status' \in {"LIVE", "PAUSED", "CANCELLED"}
           /\ LC!CanMove(status, status')
  <2>1. \/ PhaseOf(status, winner) = "waiting" /\ PhaseOf(status', winner') \in {"open", "void"}
        \/ PhaseOf(status, winner) = "open" /\ PhaseOf(status', winner') \in {"waiting", "void"}
    BY <1>3 DEF PhaseOf, LC!CanMove, LC!AllowedTransitions, LC!Status
  <2> QED
    BY <1>1, <2>1 DEF Abstract!SetPhase, OffersOf, PhaseOf
<1> QED
  BY <1>2, <1>3 DEF OtherStep

(***************************************************************************)
(* Step refinement.                                                        *)
(***************************************************************************)
LEMMA StepRefines ==
  ASSUME TypeOK, BiddingInv, SaleIsWhole, [Next]_vars
  PROVE  [Abstract!Next]_(Abstract!abstractVars)
<1>1. CASE CommitBid
  BY <1>1, CommitMakesOffer DEF Abstract!Next
<1>2. ASSUME NEW k \in DOMAIN bids, InvalidateBid(k)
      PROVE  [Abstract!Next]_(Abstract!abstractVars)
  <2>1. CASE \E o \in OffersOf(bids) : Abstract!StrikeOffer(o)
    BY <2>1 DEF Abstract!Next, OffersOf
  <2>2. CASE UNCHANGED <<OffersOf(bids), PhaseOf(status, winner), winner, finalPrice>>
    BY <2>2 DEF Abstract!abstractVars, OffersOf, PhaseOf
  <2> QED
    BY <1>2, <2>1, <2>2, InvalidateStrikesOffer DEF BiddingInv
<1>3. CASE CloseAuction
  BY <1>3, CloseSellsOrFails DEF Abstract!Next
<1>4. CASE OtherStep
  BY <1>4, OtherStepSetsPhase DEF Abstract!Next
<1> QED
  BY <1>1, <1>2, <1>3, <1>4, StepKinds

(***************************************************************************)
(* The bidding engine, with its lock, clock, cache, sweeps and staff       *)
(* controls, implements the open-outcry ascending auction.                 *)
(***************************************************************************)
THEOREM RefinementCorrect == Spec => RefinesAscendingAuction
<1>1. Init => Abstract!Init
  BY DEF Init, Abstract!Init, Accepted, NoAmount
<1>2. TypeOK /\ BiddingInv /\ SaleIsWhole /\ [Next]_vars
        => [Abstract!Next]_(Abstract!abstractVars)
  BY StepRefines
<1> QED
  BY <1>1, <1>2, TypeCorrect, BiddingCorrect, SaleCorrect, PTL
  DEF Spec, RefinesAscendingAuction, Abstract!Spec

----------------------------------------------------------------------------
(***************************************************************************)
(* The schedule.  Only the listing's form and reschedule compare the start *)
(* with the end; an early start and an extension keep the order.           *)
(***************************************************************************)
ScheduleOrder == startTime < endTime

LEMMA ScheduleStep ==
  ASSUME TypeOK, TxStillValid, ScheduleOrder, [Next]_vars
  PROVE  ScheduleOrder'
<1> USE DEF row
<1>0. startTime \in Nat /\ endTime \in Nat /\ now \in Nat
  BY BoundAssumption DEF TypeOK, Time
<1>1. CASE Tick
  BY <1>1 DEF Tick, ScheduleOrder
<1>2. CASE CommitBid
  <2>1. bidTx.at \in Nat /\ Window \in Nat
    BY <1>2, TermsAssumption, BoundAssumption DEF CommitBid, TypeOK, Time
  <2> QED
    BY <1>0, <1>2, <2>1 DEF CommitBid, ExtendedEnd, TxStillValid, ScheduleOrder
<1>3. CASE Bidding /\ ~CommitBid
  BY <1>3 DEF Bidding, BeginBid, AbortBid, InvalidateBid, SetEligible, ScheduleOrder
<1>4. ASSUME NEW w \in Workers, Sweep(w)
      PROVE  ScheduleOrder'
  BY <1>4 DEF Sweep, SelectScheduled, ActivateSelected, SelectEnded, CloseSelected,
              CloseAuction, ScheduleOrder
<1>5. CASE Staff
  <2>1. CASE StartNow
    BY <1>0, <2>1 DEF StartNow, ScheduleOrder
  <2>2. CASE Pause \/ Resume \/ CancelAuction \/ EndNow
    BY <2>2 DEF Pause, Resume, CancelAuction, EndNow, CloseAuction, ScheduleOrder
  <2>3. ASSUME NEW newStart \in Time, NEW newEnd \in Time \cup {endTime},
               NEW givesStart \in BOOLEAN, NEW givesEnd \in BOOLEAN,
               Reschedule(newStart, newEnd, givesStart, givesEnd)
        PROVE  ScheduleOrder'
    BY <2>3 DEF Reschedule, ScheduleOrder
  <2> QED
    BY <1>5, <2>1, <2>2, <2>3 DEF Staff
<1>6. CASE UNCHANGED vars
  BY <1>6 DEF vars, ScheduleOrder
<1> QED
  BY <1>1, <1>2, <1>3, <1>4, <1>5, <1>6 DEF Next

(***************************************************************************)
(* An auction never ends before it starts, whoever moves its start or end. *)
(***************************************************************************)
THEOREM ScheduleCorrect == Spec => []ScheduleOrder
<1>1. Init => ScheduleOrder
  BY DEF Init, ScheduleOrder
<1>2. TypeOK /\ BiddingInv /\ ScheduleOrder /\ [Next]_vars => ScheduleOrder'
  BY ScheduleStep DEF BiddingInv
<1> QED
  BY <1>1, <1>2, TypeCorrect, BiddingCorrect, PTL DEF Spec

----------------------------------------------------------------------------
(***************************************************************************)
(* What Sweeper shows of an engine, by name.                               *)
(***************************************************************************)
Only(x) == [a \in {OnlyAuction} |-> x]

Held == IF bidTx = NoTx THEN {} ELSE {OnlyAuction}

Busy(r) == [step |-> r, todo |-> {OnlyAuction}]
Free    == [step |-> "idle", todo |-> {}]

Runs == [p \in Workers \X Roles |-> IF Selected(p[1], p[2]) THEN Busy(p[2]) ELSE Free]

Shown == <<Only(status), Only(Phase), Held, Runs>>

ShownStep == Sweeping!Step \/ \E a \in Sweeping!Auctions :
                                Sweeping!Control(a) /\ UNCHANGED <<Held, Runs>>

LEMMA OneAuction == Sweeping!Auctions = {OnlyAuction}
BY DEF Sweeping!Auctions, OnlyAuction

LEMMA OnlyExcept ==
  ASSUME NEW x, NEW y
  PROVE  /\ [Only(x) EXCEPT ![OnlyAuction] = y] = Only(y)
         /\ Only(x)[OnlyAuction] = x
BY DEF Only

LEMMA PhaseIs ==
  ASSUME TypeOK, ScheduleOrder
  PROVE  /\ Phase = "before" <=> now < startTime
         /\ Phase = "during" <=> startTime <= now /\ now < endTime
         /\ Phase = "after" <=> endTime <= now
         /\ Phase \in {"before", "during", "after"}
BY BoundAssumption DEF TypeOK, Time, Phase, ScheduleOrder

LEMMA RunAt ==
  ASSUME NEW w \in Workers, NEW r \in Roles
  PROVE  /\ Selected(w, r) => Runs[<<w, r>>] = Busy(r)
         /\ ~Selected(w, r) => Runs[<<w, r>>] = Free
BY DEF Runs

(* A worker that takes the auction from a query, or is done with it. *)
LEMMA RunTurn ==
  ASSUME NEW w \in Workers, NEW r \in Roles,
         \A v \in Workers, s \in Roles :
           <<v, s>> # <<w, r>> => (Selected(v, s)' <=> Selected(v, s))
  PROVE  /\ Selected(w, r)' => Runs' = [Runs EXCEPT ![<<w, r>>] = Busy(r)]
         /\ ~Selected(w, r)' => Runs' = [Runs EXCEPT ![<<w, r>>] = Free]
<1>1. \A p \in Workers \X Roles :
        p # <<w, r>> => (Selected(p[1], p[2])' <=> Selected(p[1], p[2]))
  <2>1. \A p \in Workers \X Roles : p[1] \in Workers /\ p[2] \in Roles /\ p = <<p[1], p[2]>>
    OBVIOUS
  <2> QED
    BY <2>1
<1>2. \A p \in Workers \X Roles :
        p # <<w, r>> => (IF Selected(p[1], p[2])' THEN Busy(p[2]) ELSE Free)
                        = (IF Selected(p[1], p[2]) THEN Busy(p[2]) ELSE Free)
  BY <1>1
<1>3. Runs' = [p \in Workers \X Roles |-> IF Selected(p[1], p[2])' THEN Busy(p[2]) ELSE Free]
  BY DEF Runs, Busy, Free
<1>4. ASSUME Selected(w, r)'
      PROVE  Runs' = [Runs EXCEPT ![<<w, r>>] = Busy(r)]
  <2>1. (IF Selected(<<w, r>>[1], <<w, r>>[2])' THEN Busy(<<w, r>>[2]) ELSE Free) = Busy(r)
    BY <1>4
  <2> QED
    BY <1>2, <1>3, <2>1 DEF Runs
<1>5. ASSUME ~Selected(w, r)'
      PROVE  Runs' = [Runs EXCEPT ![<<w, r>>] = Free]
  <2>1. (IF Selected(<<w, r>>[1], <<w, r>>[2])' THEN Busy(<<w, r>>[2]) ELSE Free) = Free
    BY <1>5
  <2> QED
    BY <1>2, <1>3, <2>1 DEF Runs
<1> QED
  BY <1>4, <1>5

(***************************************************************************)
(* Sweeper's queries and turns, in these terms.                            *)
(***************************************************************************)
LEMMA QueriesAre ==
  /\ Sweeping!DueAuctions = IF status = "SCHEDULED" /\ Phase # "before" THEN {OnlyAuction} ELSE {}
  /\ Sweeping!OverdueAuctions = IF status = "LIVE" /\ Phase = "after" THEN {OnlyAuction} ELSE {}
BY OneAuction DEF Sweeping!DueAuctions, Sweeping!OverdueAuctions, Sweeping!Due, Sweeping!Overdue

After(p, step, todo) ==
  CASE todo # {} -> [step |-> step, todo |-> todo]
    [] todo = {} /\ p \in {} /\ step = "starting" -> Sweeping!Halfway
    [] OTHER -> Free

LEMMA AfterIs ==
  ASSUME NEW p, NEW step
  PROVE  /\ After(p, step, {}) = Free
         /\ After(p, step, {OnlyAuction}) = [step |-> step, todo |-> {OnlyAuction}]
BY DEF After

LEMMA TurnIs ==
  ASSUME NEW w \in Workers, NEW r \in Roles, Selected(w, r)
  PROVE  /\ Sweeping!First({OnlyAuction}) = OnlyAuction
         /\ Sweeping!Rest(<<w, r>>) = {}
         /\ Sweeping!LeftAfterError(<<w, r>>) = {}
<1>1. Sweeping!First({OnlyAuction}) = OnlyAuction
  BY DEF Sweeping!First, OnlyAuction
<1>2. Runs[<<w, r>>] = Busy(r)
  BY RunAt
<1>3. Sweeping!Rest(<<w, r>>) = {}
  BY <1>1, <1>2 DEF Sweeping!Rest, Runs, Busy, Free
<1>4. <<w, r>> \in Sweeping!Commands
  BY DEF Sweeping!Commands, Roles
<1>5. Sweeping!LeftAfterError(<<w, r>>) = {}
  BY <1>4 DEF Sweeping!LeftAfterError
<1> QED
  BY <1>1, <1>3, <1>5

(* Enough for a query, and for a turn, to be a step there. *)
LEMMA QueryStep ==
  ASSUME NEW p, Runs[p] = Free, UNCHANGED <<Only(status), Only(Phase), Held>>
  PROVE  /\ /\ Sweeping!DueAuctions = {OnlyAuction}
            /\ Runs' = [Runs EXCEPT ![p] = Busy("starting")]
            => Sweeping!BeginStarting(p)
         /\ /\ Sweeping!OverdueAuctions = {OnlyAuction}
            /\ Runs' = [Runs EXCEPT ![p] = Busy("closing")]
            => Sweeping!BeginClosing(p)
<1>1. Sweeping!BeginStarting(p) <=>
        /\ Runs[p] = Free
        /\ p \in Workers \X {"starting"} => Sweeping!DueAuctions # {}
        /\ Runs' = [Runs EXCEPT ![p] = After(p, "starting", Sweeping!DueAuctions)]
        /\ UNCHANGED <<Only(status), Only(Phase), Held>>
  BY DEF Sweeping!BeginStarting, Sweeping!SetRun, Sweeping!Idle,
         Only, Held, Runs, Busy, Free, After
<1>2. Sweeping!BeginClosing(p) <=>
        /\ Runs[p] = Free
        /\ Sweeping!OverdueAuctions # {}
        /\ Runs' = [Runs EXCEPT ![p] = After(p, "closing", Sweeping!OverdueAuctions)]
        /\ UNCHANGED <<Only(status), Only(Phase), Held>>
  BY DEF Sweeping!BeginClosing, Sweeping!SetRun, Sweeping!Idle,
         Only, Held, Runs, Busy, Free, After
<1> QED
  BY <1>1, <1>2, AfterIs DEF Busy

LEMMA TurnStep ==
  ASSUME NEW w \in Workers, NEW r \in Roles, Selected(w, r),
         Runs' = [Runs EXCEPT ![<<w, r>>] = Free],
         RowFree, UNCHANGED <<Only(Phase), Held>>
  PROVE  /\ /\ r = "starting"
            /\ \/ Sweeping!Transition(OnlyAuction, "LIVE")
               \/ ~Sweeping!LC!CanMove(status, "LIVE") /\ UNCHANGED Only(status)
            => Sweeping!StartNext(<<w, r>>)
         /\ /\ r = "closing"
            /\ \/ status = "LIVE" /\ Sweeping!Transition(OnlyAuction, "CLOSED")
               \/ status # "LIVE" /\ UNCHANGED Only(status)
            => Sweeping!CloseNext(<<w, r>>)
<1> DEFINE p == <<w, r>>
           Moved(a, to) == /\ Sweeping!RowFree(a)
                           /\ Sweeping!LC!CanMove(Only(status)[a], to)
                           /\ Only(status)' = [Only(status) EXCEPT ![a] = to]
<1>1. Runs[p].step = r /\ Runs[p].todo = {OnlyAuction}
  <2>1. Runs[p] = Busy(r)
    BY RunAt
  <2> QED
    BY <2>1 DEF Busy
<1>2. /\ Sweeping!First(Runs[p].todo) = OnlyAuction
      /\ Sweeping!Rest(p) = {} /\ Sweeping!LeftAfterError(p) = {}
  BY <1>1, TurnIs
<1>3. Sweeping!RowFree(OnlyAuction) /\ Only(status)[OnlyAuction] = status
  BY OnlyExcept DEF RowFree, Sweeping!RowFree
<1>4. \A to : Sweeping!Transition(OnlyAuction, to) <=> Moved(OnlyAuction, to)
  BY DEF Sweeping!Transition, Only
<1>5. /\ After(p, "starting", {}) = Free /\ After(p, "closing", {}) = Free
      /\ Runs' = [Runs EXCEPT ![p] = Free]
  BY AfterIs
<1> HIDE DEF p
<1>6. ASSUME r = "starting",
             \/ Sweeping!Transition(OnlyAuction, "LIVE")
             \/ ~Sweeping!LC!CanMove(status, "LIVE") /\ UNCHANGED Only(status)
      PROVE  Sweeping!StartNext(p)
  <2>1. Sweeping!StartNext(p) <=>
          /\ Runs[p].step = "starting"
          /\ LET a == Sweeping!First(Runs[p].todo)
             IN  /\ Sweeping!RowFree(a)
                 /\ \/ /\ Moved(a, "LIVE")
                       /\ Runs' = [Runs EXCEPT ![p] = After(p, "starting", Sweeping!Rest(p))]
                    \/ /\ ~Sweeping!LC!CanMove(Only(status)[a], "LIVE")
                       /\ Runs' = [Runs EXCEPT ![p] =
                                     After(p, "starting", Sweeping!LeftAfterError(p))]
                       /\ UNCHANGED Only(status)
          /\ UNCHANGED <<Only(Phase), Held>>
    BY DEF Sweeping!StartNext, Sweeping!Transition, Sweeping!SetRun, Sweeping!Idle,
           Only, Held, Runs, Busy, Free, After
  <2> QED
    BY <1>1, <1>2, <1>3, <1>4, <1>5, <1>6, <2>1
<1>7. ASSUME r = "closing",
             \/ status = "LIVE" /\ Sweeping!Transition(OnlyAuction, "CLOSED")
             \/ status # "LIVE" /\ UNCHANGED Only(status)
      PROVE  Sweeping!CloseNext(p)
  <2>1. Sweeping!CloseNext(p) <=>
          /\ Runs[p].step = "closing"
          /\ LET a == Sweeping!First(Runs[p].todo)
             IN  /\ Sweeping!RowFree(a)
                 /\ \/ /\ Only(status)[a] = "LIVE"
                       /\ Moved(a, "CLOSED")
                       /\ Runs' = [Runs EXCEPT ![p] = After(p, "closing", Sweeping!Rest(p))]
                    \/ /\ Only(status)[a] # "LIVE"
                       /\ Runs' = [Runs EXCEPT ![p] =
                                     After(p, "closing", Sweeping!LeftAfterError(p))]
                       /\ UNCHANGED Only(status)
          /\ UNCHANGED <<Only(Phase), Held>>
    BY DEF Sweeping!CloseNext, Sweeping!Transition, Sweeping!SetRun, Sweeping!Idle,
           Only, Held, Runs, Busy, Free, After
  <2> QED
    BY <1>1, <1>2, <1>3, <1>4, <1>5, <1>7, <2>1
<1> QED
  BY <1>6, <1>7 DEF p

(* The row lock and the table are the same in both. *)
LEMMA TransitionShown ==
  ASSUME NEW to, Transition(to)
  PROVE  Sweeping!Transition(OnlyAuction, to)
<1>1. Sweeping!RowFree(OnlyAuction)
  BY DEF Transition, RowFree, Sweeping!RowFree
<1>2. Sweeping!LC!CanMove(Only(status)[OnlyAuction], to)
  BY OnlyExcept DEF Transition, LC!CanMove, Sweeping!LC!CanMove,
     LC!AllowedTransitions, Sweeping!LC!AllowedTransitions, LC!Status, Sweeping!LC!Status
<1>3. Only(status)' = [Only(status) EXCEPT ![OnlyAuction] = to]
  BY OnlyExcept DEF Transition, Only
<1> QED
  BY <1>1, <1>2, <1>3 DEF Sweeping!Transition, Only

(* A query that finds the auction is the query of one run. *)
LEMMA QueriesShown ==
  ASSUME TypeOK, ScheduleOrder, NEW w \in Workers,
         SelectScheduled(w) \/ SelectEnded(w)
  PROVE  \/ Sweeping!BeginStarting(<<w, "starting">>)
         \/ Sweeping!BeginClosing(<<w, "closing">>)
<1>1. UNCHANGED <<Only(status), Only(Phase), Held>>
  BY DEF SelectScheduled, SelectEnded, row, Only, Phase, Held
<1>2. CASE SelectScheduled(w)
  <2>1. Runs' = [Runs EXCEPT ![<<w, "starting">>] = Busy("starting")]
    BY <1>2, RunTurn DEF SelectScheduled, Selected, Roles
  <2>2. Runs[<<w, "starting">>] = Free
    BY <1>2, RunAt DEF SelectScheduled, Selected, Roles
  <2>3. Sweeping!DueAuctions = {OnlyAuction}
    BY <1>2, QueriesAre, PhaseIs, BoundAssumption DEF SelectScheduled, TypeOK, Time
  <2> QED
    BY <1>1, <2>1, <2>2, <2>3, QueryStep
<1>3. CASE SelectEnded(w)
  <2>1. Runs' = [Runs EXCEPT ![<<w, "closing">>] = Busy("closing")]
    BY <1>3, RunTurn DEF SelectEnded, Selected, Roles
  <2>2. Runs[<<w, "closing">>] = Free
    BY <1>3, RunAt DEF SelectEnded, Selected, Roles
  <2>3. Sweeping!OverdueAuctions = {OnlyAuction}
    BY <1>3, QueriesAre, PhaseIs, BoundAssumption DEF SelectEnded, TypeOK, Time
  <2> QED
    BY <1>1, <2>1, <2>2, <2>3, QueryStep
<1> QED
  BY <1>2, <1>3

(* Acting on the auction is the turn of one run, which it ends. *)
LEMMA TurnsShown ==
  ASSUME NEW w \in Workers, ActivateSelected(w) \/ CloseSelected(w)
  PROVE  Sweeping!Work(<<w, "starting">>) \/ Sweeping!Work(<<w, "closing">>)
<1>1. RowFree /\ UNCHANGED <<Only(Phase), Held>>
  BY DEF ActivateSelected, CloseSelected, CloseAuction, row, Only, Phase, Held
<1>2. CASE ActivateSelected(w)
  <2>1. "starting" \in Roles /\ Selected(w, "starting")
    BY <1>2 DEF ActivateSelected, Roles, Selected
  <2>2. Runs' = [Runs EXCEPT ![<<w, "starting">>] = Free]
    BY <1>2, RunTurn DEF ActivateSelected, Selected, Roles
  <2>3. \/ Sweeping!Transition(OnlyAuction, "LIVE")
        \/ ~Sweeping!LC!CanMove(status, "LIVE") /\ UNCHANGED Only(status)
    <3>1. CASE Transition("LIVE")
      BY <3>1, TransitionShown
    <3>2. CASE ~LC!CanMove(status, "LIVE") /\ UNCHANGED status
      BY <3>2 DEF Only, LC!CanMove, Sweeping!LC!CanMove,
         LC!AllowedTransitions, Sweeping!LC!AllowedTransitions, LC!Status, Sweeping!LC!Status
    <3> QED
      BY <1>2, <3>1, <3>2 DEF ActivateSelected
  <2> QED
    BY <1>1, <2>1, <2>2, <2>3, TurnStep DEF Sweeping!Work
<1>3. CASE CloseSelected(w)
  <2>1. "closing" \in Roles /\ Selected(w, "closing")
    BY <1>3 DEF CloseSelected, Roles, Selected
  <2>2. Runs' = [Runs EXCEPT ![<<w, "closing">>] = Free]
    BY <1>3, RunTurn DEF CloseSelected, Selected, Roles
  <2>3. \/ status = "LIVE" /\ Sweeping!Transition(OnlyAuction, "CLOSED")
        \/ status # "LIVE" /\ UNCHANGED Only(status)
    <3>1. CASE CloseAuction
      <4>1. status = "LIVE" /\ Transition("CLOSED")
        BY <3>1 DEF CloseAuction, Transition, LC!CanMove, LC!AllowedTransitions, LC!Status
      <4> QED
        BY <4>1, TransitionShown
    <3>2. CASE status # "LIVE" /\ UNCHANGED row
      BY <3>2 DEF row, Only
    <3> QED
      BY <1>3, <3>1, <3>2 DEF CloseSelected
  <2> QED
    BY <1>1, <2>1, <2>2, <2>3, TurnStep DEF Sweeping!Work
<1> QED
  BY <1>2, <1>3

(* The lock of a bid, and the passing of time. *)
LEMMA BidsShown ==
  ASSUME TypeOK, TxStillValid, ScheduleOrder
  PROVE  /\ \A b \in Bidders, amount \in Amounts :
              BeginBid(b, amount) => Sweeping!BeginBid(OnlyAuction)
         /\ CommitBid \/ AbortBid => Sweeping!EndBid(OnlyAuction)
<1> USE DEF row, sweeps
<1>1. ASSUME NEW b \in Bidders, NEW amount \in Amounts, BeginBid(b, amount)
      PROVE  Sweeping!BeginBid(OnlyAuction)
  <2>1. UNCHANGED <<Only(status), Only(Phase), Runs>>
    BY <1>1 DEF BeginBid, Only, Phase, Runs, Selected
  <2>2. /\ Only(status)[OnlyAuction] = "LIVE" /\ Only(Phase)[OnlyAuction] = "during"
        /\ Held = {} /\ Held' = {OnlyAuction}
    <3>1. status = "LIVE" /\ Phase = "during" /\ bidTx = NoTx
      BY <1>1, PhaseIs DEF BeginBid, OpenForBidding, RowFree
    <3>2. bidTx' # NoTx
      BY <1>1, UserAssumption DEF BeginBid, NoTx
    <3> QED
      BY <3>1, <3>2, OnlyExcept DEF Held
  <2> QED
    BY <2>1, <2>2
    DEF Sweeping!BeginBid, Sweeping!RowFree, Only, Held, Runs, Busy, Free
<1>2. ASSUME CommitBid \/ AbortBid
      PROVE  Sweeping!EndBid(OnlyAuction)
  <2>1. UNCHANGED <<Only(status), Runs>>
    BY <1>2 DEF CommitBid, AbortBid, Only, Runs, Selected
  <2>2. Held = {OnlyAuction} /\ Held' = {}
    BY <1>2 DEF CommitBid, AbortBid, Held
  <2>3. \/ /\ Only(Phase)[OnlyAuction] = "after"
           /\ Only(Phase)' = [Only(Phase) EXCEPT ![OnlyAuction] = "during"]
        \/ UNCHANGED Only(Phase)
    <3>1. \/ Phase = "after" /\ Phase' = "during"
          \/ UNCHANGED Phase
      <4>0. startTime \in Nat /\ endTime \in Nat /\ now \in Nat /\ UNCHANGED <<now, startTime>>
        BY <1>2, BoundAssumption DEF CommitBid, AbortBid, TypeOK, Time
      <4>1. CASE CommitBid
        <5>1. bidTx.at \in Nat /\ Window \in Nat
          BY <4>1, TermsAssumption, BoundAssumption DEF CommitBid, TypeOK, Time
        <5>2. endTime' \in Nat /\ endTime' >= endTime /\ startTime <= now
          BY <4>0, <4>1, <5>1 DEF CommitBid, ExtendedEnd, TxStillValid
        <5> QED
          BY <4>0, <5>2 DEF Phase
      <4>2. CASE AbortBid
        BY <4>2 DEF AbortBid, Phase
      <4> QED
        BY <1>2, <4>1, <4>2
    <3> QED
      BY <3>1, OnlyExcept DEF Only
  <2> QED
    BY <2>1, <2>2, <2>3
    DEF Sweeping!EndBid, Sweeping!SetClock, Only, Held, Runs, Busy, Free
<1> QED
  BY <1>1, <1>2

LEMMA TickShown ==
  ASSUME TypeOK, ScheduleOrder, Tick
  PROVE  Sweeping!Tick(OnlyAuction) \/ UNCHANGED Shown
<1> USE DEF row, sweeps
<1>1. UNCHANGED <<Only(status), Held, Runs>>
  BY DEF Tick, Only, Held, Runs, Selected
<1>2. CASE UNCHANGED Phase
  BY <1>1, <1>2 DEF Shown, Only
<1>3. CASE Phase' # Phase
  <2>1. \/ Phase = "before" /\ Phase' = "during"
        \/ Phase = "during" /\ Phase' = "after"
    BY <1>3, BoundAssumption DEF Tick, TypeOK, Time, ScheduleOrder, Phase
  <2>2. \/ /\ Only(Phase)[OnlyAuction] = "before"
           /\ Only(Phase)' = [Only(Phase) EXCEPT ![OnlyAuction] = "during"]
        \/ /\ Only(Phase)[OnlyAuction] = "during"
           /\ Only(Phase)' = [Only(Phase) EXCEPT ![OnlyAuction] = "after"]
    BY <2>1, OnlyExcept DEF Only
  <2> QED
    BY <1>1, <2>2 DEF Sweeping!Tick, Sweeping!SetClock, Only, Held, Runs, Busy, Free
<1> QED
  BY <1>2, <1>3

(* A staff control is that control there, or does not show. *)
LEMMA StaffShown ==
  ASSUME TypeOK, ScheduleOrder, Staff
  PROVE  \/ Sweeping!Control(OnlyAuction) /\ UNCHANGED <<Held, Runs>>
         \/ UNCHANGED Shown
<1> USE DEF row, sweeps
<1>0. UNCHANGED <<Held, Runs>>
  BY DEF Staff, StartNow, Pause, Resume, CancelAuction, EndNow, CloseAuction,
         Reschedule, Held, Runs, Selected
<1>1. startTime \in Nat /\ endTime \in Nat /\ now \in Nat
  BY BoundAssumption DEF TypeOK, Time
<1>2. Only(status)[OnlyAuction] = status /\ Only(Phase)[OnlyAuction] = Phase
  BY OnlyExcept
<1>3. ASSUME UNCHANGED <<now, startTime, endTime>>
      PROVE  UNCHANGED Only(Phase)
  BY <1>3 DEF Only, Phase
<1>4. CASE StartNow
  <2>1. Phase # "after" /\ Phase' = "during"
    BY <1>1, <1>4 DEF StartNow, ScheduleOrder, Phase
  <2>2. Only(Phase)' = [Only(Phase) EXCEPT ![OnlyAuction] = "during"]
    BY <2>1, OnlyExcept DEF Only
  <2>3. status = "SCHEDULED" /\ Sweeping!Transition(OnlyAuction, "LIVE")
    BY <1>4, TransitionShown DEF StartNow
  <2>4. Sweeping!StartNow(OnlyAuction)
    BY <1>2, <2>1, <2>2, <2>3 DEF Sweeping!StartNow, Sweeping!SetClock, Only
  <2> QED
    BY <1>0, <2>4 DEF Sweeping!Control
<1>5. CASE Pause
  <2>1. Sweeping!Transition(OnlyAuction, "PAUSED") /\ UNCHANGED Only(Phase)
    BY <1>3, <1>5, TransitionShown DEF Pause
  <2> QED
    BY <1>0, <2>1 DEF Sweeping!Control, Sweeping!Pause, Only
<1>6. CASE Resume
  <2>1. Sweeping!Transition(OnlyAuction, "LIVE") /\ UNCHANGED Only(Phase)
    BY <1>3, <1>6, TransitionShown DEF Resume
  <2>2. status = "PAUSED" /\ Phase # "after"
    BY <1>1, <1>6 DEF Resume, ScheduleOrder, Phase
  <2>3. Sweeping!Resume(OnlyAuction)
    BY <1>2, <2>1, <2>2 DEF Sweeping!Resume, Only
  <2> QED
    BY <1>0, <2>3 DEF Sweeping!Control
<1>7. CASE CancelAuction
  <2>1. Sweeping!Transition(OnlyAuction, "CANCELLED") /\ UNCHANGED Only(Phase)
    BY <1>3, <1>7, TransitionShown DEF CancelAuction
  <2>2. Sweeping!Cancel(OnlyAuction)
    BY <1>2, <1>7, <2>1 DEF CancelAuction, Sweeping!Cancel, Only
  <2> QED
    BY <1>0, <2>2 DEF Sweeping!Control
<1>8. CASE EndNow
  <2>1. status = "LIVE" /\ Transition("CLOSED")
    BY <1>8 DEF EndNow, CloseAuction, Transition, LC!CanMove, LC!AllowedTransitions, LC!Status
  <2>2. Sweeping!Transition(OnlyAuction, "CLOSED") /\ UNCHANGED Only(Phase)
    BY <1>3, <1>8, <2>1, TransitionShown DEF EndNow, CloseAuction
  <2>3. Sweeping!EndNow(OnlyAuction)
    BY <1>2, <2>1, <2>2 DEF Sweeping!EndNow, Only
  <2> QED
    BY <1>0, <2>3 DEF Sweeping!Control
<1>9. ASSUME NEW newStart \in Time, NEW newEnd \in Time \cup {endTime},
             NEW givesStart \in BOOLEAN, NEW givesEnd \in BOOLEAN,
             Reschedule(newStart, newEnd, givesStart, givesEnd)
      PROVE  \/ Sweeping!Control(OnlyAuction) /\ UNCHANGED <<Held, Runs>>
             \/ UNCHANGED Shown
  <2>1. RowFree /\ UNCHANGED Only(status)
    BY <1>9 DEF Reschedule, Only
  <2>2. Sweeping!RowFree(OnlyAuction)
    BY <2>1 DEF RowFree, Sweeping!RowFree
  <2>3. \/ status = "SCHEDULED" /\ Phase' = "before"
        \/ Phase = "after" /\ Phase' = "during"
        \/ UNCHANGED Phase
    <3>1. /\ UNCHANGED now
          /\ startTime' \in Nat /\ endTime' \in Nat /\ startTime' < endTime' /\ endTime' > now
          /\ \/ status = "SCHEDULED" /\ startTime' > now
             \/ startTime' = startTime
      BY <1>1, <1>9, BoundAssumption DEF Reschedule, Time
    <3> QED
      BY <1>1, <3>1 DEF ScheduleOrder, Phase
  <2>4. CASE UNCHANGED Phase
    BY <1>0, <2>1, <2>4 DEF Shown, Only
  <2>5. ASSUME \/ status = "SCHEDULED" /\ Phase' = "before"
               \/ Phase = "after" /\ Phase' = "during"
        PROVE  Sweeping!Reschedule(OnlyAuction)
    <3>1. \/ /\ Only(status)[OnlyAuction] = "SCHEDULED"
             /\ Only(Phase)' = [Only(Phase) EXCEPT ![OnlyAuction] = "before"]
          \/ /\ Only(Phase)[OnlyAuction] = "after"
             /\ Only(Phase)' = [Only(Phase) EXCEPT ![OnlyAuction] = "during"]
      BY <2>5, OnlyExcept DEF Only
    <3>2. Only(status)[OnlyAuction] \in {"SCHEDULED", "LIVE", "PAUSED"}
      BY <1>2, <1>9 DEF Reschedule
    <3> QED
      BY <2>1, <2>2, <3>1, <3>2 DEF Sweeping!Reschedule, Sweeping!SetClock, Only
  <2> QED
    BY <1>0, <2>3, <2>4, <2>5 DEF Sweeping!Control
<1> QED
  BY <1>4, <1>5, <1>6, <1>7, <1>8, <1>9 DEF Staff

(***************************************************************************)
(* Every step of the engine is a step of Sweeper or does not show in it.   *)
(***************************************************************************)
LEMMA StepShown ==
  ASSUME TypeOK, TxStillValid, ScheduleOrder, [Next]_vars
  PROVE  ShownStep \/ UNCHANGED Shown
<1>0. OnlyAuction \in Sweeping!Auctions
  BY OneAuction
<1>1. CASE Tick
  BY <1>0, <1>1, TickShown DEF ShownStep, Sweeping!Step
<1>2. CASE Bidding
  <2>1. CASE (\E b \in Bidders, amount \in Amounts : BeginBid(b, amount)) \/ CommitBid \/ AbortBid
    BY <1>0, <2>1, BidsShown DEF ShownStep, Sweeping!Step
  <2>2. CASE (\E i \in DOMAIN bids : InvalidateBid(i)) \/ (\E b \in Bidders : SetEligible(b))
    BY <2>2 DEF InvalidateBid, SetEligible, row, sweeps, Shown, Only, Phase, Held,
                Runs, Selected
  <2> QED
    BY <1>2, <2>1, <2>2 DEF Bidding
<1>3. ASSUME NEW w \in Workers, Sweep(w)
      PROVE  ShownStep
  <2>1. /\ <<w, "starting">> \in Workers \X {"starting"}
        /\ <<w, "closing">> \in Workers \X {"closing"}
    OBVIOUS
  <2>2. CASE SelectScheduled(w) \/ SelectEnded(w)
    BY <2>1, <2>2, QueriesShown DEF ShownStep, Sweeping!Step
  <2>3. CASE ActivateSelected(w) \/ CloseSelected(w)
    BY <2>1, <2>3, TurnsShown DEF ShownStep, Sweeping!Step, Sweeping!Processes, Sweeping!Commands
  <2> QED
    BY <1>3, <2>2, <2>3 DEF Sweep
<1>4. CASE Staff
  BY <1>0, <1>4, StaffShown DEF ShownStep
<1>5. CASE UNCHANGED vars
  BY <1>5 DEF vars, row, sweeps, Shown, Only, Phase, Held, Runs, Selected
<1> QED
  BY <1>1, <1>2, <1>3, <1>4, <1>5 DEF Next

(***************************************************************************)
(* The engine, with its bids, clocks read at different moments and         *)
(* extensions, is one auction of Sweeper: what holds there of statuses,    *)
(* bids in progress and runs holds of engines.                             *)
(***************************************************************************)
THEOREM SweeperRefinement == Spec => RefinesSweeper
<1>1. Init => Sweeping!Init
  BY OneAuction DEF Init, Sweeping!Init, Sweeping!Processes, Sweeping!Commands, Sweeping!Idle,
                    Roles, Selected, Phase
<1>2. TypeOK /\ BiddingInv /\ ScheduleOrder /\ [Next]_vars => [ShownStep]_Shown
  BY StepShown DEF BiddingInv
<1> QED
  BY <1>1, <1>2, TypeCorrect, BiddingCorrect, ScheduleCorrect, PTL
  DEF Spec, RefinesSweeper, Sweeping!UncountedSpec, ShownStep, Shown, Only, Held, Runs, Busy, Free
=============================================================================
