-------------------------- MODULE AscendingAuction --------------------------
(***************************************************************************)
(* What the bidding engine promises to the people in an auction, with no   *)
(* clock, lock, cache or sweep in it: an open-outcry ascending auction.    *)
(* The offers that stand are a set; an offer is taken only while bidding   *)
(* is open and only if it beats every standing offer by the increment;     *)
(* staff may strike an offer; the hammer falls once, for the best offer    *)
(* standing at that moment if it meets the reserve.                        *)
(***************************************************************************)
EXTENDS Integers

CONSTANTS Bidders, NoUser, StartingPrice, MinIncrement, Reserve, MaxBidAmount

VARIABLES
  phase,    \* "waiting", "open", "sold", "unsold" or "void"
  offers,   \* standing offers, [bidder, amount]
  buyer,
  price

abstractVars == <<phase, offers, buyer, price>>

Offer == [bidder : Bidders, amount : 1 .. MaxBidAmount - 1]

Beats(amount, standing) ==
  /\ amount >= StartingPrice
  /\ \A o \in standing : amount >= o.amount + MinIncrement

IsBestOffer(o) == o \in offers /\ \A p \in offers : p.amount <= o.amount

Init == phase = "waiting" /\ offers = {} /\ buyer = NoUser /\ price = 0

(* The doors open and close; an auction may also be withdrawn. *)
SetPhase ==
  /\ \/ phase = "waiting" /\ phase' \in {"open", "void"}
     \/ phase = "open" /\ phase' \in {"waiting", "void"}
  /\ UNCHANGED <<offers, buyer, price>>

MakeOffer(o) ==
  /\ phase = "open"
  /\ Beats(o.amount, offers)
  /\ offers' = offers \cup {o}
  /\ UNCHANGED <<phase, buyer, price>>

(* Striking an offer never reopens or rewrites a sale. *)
StrikeOffer(o) ==
  /\ offers' = offers \ {o}
  /\ UNCHANGED <<phase, buyer, price>>

Sell(o) ==
  /\ phase = "open"
  /\ IsBestOffer(o)
  /\ o.amount >= Reserve
  /\ phase' = "sold" /\ buyer' = o.bidder /\ price' = o.amount
  /\ UNCHANGED offers

FailToSell ==
  /\ phase = "open"
  /\ \A o \in offers : o.amount < Reserve
  /\ phase' = "unsold"
  /\ UNCHANGED <<offers, buyer, price>>

Next ==
  \/ SetPhase
  \/ \E o \in Offer : MakeOffer(o) \/ Sell(o)
  \/ \E o \in offers : StrikeOffer(o)
  \/ FailToSell

Spec == Init /\ [][Next]_abstractVars
=============================================================================
