----------------------------- MODULE BidHistory -----------------------------
(***************************************************************************)
(* The bid history of an auction page (get_bid_history): every bid, struck *)
(* ones included, under a label that hides who made it from everyone but   *)
(* staff and the bidder.  Labels are handed out anew for every page, by    *)
(* walking the bids; nothing is stored, so it is the algorithm that makes  *)
(* one page agree with the next.                                           *)
(***************************************************************************)
EXTENDS AuctionEngine, FiniteSets

ASSUME FiniteAssumption == IsFiniteSet(Bidders)

(* The bids before the first one of the bidder of bid i. *)
Before(bs, i) ==
  {j \in DOMAIN bs : \A k \in 1 .. j : bs[k].bidder # bs[i].bidder}

(* chr(ord("A") + n): n bidders had a label when this one was first seen.  *)
(* Letter_Slip only counts those who still have an accepted bid.           *)
Letter_Slip(bs, i) ==
  Cardinality({bs[j].bidder : j \in Before(bs, i) \cap Accepted(bs)})

Letter(bs, i) == Cardinality({bs[j].bidder : j \in Before(bs, i)})

Label(bs, viewer, isStaff, i) ==
  CASE isStaff -> <<"name", bs[i].bidder>>
    [] ~isStaff /\ viewer = bs[i].bidder -> <<"You">>
    [] OTHER -> <<"Bidder", Letter(bs, i)>>

History(bs, viewer, isStaff) ==
  [i \in DOMAIN bs |-> [label  |-> Label(bs, viewer, isStaff, i),
                        amount |-> bs[i].amount,
                        status |-> bs[i].status,
                        isMine |-> viewer = bs[i].bidder]]

(* NoUser is a visitor who is not logged in. *)
Viewers == Bidders \cup {NoUser}

----------------------------------------------------------------------------
(* Two rows of a page carry the same label exactly when the same bidder    *)
(* made both bids, for every viewer: no bidder is taken for another, and   *)
(* none for two.                                                           *)
LabelsTellApart ==
  \A viewer \in Viewers, i, j \in DOMAIN bids :
    Label(bids, viewer, FALSE, i) = Label(bids, viewer, FALSE, j)
      <=> bids[i].bidder = bids[j].bidder

SameRow(new, old) == new.label = old.label /\ new.amount = old.amount

(* A row that was on a page is on every later one, with the same label and *)
(* amount, whatever bids come and are struck in between: only its status   *)
(* may change.                                                             *)
HistoryOnlyGrows ==
  [][bids' # bids =>
       \A viewer \in Viewers : \A i \in DOMAIN bids :
         /\ i \in DOMAIN bids'
         /\ SameRow(History(bids', viewer, FALSE)[i], History(bids, viewer, FALSE)[i])
    ]_vars
=============================================================================
