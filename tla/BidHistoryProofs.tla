-------------------------- MODULE BidHistoryProofs --------------------------
(* Theorems about BidHistory, for every number of bidders and bids. *)
EXTENDS BidHistory, AuctionEngineProofs

(***************************************************************************)
(* The bidders who have a label when bid i is labelled.                    *)
(***************************************************************************)
Labelled(bs, i) == {bs[j].bidder : j \in Before(bs, i)}

LEMMA LabelledFinite ==
  ASSUME NEW bs \in Seq(BidRow), NEW i \in DOMAIN bs
  PROVE  IsFiniteSet(Labelled(bs, i)) /\ Letter(bs, i) = Cardinality(Labelled(bs, i))
<1>1. Labelled(bs, i) \in SUBSET Bidders
  BY RowTypes DEF Labelled, Before
<1> QED
  BY <1>1, FiniteAssumption, FS_Subset DEF Labelled, Letter

(***************************************************************************)
(* Of two bidders, the one whose bid m came first has the smaller letter.  *)
(***************************************************************************)
LEMMA FirstSeen ==
  ASSUME NEW bs \in Seq(BidRow),
         NEW i \in DOMAIN bs, NEW j \in DOMAIN bs, NEW m \in DOMAIN bs,
         bs[m].bidder = bs[i].bidder, bs[j].bidder # bs[i].bidder,
         \A k \in DOMAIN bs :
           bs[k].bidder \in {bs[i].bidder, bs[j].bidder} => m <= k
  PROVE  Letter(bs, i) # Letter(bs, j)
<1>1. DOMAIN bs = 1 .. Len(bs) /\ Len(bs) \in Nat
  OBVIOUS
<1>2. Before(bs, i) \subseteq Before(bs, j)
  <2> SUFFICES ASSUME NEW n \in Before(bs, i)
               PROVE  n \in Before(bs, j)
    OBVIOUS
  <2>1. n \in DOMAIN bs /\ n < m
    BY <1>1 DEF Before
  <2>2. \A k \in 1 .. n : bs[k].bidder # bs[j].bidder
    BY <1>1, <2>1
  <2> QED
    BY <2>1, <2>2 DEF Before
<1>3. m \in Before(bs, j)
  <2>1. \A k \in 1 .. m : bs[k].bidder # bs[j].bidder
    <3>1. ASSUME NEW k \in 1 .. m
          PROVE  k = m \/ (k \in DOMAIN bs /\ ~(m <= k))
      BY <1>1
    <3> QED
      BY <3>1
  <2> QED
    BY <2>1 DEF Before
<1>4. bs[i].bidder \notin Labelled(bs, i)
  <2>1. \A n \in Before(bs, i) : n \in 1 .. n
    BY <1>1 DEF Before
  <2> QED
    BY <2>1 DEF Labelled, Before
<1>5. /\ Labelled(bs, i) \in SUBSET Labelled(bs, j)
      /\ bs[i].bidder \in Labelled(bs, j)
  BY <1>2, <1>3 DEF Labelled
<1>6. Cardinality(Labelled(bs, i)) # Cardinality(Labelled(bs, j))
  BY <1>4, <1>5, LabelledFinite, FS_Subset
<1> QED
  BY <1>6, LabelledFinite

(***************************************************************************)
(* A letter stands for one bidder, and a bidder for one letter.            *)
(***************************************************************************)
LEMMA LettersTellApart ==
  ASSUME NEW bs \in Seq(BidRow), NEW i \in DOMAIN bs, NEW j \in DOMAIN bs
  PROVE  Letter(bs, i) = Letter(bs, j) <=> bs[i].bidder = bs[j].bidder
<1>1. ASSUME bs[i].bidder = bs[j].bidder
      PROVE  Letter(bs, i) = Letter(bs, j)
  BY <1>1 DEF Letter, Before
<1>2. ASSUME bs[i].bidder # bs[j].bidder
      PROVE  Letter(bs, i) # Letter(bs, j)
  <2> DEFINE T == {k \in DOMAIN bs : bs[k].bidder \in {bs[i].bidder, bs[j].bidder}}
  <2>1. T \in SUBSET Nat /\ T # {}
    OBVIOUS
  <2>2. PICK m \in T : \A k \in T : m <= k
    BY <2>1, LeastNatural
  <2>3. CASE bs[m].bidder = bs[i].bidder
    BY <1>2, <2>2, <2>3, FirstSeen
  <2>4. CASE bs[m].bidder = bs[j].bidder
    BY <1>2, <2>2, <2>4, FirstSeen
  <2> QED
    BY <2>2, <2>3, <2>4
<1> QED
  BY <1>1, <1>2

(***************************************************************************)
(* On every page, a label stands for one bidder: whatever the bids, and    *)
(* whoever looks.                                                          *)
(***************************************************************************)
THEOREM LabelsCorrect == Spec => []LabelsTellApart
<1>1. TypeOK => LabelsTellApart
  <2> SUFFICES ASSUME TypeOK, NEW viewer \in Viewers,
                      NEW i \in DOMAIN bids, NEW j \in DOMAIN bids
               PROVE  Label(bids, viewer, FALSE, i) = Label(bids, viewer, FALSE, j)
                        <=> bids[i].bidder = bids[j].bidder
    BY DEF LabelsTellApart
  <2>1. Letter(bids, i) = Letter(bids, j) <=> bids[i].bidder = bids[j].bidder
    BY LettersTellApart DEF TypeOK
  <2>2. \A n : <<"Bidder", n>> # <<"You">>
    OBVIOUS
  <2>3. \A n, k : <<"Bidder", n>> = <<"Bidder", k>> <=> n = k
    OBVIOUS
  <2>4. \A k \in DOMAIN bids :
          Label(bids, viewer, FALSE, k) =
            IF viewer = bids[k].bidder THEN <<"You">>
                                       ELSE <<"Bidder", Letter(bids, k)>>
    BY DEF Label
  <2>5. ASSUME NEW k \in DOMAIN bids, viewer = bids[k].bidder
        PROVE  Label(bids, viewer, FALSE, k) = <<"You">>
    BY <2>4, <2>5
  <2>6. ASSUME NEW k \in DOMAIN bids, viewer # bids[k].bidder
        PROVE  Label(bids, viewer, FALSE, k) = <<"Bidder", Letter(bids, k)>>
    BY <2>4, <2>6
  <2>7. CASE viewer = bids[i].bidder /\ viewer = bids[j].bidder
    BY <2>5, <2>7
  <2>8. CASE viewer = bids[i].bidder /\ viewer # bids[j].bidder
    BY <2>2, <2>5, <2>6, <2>8
  <2>9. CASE viewer # bids[i].bidder /\ viewer = bids[j].bidder
    BY <2>2, <2>5, <2>6, <2>9
  <2>10. CASE viewer # bids[i].bidder /\ viewer # bids[j].bidder
    BY <2>1, <2>3, <2>6, <2>10
  <2> QED
    BY <2>7, <2>8, <2>9, <2>10
<1> QED
  BY <1>1, TypeCorrect, PTL DEF Spec

----------------------------------------------------------------------------
(***************************************************************************)
(* A sequence of bids that has the same bidders where bs has some.         *)
(***************************************************************************)
LEMMA LettersStay ==
  ASSUME NEW bs \in Seq(BidRow), NEW cs \in Seq(BidRow), Len(bs) <= Len(cs),
         \A k \in DOMAIN bs : cs[k].bidder = bs[k].bidder,
         NEW i \in DOMAIN bs
  PROVE  Letter(cs, i) = Letter(bs, i)
<1>1. /\ DOMAIN bs = 1 .. Len(bs) /\ Len(bs) \in Nat
      /\ DOMAIN cs = 1 .. Len(cs) /\ Len(cs) \in Nat
  OBVIOUS
<1>2. Before(cs, i) = Before(bs, i)
  <2>1. \A n \in Before(cs, i) : n < i
    BY <1>1 DEF Before
  <2> QED
    BY <1>1, <2>1 DEF Before
<1>3. \A n \in Before(bs, i) : cs[n].bidder = bs[n].bidder
  BY DEF Before
<1>4. {cs[n].bidder : n \in Before(cs, i)} = {bs[n].bidder : n \in Before(bs, i)}
  BY <1>2, <1>3
<1> QED
  BY <1>4 DEF Letter

(***************************************************************************)
(* No step takes a bid away, and none changes a bid but for its status.    *)
(***************************************************************************)
LEMMA RowsStay ==
  ASSUME TypeOK, [Next]_vars
  PROVE  /\ Len(bids) <= Len(bids')
         /\ \A k \in DOMAIN bids : /\ bids'[k].bidder = bids[k].bidder
                                   /\ bids'[k].amount = bids[k].amount
<1>1. CASE CommitBid
  BY <1>1 DEF CommitBid, TypeOK
<1>2. ASSUME NEW i \in DOMAIN bids, InvalidateBid(i)
      PROVE  /\ Len(bids) <= Len(bids')
             /\ \A k \in DOMAIN bids : /\ bids'[k].bidder = bids[k].bidder
                                       /\ bids'[k].amount = bids[k].amount
  BY <1>2, InvalidateKeepsRows DEF InvalidateBid, TypeOK
<1>3. CASE UNCHANGED <<bids, currentHighest, notified>>
  BY <1>3 DEF TypeOK
<1> QED
  BY <1>1, <1>2, <1>3, BidWriters

(***************************************************************************)
(* Rows stay on the page, under their labels.                              *)
(***************************************************************************)
THEOREM HistoryCorrect == Spec => HistoryOnlyGrows
<1> DEFINE Grows ==
      bids' # bids => \A viewer \in Viewers : \A i \in DOMAIN bids :
        /\ i \in DOMAIN bids'
        /\ SameRow(History(bids', viewer, FALSE)[i], History(bids, viewer, FALSE)[i])
<1>1. ASSUME TypeOK, TypeOK', [Next]_vars, NEW viewer \in Viewers,
             NEW i \in DOMAIN bids
      PROVE  /\ i \in DOMAIN bids'
             /\ SameRow(History(bids', viewer, FALSE)[i],
                        History(bids, viewer, FALSE)[i])
  <2>1. /\ bids \in Seq(BidRow) /\ bids' \in Seq(BidRow)
        /\ Len(bids) <= Len(bids')
        /\ \A k \in DOMAIN bids : /\ bids'[k].bidder = bids[k].bidder
                                  /\ bids'[k].amount = bids[k].amount
    BY <1>1, RowsStay DEF TypeOK
  <2>2. i \in DOMAIN bids'
    BY <1>1, <2>1
  <2>3. Letter(bids', i) = Letter(bids, i)
    BY <1>1, <2>1, LettersStay
  <2>4. Label(bids', viewer, FALSE, i) = Label(bids, viewer, FALSE, i)
    BY <1>1, <2>1, <2>3 DEF Label
  <2>5. ASSUME NEW bs, i \in DOMAIN bs
        PROVE  /\ History(bs, viewer, FALSE)[i].label = Label(bs, viewer, FALSE, i)
               /\ History(bs, viewer, FALSE)[i].amount = bs[i].amount
    BY <2>5 DEF History
  <2> QED
    BY <1>1, <2>1, <2>2, <2>4, <2>5 DEF SameRow
<1>2. TypeOK /\ TypeOK' /\ [Next]_vars => [Grows]_vars
  BY <1>1
<1> QED
  BY <1>2, TypeCorrect, PTL DEF Spec, HistoryOnlyGrows
=============================================================================
