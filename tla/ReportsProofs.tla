--------------------------- MODULE ReportsProofs ---------------------------
(* Theorems about Reports, for every value of its constants. *)
EXTENDS Reports, SettlementProofs

(***************************************************************************)
(* What the figures read so far still say of the tables: a sale that was   *)
(* counted is still one, and its payment has not moved past the rows that  *)
(* are yet to be read.                                                     *)
(***************************************************************************)
LastQueries == {"disputes", "active", "none"}

PageType == page \in [Queries -> Nat] /\ query \in Queries \cup {"none"}

SaleStands ==
  query \notin {"finished", "sold"} =>
    /\ page["sold"] \in {0, 1}
    /\ page["sold"] = 1 => status # "LIVE" /\ payment # "NONE"

SaleInRows ==
  page["sold"] = 1 =>
    /\ query = "PAID" =>
         page["PENDING"] >= 1 \/ payment \in {"PAID", "FAILED", "REFUNDED"}
    /\ query = "FAILED" =>
         page["PENDING"] + page["PAID"] >= 1 \/ payment \in {"FAILED", "REFUNDED"}
    /\ query = "REFUNDED" =>
         page["PENDING"] + page["PAID"] + page["FAILED"] >= 1 \/ payment = "REFUNDED"
    /\ query \in {"categories", "collected", "outstanding"} \cup LastQueries =>
         page["PENDING"] + page["PAID"] + page["FAILED"] + page["REFUNDED"] >= 1

SaleInCategories ==
  query \in {"collected", "outstanding"} \cup LastQueries =>
    page["sold"] <= page["categories"]

MoneyOnPage ==
  /\ query = "outstanding" =>
       /\ page["collected"] \in {0, 1}
       /\ page["collected"] = 1 => payment \notin {"NONE", "PENDING"}
  /\ query \in LastQueries => page["collected"] + page["outstanding"] <= 1

PageInv == PageType /\ SaleStands /\ SaleInCategories /\ MoneyOnPage

(* Settlement does not take back what the figures say, ...                 *)
LEMMA SettlementKeepsPage ==
  ASSUME DisputeInv, BegunInv, PageInv, [Next]_vars, UNCHANGED <<page, query>>
  PROVE  PageInv'
<1>1. StatusStep /\ BegunStep
  BY StatusSteps, BegunNext
<1>2. status # "LIVE" => status' # "LIVE"
  BY <1>1 DEF StatusStep
<1> QED
  BY <1>1, <1>2 DEF BegunStep, PageInv, PageType, SaleStands, SaleInCategories,
                    MoneyOnPage, LastQueries

(* ... and recorded one at a time, a payment only moves to later rows.     *)
LEMMA SettlementKeepsRows ==
  ASSUME DisputeInv, PaymentInv, SaleInRows, OneAtATime, [Next]_vars,
         UNCHANGED <<page, query>>
  PROVE  SaleInRows'
<1>1. PaymentStep
  BY PaymentNext
<1>2. /\ payment \in {"PAID", "FAILED", "REFUNDED"} =>
           payment' \in {"PAID", "FAILED", "REFUNDED"}
      /\ payment \in {"FAILED", "REFUNDED"} => payment' \in {"FAILED", "REFUNDED"}
      /\ payment = "REFUNDED" => payment' = "REFUNDED"
  BY <1>1 DEF PaymentStep
<1> QED
  BY <1>2 DEF SaleInRows, LastQueries

(* The next figure: it is a number, and agrees with the tables as they are. *)
LEMMA AskKeepsPage ==
  ASSUME DisputeInv, PageInv, Ask
  PROVE  PageInv' /\ (SaleInRows => SaleInRows')
<1> USE DEF PageInv
<1>1. /\ query \in Queries
      /\ page \in [Queries -> Nat]
      /\ page' = [page EXCEPT ![query] = Figure(query)]
      /\ query' = After(query)
      /\ UNCHANGED <<status, payment>>
  BY DEF Ask, PageType, vars
<1>2. /\ payment \in PaymentStatus /\ Len(disputes) \in Nat
      /\ status \in AuctionStatus
  BY DEF DisputeInv, TypeOK
<1>3. Figure(query) \in Nat
  BY <1>2 DEF Figure, Count
<1>4. /\ PageType'
      /\ page'[query] = Figure(query)
      /\ \A q \in Queries \ {query} : page'[q] = page[q]
  BY <1>1, <1>3 DEF PageType, After, Queries
<1>5. CASE query \in {"finished", "sold"}
  <2>1. \/ query = "finished" /\ query' = "sold"
        \/ /\ query = "sold" /\ query' = "PENDING"
           /\ page'["sold"] = Count(Finished /\ HasWinner)
    BY <1>1, <1>4, <1>5 DEF After, Figure, Queries
  <2> QED
    BY <1>1, <1>4, <2>1 DEF SaleStands, SaleInRows, SaleInCategories, MoneyOnPage,
                            LastQueries, Count, Finished, HasWinner
<1>6. CASE query \in {"PENDING", "PAID", "FAILED", "REFUNDED"}
  <2>1. /\ page'[query] = Count(payment = query)
        /\ page'["sold"] = page["sold"]
        /\ query = "PENDING" => query' = "PAID"
        /\ query = "PAID" => query' = "FAILED"
        /\ query = "FAILED" => query' = "REFUNDED"
        /\ query = "REFUNDED" => query' = "categories"
    BY <1>1, <1>4, <1>6 DEF After, Figure, Queries
  <2>2. SaleStands' /\ SaleInCategories' /\ MoneyOnPage'
    BY <1>1, <1>6, <2>1 DEF SaleStands, SaleInCategories, MoneyOnPage, LastQueries
  <2>3. SaleInRows => SaleInRows'
    <3> SUFFICES ASSUME SaleInRows, page["sold"] = 1
                 PROVE  SaleInRows'
      BY <2>1 DEF SaleInRows
    <3>1. payment # "NONE" /\ (page'[query] = 1 <=> payment = query)
      BY <1>6, <2>1 DEF SaleStands, Count
    <3>2. /\ page["PENDING"] \in Nat /\ page["PAID"] \in Nat
          /\ page["FAILED"] \in Nat /\ page["REFUNDED"] \in Nat
          /\ page'["PENDING"] \in Nat /\ page'["PAID"] \in Nat
          /\ page'["FAILED"] \in Nat /\ page'["REFUNDED"] \in Nat
      BY <1>1, <1>4 DEF PageType, Queries
    <3>3. CASE query = "PENDING"
      <4>1. query' = "PAID" /\ UNCHANGED payment
        BY <1>1, <2>1, <3>3
      <4>2. page'["PENDING"] >= 1 \/ payment' \in {"PAID", "FAILED", "REFUNDED"}
        BY <1>2, <3>1, <3>3, <4>1 DEF PaymentStatus
      <4> QED
        BY <4>1, <4>2 DEF SaleInRows, LastQueries
    <3>4. CASE query = "PAID"
      <4>1. /\ page'["PENDING"] = page["PENDING"]
            /\ query' = "FAILED" /\ UNCHANGED payment
        BY <1>1, <1>4, <2>1, <3>4 DEF Queries
      <4>2. \/ page["PENDING"] >= 1
            \/ payment \in {"FAILED", "REFUNDED"} \/ page'["PAID"] = 1
        BY <3>1, <3>4 DEF SaleInRows
      <4>3. \/ page'["PENDING"] + page'["PAID"] >= 1
            \/ payment' \in {"FAILED", "REFUNDED"}
        BY <3>2, <4>1, <4>2
      <4> QED
        BY <4>1, <4>3 DEF SaleInRows, LastQueries
    <3>5. CASE query = "FAILED"
      <4>1. /\ page'["PENDING"] = page["PENDING"] /\ page'["PAID"] = page["PAID"]
            /\ query' = "REFUNDED" /\ UNCHANGED payment
        BY <1>1, <1>4, <2>1, <3>5 DEF Queries
      <4>2. \/ page["PENDING"] + page["PAID"] >= 1
            \/ payment = "REFUNDED" \/ page'["FAILED"] = 1
        BY <3>1, <3>5 DEF SaleInRows
      <4>3. page'["PENDING"] + page'["PAID"] + page'["FAILED"] >= 1
              \/ payment' = "REFUNDED"
        BY <3>2, <4>1, <4>2
      <4> QED
        BY <4>1, <4>3 DEF SaleInRows, LastQueries
    <3>6. CASE query = "REFUNDED"
      <4>1. /\ page'["PENDING"] = page["PENDING"] /\ page'["PAID"] = page["PAID"]
            /\ page'["FAILED"] = page["FAILED"] /\ query' = "categories"
        BY <1>4, <2>1, <3>6 DEF Queries
      <4>2. \/ page["PENDING"] + page["PAID"] + page["FAILED"] >= 1
            \/ page'["REFUNDED"] = 1
        BY <3>1, <3>6 DEF SaleInRows
      <4>3. page'["PENDING"] + page'["PAID"] + page'["FAILED"] + page'["REFUNDED"] >= 1
        BY <3>2, <4>1, <4>2
      <4> QED
        BY <4>1, <4>3 DEF SaleInRows, LastQueries
    <3> QED
      BY <1>6, <3>3, <3>4, <3>5, <3>6
  <2> QED
    BY <1>4, <2>2, <2>3
<1>7. CASE query = "categories"
  <2>1. /\ query' = "collected"
        /\ page'["categories"] = Count(Finished /\ HasWinner)
    BY <1>1, <1>4, <1>7 DEF After, Figure, Queries
  <2>2. /\ page'["sold"] = page["sold"] /\ page'["PENDING"] = page["PENDING"]
        /\ page'["PAID"] = page["PAID"] /\ page'["FAILED"] = page["FAILED"]
        /\ page'["REFUNDED"] = page["REFUNDED"]
    BY <1>4, <1>7 DEF Queries
  <2>3. page["sold"] = 1 => page'["categories"] = 1
    BY <1>2, <1>7, <2>1 DEF SaleStands, Count, Finished, HasWinner, AuctionStatus
  <2> QED
    BY <1>1, <1>4, <1>7, <2>1, <2>2, <2>3
    DEF SaleStands, SaleInRows, SaleInCategories, MoneyOnPage, LastQueries, Count
<1>8. CASE query \in {"collected", "outstanding", "disputes", "active"}
  <2>1. /\ page'["sold"] = page["sold"] /\ page'["PENDING"] = page["PENDING"]
        /\ page'["PAID"] = page["PAID"] /\ page'["FAILED"] = page["FAILED"]
        /\ page'["REFUNDED"] = page["REFUNDED"]
        /\ page'["categories"] = page["categories"]
    BY <1>4, <1>8 DEF Queries
  <2>2. /\ query = "collected" => /\ query' = "outstanding"
                                  /\ page'["collected"] = Count(payment = "PAID")
        /\ query = "outstanding" =>
             /\ query' = "disputes"
             /\ page'["outstanding"] = Count(payment = "PENDING")
             /\ page'["collected"] = page["collected"]
        /\ query \in {"disputes", "active"} =>
             /\ query' \in {"active", "none"}
             /\ page'["outstanding"] = page["outstanding"]
             /\ page'["collected"] = page["collected"]
    BY <1>1, <1>4, <1>8 DEF After, Figure, Queries
  <2>3. query' \in {"outstanding"} \cup LastQueries
    BY <1>8, <2>2 DEF LastQueries
  <2>4. SaleStands' /\ SaleInCategories' /\ (SaleInRows => SaleInRows')
    BY <1>1, <1>8, <2>1, <2>3 DEF SaleStands, SaleInRows, SaleInCategories, LastQueries
  <2>5. MoneyOnPage'
    BY <1>1, <1>8, <2>2 DEF MoneyOnPage, LastQueries, Count
  <2> QED
    BY <1>4, <2>4, <2>5
<1> QED
  BY <1>1, <1>5, <1>6, <1>7, <1>8 DEF Queries

----------------------------------------------------------------------------
(* The report only reads: what holds of settlement holds next to it. *)
THEOREM ReportReadsOnly == ReportSpec => Spec
<1>1. ReportInit => Init
  BY DEF ReportInit
<1>2. [ReportNext]_reportVars => [Next]_vars
  BY DEF ReportNext, Ask, AskAgain, reportVars
<1> QED
  BY <1>1, <1>2, PTL DEF ReportSpec, Spec

(***************************************************************************)
(* Whatever is settled and disputed while a page is being made, by however *)
(* many requests, the figures read so far stand, ...                       *)
(***************************************************************************)
THEOREM PagesCorrect == ReportSpec => []PageInv
<1>1. ReportInit => PageInv
  BY DEF ReportInit, BlankPage, PageInv, PageType, SaleStands, SaleInCategories,
         MoneyOnPage, LastQueries, Queries
<1>2. ASSUME DisputeInv, BegunInv, PageInv, [ReportNext]_reportVars
      PROVE  PageInv'
  <2>1. CASE Next /\ UNCHANGED <<page, query>>
    BY <1>2, <2>1, SettlementKeepsPage
  <2>2. CASE UNCHANGED reportVars
    BY <1>2, <2>2, SettlementKeepsPage DEF reportVars
  <2>3. CASE Ask
    BY <1>2, <2>3, AskKeepsPage
  <2>4. CASE AskAgain
    BY <1>2, <2>4 DEF AskAgain, BlankPage, PageInv, PageType, SaleStands,
                      SaleInCategories, MoneyOnPage, LastQueries, Queries
  <2> QED
    BY <1>2, <2>1, <2>2, <2>3, <2>4 DEF ReportNext
<1> QED
  BY <1>1, <1>2, DisputesCorrect, BegunCorrect, ReportReadsOnly, PTL DEF ReportSpec

(***************************************************************************)
(* ... and with payments recorded one at a time, a sale that was counted   *)
(* is in a row that was read, or its payment in one that will be.          *)
(***************************************************************************)
THEOREM RowsCorrect ==
  ASSUME OneAtATime
  PROVE  ReportSpec => []SaleInRows
<1>1. ReportInit => SaleInRows
  BY DEF ReportInit, BlankPage, SaleInRows, Queries
<1>2. ASSUME DisputeInv, PaymentInv, PageInv, SaleInRows, [ReportNext]_reportVars
      PROVE  SaleInRows'
  <2>1. CASE Next /\ UNCHANGED <<page, query>>
    BY <1>2, <2>1, OneAtATime, SettlementKeepsRows
  <2>2. CASE UNCHANGED reportVars
    BY <1>2, <2>2, OneAtATime, SettlementKeepsRows DEF reportVars
  <2>3. CASE Ask
    BY <1>2, <2>3, AskKeepsPage
  <2>4. CASE AskAgain
    BY <2>4 DEF AskAgain, BlankPage, SaleInRows, Queries
  <2> QED
    BY <1>2, <2>1, <2>2, <2>3, <2>4 DEF ReportNext
<1>3. Spec => []DisputeInv /\ []PaymentInv
  BY OneAtATime, DisputesCorrect, PaymentsCorrect, PTL
<1> QED
  BY <1>1, <1>2, <1>3, PagesCorrect, ReportReadsOnly, PTL DEF ReportSpec

(* Recorded one at a time, every sale on a page is in its table of payments. *)
THEOREM SalesHavePaymentRowsCorrect ==
  ASSUME OneAtATime
  PROVE  ReportSpec => []SalesHavePaymentRows
<1>1. PageInv /\ SaleInRows => SalesHavePaymentRows
  <2> SUFFICES ASSUME PageInv, SaleInRows, query = "none"
               PROVE  page["sold"] <= page["PENDING"] + page["PAID"]
                                        + page["FAILED"] + page["REFUNDED"]
    BY DEF SalesHavePaymentRows, Complete
  <2>1. /\ page["PENDING"] \in Nat /\ page["PAID"] \in Nat
        /\ page["FAILED"] \in Nat /\ page["REFUNDED"] \in Nat
    BY DEF PageInv, PageType, Queries
  <2> QED
    BY <2>1 DEF PageInv, SaleStands, SaleInRows, LastQueries
<1> QED
  BY <1>1, OneAtATime, PagesCorrect, RowsCorrect, PTL

(* No sale is missing from the categories of its page, however many        *)
(* requests record, dispute and resolve meanwhile.                         *)
THEOREM CategoriesCoverSalesCorrect == ReportSpec => []CategoriesCoverSales
<1>1. PageInv => CategoriesCoverSales
  BY DEF PageInv, SaleInCategories, CategoriesCoverSales, Complete, LastQueries
<1> QED
  BY <1>1, PagesCorrect, PTL

(* No payment is both collected and outstanding on one page, however many  *)
(* requests record it meanwhile.                                           *)
THEOREM MoneyCountedOnceCorrect == ReportSpec => []MoneyCountedOnce
<1>1. PageInv => MoneyCountedOnce
  BY DEF PageInv, MoneyOnPage, MoneyCountedOnce, Complete, LastQueries
<1> QED
  BY <1>1, PagesCorrect, PTL
=============================================================================
