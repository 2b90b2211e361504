------------------------------ MODULE Reports ------------------------------
(***************************************************************************)
(* The staff's report, next to the settlement it reports on.               *)
(*                                                                         *)
(* build_summary makes its queries one after another outside a             *)
(* transaction, so the figures of one page are of different moments.  page *)
(* holds the figures by the name of their query, query the one to be made. *)
(* The tables hold one auction, so each count is 0 or 1 (the disputes may  *)
(* be several), an amount counts as 1, and what holds of these figures     *)
(* holds of the sums over many auctions that the code reads.  The report   *)
(* is one without dates: with them, an auction and its payment can be on   *)
(* different pages.                                                        *)
(* Operators named X_Slip are X with a plausible slip.                     *)
(***************************************************************************)
EXTENDS Settlement

VARIABLES page, query

reportVars == <<vars, page, query>>

(* The order of the queries.  "sold" stands for sold_count and             *)
(* sales_value, a payment status for its row of the table of payments,     *)
(* "categories" for the sales in the table of categories.                  *)
After_Slip(q) ==
  CASE q = "finished"    -> "sold"
    [] q = "sold"        -> "REFUNDED"
    [] q = "REFUNDED"    -> "FAILED"
    [] q = "FAILED"      -> "PAID"
    [] q = "PAID"        -> "PENDING"
    [] q = "PENDING"     -> "categories"
    [] q = "categories"  -> "collected"
    [] q = "collected"   -> "outstanding"
    [] q = "outstanding" -> "disputes"
    [] q = "disputes"    -> "active"
    [] q = "active"      -> "none"

After_SlipMoney(q) ==
  CASE q = "categories"  -> "outstanding"
    [] q = "outstanding" -> "collected"
    [] q = "collected"   -> "disputes"
    [] OTHER             -> After_Slip(q)

After(q) ==
  CASE q = "finished"    -> "sold"
    [] q = "sold"        -> "PENDING"
    [] q = "PENDING"     -> "PAID"
    [] q = "PAID"        -> "FAILED"
    [] q = "FAILED"      -> "REFUNDED"
    [] q = "REFUNDED"    -> "categories"
    [] q = "categories"  -> "collected"
    [] q = "collected"   -> "outstanding"
    [] q = "outstanding" -> "disputes"
    [] q = "disputes"    -> "active"
    [] q = "active"      -> "none"

Queries == {"finished", "sold", "PENDING", "PAID", "FAILED", "REFUNDED",
            "categories", "collected", "outstanding", "disputes", "active"}

BlankPage == [q \in Queries |-> 0]

(* FINISHED_STATUSES; no auction is COMPLETED yet. *)
Finished_Slip == status \in {"CLOSED", "SETTLED"}

Finished == status \in {"CLOSED", "SETTLED", "DISPUTED"}

(* close_auction sets winner, final price and payment together. *)
HasWinner == payment # "NONE"

Count(condition) == IF condition THEN 1 ELSE 0

Figure(q) ==
  CASE q = "finished"               -> Count(Finished)
    [] q \in {"sold", "categories"} -> Count(Finished /\ HasWinner)
    [] q = "collected"              -> Count(payment = "PAID")
    [] q = "outstanding"            -> Count(payment = "PENDING")
    [] q = "disputes"               -> Len(disputes)
    [] q = "active"                 -> Count(Active # {})
    [] OTHER                        -> Count(payment = q)

----------------------------------------------------------------------------
ReportInit == Init /\ page = BlankPage /\ query = "finished"

Ask ==
  /\ query # "none"
  /\ page' = [page EXCEPT ![query] = Figure(query)]
  /\ query' = After(query)
  /\ UNCHANGED vars

(* The page is rendered and somebody asks for another. *)
AskAgain ==
  /\ query = "none"
  /\ page' = BlankPage /\ query' = "finished"
  /\ UNCHANGED vars

ReportNext == (Next /\ UNCHANGED <<page, query>>) \/ Ask \/ AskAgain

ReportSpec == ReportInit /\ [][ReportNext]_reportVars

----------------------------------------------------------------------------
(***************************************************************************)
(*                              Properties                                 *)
(***************************************************************************)
Complete == query = "none"

(* Every sale counted at the top of a page is in one of the rows of its    *)
(* table of payments, although payments move from row to row while the     *)
(* page is made: the rows are queried in the order payments move.  Holds   *)
(* when payments are recorded one request at a time.                       *)
SalesHavePaymentRows ==
  Complete => page["sold"] <= page["PENDING"] + page["PAID"]
                                + page["FAILED"] + page["REFUNDED"]

(* No sale disappears between the top of a page and its categories: an     *)
(* auction that has finished stays finished, disputed or not, and its      *)
(* payment stays, however many requests record it.                         *)
CategoriesCoverSales ==
  Complete => page["sold"] <= page["categories"]

(* No payment is both collected and outstanding on one page, although the  *)
(* two are read at different moments: a payment that is not due any more   *)
(* never is again, however many requests record it.                        *)
MoneyCountedOnce ==
  Complete => page["collected"] + page["outstanding"] <= 1
=============================================================================
