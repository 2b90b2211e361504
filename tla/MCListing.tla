----------------------------- MODULE MCListing -----------------------------
(* Small instances of Listing for TLC. *)
EXTENDS Listing

CONSTANTS tab1, tab2, joy, ken, modest, greedy, soon, later

TwoTabs == {tab1, tab2}
OneOfficer == {joy}
TwoOfficers == {joy, ken}
TwoTerms == {modest, greedy}
TwoSchedules == {soon, later}
=============================================================================
