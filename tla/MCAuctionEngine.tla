-------------------------- MODULE MCAuctionEngine --------------------------
(* Small instances of AuctionEngine and BidHistory for TLC. *)
EXTENDS BidHistory, TLC

CONSTANTS ann, bob, sal, nobody, cron, web

OneUser == {ann}
Users == {ann, bob}
UsersAndSeller == {ann, bob, sal}
UserAndSeller == {ann, sal}
OneWorker == {cron}
TwoWorkers == {cron, web}

UserSymmetry == Permutations(Users)
WorkerSymmetry == Permutations(TwoWorkers)
=============================================================================
