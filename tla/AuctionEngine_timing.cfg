SPECIFICATION Spec
CONSTANTS
  ann = ann
  bob = bob
  sal = sal
  nobody = nobody
  cron = cron
  web = web
  Bidders <- UserAndSeller
  Seller <- sal
  NoUser <- nobody
  Workers <- TwoWorkers
  StartingPrice = 1
  MinIncrement = 1
  Reserve = 0
  Window = 2
  MaxBidAmount = 3
  MaxTime = 3
  MaxBids = 2
SYMMETRY WorkerSymmetry
INVARIANTS
  TxStillValid
PROPERTIES
  BidsLandWhileLive
  LiveEndOnlyMovesLater
  OutcomeIsFinal
  FollowsLifecycle
  RefinesSweeper
