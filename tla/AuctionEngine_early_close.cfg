SPECIFICATION Spec
CONSTANTS
  ann = ann
  bob = bob
  sal = sal
  nobody = nobody
  cron = cron
  web = web
  Bidders <- OneUser
  Seller <- sal
  NoUser <- nobody
  Workers <- OneWorker
  StartingPrice = 1
  MinIncrement = 1
  Reserve = 0
  Window = 1
  MaxBidAmount = 3
  MaxTime = 3
  MaxBids = 2
PROPERTY SweepClosesOnlyEnded
