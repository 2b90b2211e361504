SPECIFICATION Spec
CONSTANTS
  ann = ann
  bob = bob
  sal = sal
  nobody = nobody
  cron = cron
  web = web
  Bidders <- UsersAndSeller
  Seller <- sal
  NoUser <- nobody
  Workers <- OneWorker
  StartingPrice = 1
  MinIncrement = 2
  Reserve = 2
  Window = 1
  MaxBidAmount = 4
  MaxTime = 1
  MaxBids = 3
SYMMETRY UserSymmetry
INVARIANTS
  TypeOK
  HighestIsBest
  BidLadder
  SaleIsWhole
  LabelsTellApart
PROPERTIES
  OvertakenAreTold
  RefinesAscendingAuction
  HistoryOnlyGrows
