SPECIFICATION ReportSpec
CONSTANTS
  w1 = w1
  w2 = w2
  winner = winner
  stranger = stranger
  Workers <- TwoWorkers
  Recorders <- OneWorker
  Users <- People
  Participants <- Entitled
  MaxDisputes = 4
CHECK_DEADLOCK FALSE
INVARIANTS
  TypeOK
  OneActiveDispute
  ResolvesActive
  SettledIsPaid
  RefundIsRecorded
  SalesHavePaymentRows
  CategoriesCoverSales
  MoneyCountedOnce
PROPERTIES
  FollowsLifecycle
  PaymentMovesForward
  RefinesSale
