SPECIFICATION ReportSpec
CONSTANTS
  w1 = w1
  w2 = w2
  winner = winner
  stranger = stranger
  Workers <- TwoWorkers
  Recorders <- TwoWorkers
  Users <- People
  Participants <- Entitled
  MaxDisputes = 1
CHECK_DEADLOCK FALSE
INVARIANT SettledIsPaid
