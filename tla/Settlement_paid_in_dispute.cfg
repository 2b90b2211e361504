SPECIFICATION ReportSpec
CONSTANTS
  w1 = w1
  w2 = w2
  winner = winner
  stranger = stranger
  Workers <- OneWorker
  Recorders <- OneWorker
  Users <- People
  Participants <- Entitled
  MaxDisputes = 2
CHECK_DEADLOCK FALSE
INVARIANT PaidIsSettled
