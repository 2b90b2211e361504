SPECIFICATION FairSpec
CONSTANTS
  activate = activate
  close = close
  click = click
  NumAuctions = 2
  Starters <- ActivateCommand
  Closers <- CloseCommand
  Requests <- Clicks
  MaxStaff = 2
  MaxFaults = 1
CHECK_DEADLOCK FALSE
INVARIANTS
  TypeOK
  BidsKeepAuctionLive
PROPERTIES
  ClicksLeaveNoneBehind
  EveryDueAuctionStarts
  EveryOverdueAuctionCloses
