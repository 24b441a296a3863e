SPECIFICATION FairPageSpec
CONSTANTS
  MaxChanges = 1
  MaxStreams = 1
  MaxFailures = 1
  MaxToggles = 2
  Parts = 2
  Attempts = 2
INVARIANTS
  
  StopIsFinal
PROPERTIES
  NothingStartsStopped
  ShowsWhole
  CatchesUp
  PageCatchesUp
CHECK_DEADLOCK FALSE
