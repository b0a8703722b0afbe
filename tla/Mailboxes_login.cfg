SPECIFICATION FairSpec
CONSTANTS
  Events <- LoginEvents
  MaxReports = 0
  MaxEvents = 2
CHECK_DEADLOCK FALSE
PROPERTY LoopReturns
