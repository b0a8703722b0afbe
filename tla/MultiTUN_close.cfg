SPECIFICATION FairSpec
CONSTANTS
  Dev = {d1}
  None = None
  Handover = FALSE
  CanClose = TRUE
  CanBreak = FALSE
CHECK_DEADLOCK FALSE
PROPERTY CloseReturns
