SPECIFICATION FairSpec
CONSTANTS
  Dev = {d1, d2}
  None = None
  Handover = FALSE
  CanClose = FALSE
  CanBreak = FALSE
PROPERTY LoopServes PumpsEnd
