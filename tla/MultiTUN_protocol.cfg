SPECIFICATION Spec
CONSTANTS
  Dev = {d1, d2, d3}
  None = None
  Handover = FALSE
  CanClose = FALSE
  CanBreak = TRUE
SYMMETRY Symmetry
CHECK_DEADLOCK FALSE
INVARIANT TypeOK NoPanic OneDriver NeverLeaks ReplacementInvisible NeverStuck
PROPERTY KeepsPromise
