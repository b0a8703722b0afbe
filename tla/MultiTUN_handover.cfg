SPECIFICATION Spec
CONSTANTS
  Dev = {d1, d2, d3}
  None = None
  Handover = TRUE
  CanClose = FALSE
  CanBreak = TRUE
SYMMETRY Symmetry
CHECK_DEADLOCK FALSE
INVARIANT ReadInOrder
