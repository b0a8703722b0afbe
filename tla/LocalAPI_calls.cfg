SPECIFICATION FairSpec
CONSTANTS
  Request = {q1, q2}
  BugReport = {b1}
  Logout = {l1}
  Direct = {d1}
  MaxCalls = 2
  MaxChunks = 1
CHECK_DEADLOCK FALSE
INVARIANT WholeBody NotHeldUp
PROPERTY HandlerEnds CallReturns
