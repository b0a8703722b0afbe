SPECIFICATION FairSpec
CONSTANTS
  Request = {q1}
  BugReport = {}
  Logout = {}
  Direct = {}
  MaxCalls = 1
  MaxChunks = 1
CHECK_DEADLOCK FALSE
PROPERTY GuaranteedResponse
