SPECIFICATION PartsSpec
CONSTANTS
  Events = {"exitNode", "login", "licenses"}
  MaxReports = 1
  MaxEvents = 2
  File = {"f1", "f2"}
  Worker = {"w1", "w2"}
  MaxFaults = 1
  Transfer = {"x1", "x2"}
  NoTransfer = "none"
  Chunks = 1
  Soon = 1
  Day = 3
  MaxTime = 7
  Goroutine = {"g1", "g2"}
  Thread = {"t1", "t2", "java"}
  JavaThread = {"java"}
  MaxDepth = 2
  Id = {1, 2, 3}
  NetMaps <- ThreeNodes
  Owner <- Owners
  Me = 2
  Sharee = {3}
  Query <- Queries
CHECK_DEADLOCK FALSE
INVARIANT Overwriting NothingLost OnTime ShownIsOwn EndIsShown  EnvSafe
PROPERTY ShowsInOrder
