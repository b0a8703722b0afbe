SPECIFICATION FairSpec
CONSTANTS
  Service = {s1, s2}
  RCfg = {r1, empty}
  DCfg = {d1, d2}
  Routable = {r1}
  State = {0, 4, 6}
  MaxIntents = 2
  None = None
INVARIANT TypeOK Mirror UpToDate RefsSound
PROPERTY NeverSilentlyDown StoppedStaysDown StopDisconnects
