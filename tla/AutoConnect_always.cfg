SPECIFICATION FairSpec
CONSTANTS
  Exit <- Exits
  NoExit = ""
  Saved <- SavedPrefs
  MaxConnects = 1
  MaxOthers = 0
  None = None
CHECK_DEADLOCK FALSE
PROPERTY AlwaysOnConnects
