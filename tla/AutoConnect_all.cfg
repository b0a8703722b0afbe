SPECIFICATION FairSpec
CONSTANTS
  Exit <- Exits
  NoExit = ""
  Saved <- SavedPrefs
  MaxConnects = 1
  MaxOthers = 1
  None = None
CHECK_DEADLOCK FALSE
INVARIANT TypeOK QuietAgree
PROPERTY Settles AutoConnects
