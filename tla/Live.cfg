SPECIFICATION LiveSpec
CONSTANTS
  MaxActivities = 2
  MaxChanges = 3
CHECK_DEADLOCK FALSE
INVARIANT NotForgotten
PROPERTY  ShowsLatest Delivered Starts
