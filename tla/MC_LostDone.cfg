CONSTANTS
  MaxPeriods = 2
  MaxClicks = 0
SPECIFICATION FairSpec
PROPERTY DoneIsSeen
CHECK_DEADLOCK FALSE
