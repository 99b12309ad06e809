CONSTANTS
  Modes = {"WSPR", "FST4W"}
  MaxPeriods = 2
  MaxSpots = 2
  MaxAgain = 1
  Faults <- Everything
SPECIFICATION Spec
INVARIANTS TypeOK Recovers
PROPERTIES NothingLost SentOnce
CHECK_DEADLOCK FALSE
