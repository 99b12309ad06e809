CONSTANTS
  MaxPeriods = 3
  MaxClicks = 2
SPECIFICATION FairSpec
INVARIANTS TypeOK InStep
PROPERTIES AudioStays NoStaleDecodes SavedIfDecoded BusyEnds
CHECK_DEADLOCK FALSE
