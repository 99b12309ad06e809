SPECIFICATION Spec
CONSTANTS
  Period = 12
  TxLength = 11
  TxDelay = 2
  TuneWatchdog = FALSE
  MonitorOn = TRUE
  Incidents = {}
  RigFails = FALSE
  MaxClicks = 2
  MaxQueue = 1
PROPERTY AudioStartsInTransmission
