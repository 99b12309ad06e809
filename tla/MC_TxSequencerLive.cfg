SPECIFICATION FairSpec
CONSTANTS
  Period = 3
  TxLength = 2
  TxDelay = 1
  TuneWatchdog = FALSE
  MonitorOn = TRUE
  Incidents = {"last"}
  RigFails = TRUE
  MaxClicks = 2
  MaxQueue = 1
PROPERTY FallsSilent
