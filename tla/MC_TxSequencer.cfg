SPECIFICATION Spec
CONSTANTS
  Period = 4
  TxLength = 3
  TxDelay = 1
  TuneWatchdog = TRUE
  MonitorOn = TRUE
  Incidents = {"wspr", "fox", "runaway", "empty", "swr", "last"}
  RigFails = TRUE
  MaxClicks = 2
  MaxQueue = 1
INVARIANT TypeOK KeyedForATransmission StopIsSeen HalfDuplex ToneOnlyWhenTuning
PROPERTY TransmitsInSlot
