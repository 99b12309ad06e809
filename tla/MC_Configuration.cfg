SPECIFICATION FairSpec
CONSTANTS
  Frequencies = {1}
  Modes = {}
  AudioSettings = {"untouched", "tune"}
  IsTci = TRUE
  SplitMode = TRUE
  DataModes = {"UNK"}
  MaxRigs = 2
  MaxCommands = 3
  MaxEvents = 1
  Reports <- mcReports
CHECK_DEADLOCK FALSE
INVARIANT TypeOK OneRigOnline CurrentUpdatesAreLatest
PROPERTY EveryCommandAnswered ClosedRigsFinish
