SPECIFICATION Spec
CONSTANTS
  Frequencies = {1,2}
  Modes = {}
  AudioSettings = {"untouched"}
  IsTci = FALSE
  SplitMode = FALSE
  DataModes = {"UNK"}
  MaxRigs = 1
  MaxCommands = 4
  MaxEvents = 1
  Reports <- mcReports
CHECK_DEADLOCK FALSE
PROPERTY NoPingPong
