SPECIFICATION Spec
CONSTANTS
  Frequencies = {1}
  Modes = {"USB"}
  AudioSettings = {"untouched"}
  OneVFO = FALSE
  Throwing = {"start", "freq", "tx", "ptt", "ptt_late", "poll"}
  Numbers = {1, 2}
  Tx = {0, 1}
  Fs = {1}
  DialTurns = {1}
  Rb = 1
  Readback <- mcReadback
  Requests <- mcRequests
INVARIANT TypeOK RadioReleased SplitReleased TimerMatchesOnline
PROPERTY KeepsContract
