SPECIFICATION mcSpec
CONSTANTS
  Frequencies = {1, 2}
  Modes = {"USB"}
  AudioSettings = {"untouched","tune"}
  OneVFO = TRUE
  Throwing = {"freq", "tickle"}
  Numbers = {1}
  Tx = {0, 2}
  Fs = {1}
  DialTurns = {1}
  Rb = 0
  Readback <- mcReadback
  Requests <- mcRequests
INVARIANT TxDialIsHidden
PROPERTY TransmitsOnTxDial ClientsCatchUp
