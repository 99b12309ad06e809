CONSTANTS
  Calls <- HoundCalls
  Bands = {b1, b2}
  b1 = b1
  b2 = b2
  MaxSlots = 2
  MaxHounds = 2
  MaxStrikes = 2
  MaxFoxWait = 1
  FoxCQTime = 1
  Requeue = FALSE
  EmptyClicks = FALSE
  MaxTimers = 2
  MaxOtherTimers = 0
SYMMETRY Alike
SPECIFICATION Spec
INVARIANTS TypeOK CalledOnce RR73AnswersReport StillCalled SlotsFit OneMessageEach EveryQSOEnds
PROPERTIES LoggedWithReport
CHECK_DEADLOCK FALSE
