CONSTANTS
  Timer = {t1}
  TVR_SIZE = 2
  TVN_SIZE = 2
  TIMER_PRECISION_MS = 2
  Kinds <- MCKinds
  MaxTick = 4
  MaxJump = 2
  MaxStart = 1
  MaxCrash = 1
SPECIFICATION Spec
PROPERTIES
  IllTimerRemoved
