CONSTANTS
  Timer = {t1, t2}
  TVR_SIZE = 2
  TVN_SIZE = 2
  TIMER_PRECISION_MS = 2
  Kinds <- MCKinds
  MaxTick = 35
  MaxJump = 2
  MaxStart = 2
  MaxCrash = 1
SPECIFICATION Spec
INVARIANTS
  NoAssertionFails
PROPERTIES
  ImplementsTimers
  TickEnds
