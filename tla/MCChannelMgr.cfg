CONSTANTS
  Proc = {p1, p2, p3}
  MgrSize = 1
  ChanSize = 2
  shm_size = 11
  MaxReg = 3
  MaxCrash = 1
  MaxLost = 1
SPECIFICATION FairSpec
INVARIANTS
  ChannelsApart
  ToldOnlyWhenReady
  RegistrationStands
PROPERTIES
  SpinningEnds
CHECK_DEADLOCK FALSE
