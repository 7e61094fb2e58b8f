CONSTANTS
  NodeCount = 4
  NodeSize = 2
  HeadSize = 1
  short = short
  long = long
  huge = huge
  Msg <- MCMsg
  Length <- MCLength
  InitCap = 3
  CountMod = 4
  Rate = 2
  MaxSignals = 3
  MaxSent = 4
  MaxCrash = 1
SPECIFICATION FairSpec
INVARIANTS
  TypeOK
  NoAssertionFails
  WriterKeepsOffUnread
  CountersAgree
PROPERTIES
  ImplementsFifo
  EverythingIsRead
CHECK_DEADLOCK FALSE
