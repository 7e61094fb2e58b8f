\* The server, its shared memory, the coroutine scheduler, the link between daemons, and the services of a server.
CONSTANTS
  Kinds = {"server", "memory", "coroutine", "link", "options", "loggers", "sink", "guid"}
  MaxStarts = 2
  MaxMsgs = 3
  MaxKills = 3
  MaxStopTries = 2
  MAX_MSG_PER_PROC = 2
  MmapSize = 4
  MaxRequest = 2
  MaxLives = 4
  Coroutines = {"a", "b", "d"}
  Started <- MCStarted
  Protected = {"d"}
  Budget = 3
  HeadUnits = 1
  Messages <- MCMessages
  ReadUnits = 2
  FirstUnits = 2
  MaxConns = 2
  MaxSends = 3
  Modulus = 4
  U8 = 4
  MaxArgs = 3
  Documents <- MCDocuments
  Levels = 2
  max_size = 2
  max_rotation = 2
  Sizes = {1, 3}
  MaxHour = 2
  MaxLogs = 4
  Serials = 2
  Timestamps = 3
  MaxTime = 4
SPECIFICATION Spec
INVARIANTS
  ExitIsClean
  MemoryIsUsable
  CoroutinesKept
  LinkIsSound
  ServicesAreSound
PROPERTIES
  StopEnds
  CoroutinesEnd
\* A process may end and not be started again.
CHECK_DEADLOCK FALSE
