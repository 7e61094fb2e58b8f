CONSTANTS
  Nodes = {1, 2, 3}
  Hosts = {1, 2}
  Unresolvable = {3}
  Commands = {1, 2}
  SlotOf <- MCSlotOf
  Layouts <- MCLayouts
  MAX_REQUEST_TTL = 2
  Handles = {"h1", "h2"}
  Contexts = {"x1", "x2", "x3"}
  Fds = {"f1", "f2"}
  MaxBody = 1
  ConnIds = {"c1", "c2", "c3"}
  MaxWrites = 2
  Names = {"a", "b"}
  Inodes = {"i1", "i2"}
  MaxWd = 2
  MaxEvents = 1
SPECIFICATION ClientsSpec
INVARIANTS
  HeldOnce
  OneSlotsRequest
  ClientsAreSound
PROPERTY
  CommandsEnd
CHECK_DEADLOCK FALSE
