\* The same heap with room for two span structures only.
CONSTANTS
  MAX_PAGES = 2
  HEAP_GROW_PAGE_COUNT = 2
  USERDATA_GROW = 2
  MmapPages = 6
  SpanPool = 2
  Requests = {1, 2, 3}
  CachedRequests = {3}
SPECIFICATION Spec
INVARIANTS
  UsedIsInUse
CHECK_DEADLOCK FALSE
