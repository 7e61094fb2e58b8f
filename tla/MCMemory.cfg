\* A heap of up to six pages that grows by two pages at least.  Spans of one page
\* have a list of their own, larger ones share large_list_; a span of three pages
\* has an inner page and may be cut into chunks.
CONSTANTS
  MAX_PAGES = 2
  HEAP_GROW_PAGE_COUNT = 2
  USERDATA_GROW = 2
  MmapPages = 6
  SpanPool = 6
  Requests = {1, 2, 3}
  CachedRequests = {3}
  PAGE_SIZE = 4
  Classes <- MCClasses
  MaxSerial = 5
  Sizes = {1, 5, 7}
  MaxMalloc = 5
SPECIFICATION MemorySpec
INVARIANTS
  NoAssertionFails
  HeapTiled
  SpanMapExact
  FreeIsMerged
  RefusedOnlyWhenFull
  PointersResolve
  CacheExact
  SizeClassesFit
  TreeIsSound
  ContainersAreSound
PROPERTIES
  ImplementsOwners
  ImplementsObjects
CHECK_DEADLOCK FALSE
