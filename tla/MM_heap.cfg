SPECIFICATION FairSpec
CONSTANTS
  CHUNK_SIZE = 10
  GROW = 6
  MAX_HEAP = 100
  ADDR_LIMIT = 21
  Ids = {1, 2, 3}
  Sizes <- OneSize
  LibcWords <- LibcTags
  RESTARTS = TRUE
  NULL = NULL
INVARIANTS HeapTiled SearchAtBlock NoAdjacentFree BlocksOwned
  PayloadInHeap ExtendOnlyWhenFull
PROPERTIES MallocReturns ImplementsAllocator
CHECK_DEADLOCK FALSE
