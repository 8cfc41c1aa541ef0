SPECIFICATION Spec
CONSTANTS
  CHUNK_SIZE = 8
  GROW = 6
  MAX_HEAP = 12
  ADDR_LIMIT = 22
  Ids = {1, 2}
  Sizes <- TwoSizes
  LibcWords <- LibcZero
  RESTARTS = TRUE
  NULL = NULL
INVARIANT PayloadInHeap
CHECK_DEADLOCK FALSE
