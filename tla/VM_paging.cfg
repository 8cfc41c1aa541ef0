SPECIFICATION Spec
CONSTANTS
  NUM_FRAMES = 2
  NUM_PAGES = 3
  INTS_PER_PAGE = 2
  INT_SIZE = 2
  Vals = {0, 1}
  data <- Alternate
  Garbage = {7}
  FIRST_LENS = {3, 5}
  MAX_MARK = 8
  NoFile = NoFile
INVARIANTS
  NoFaultWhenFits
  FramesShared
  StackDistance
PROPERTIES
  ImplementsFlatMemory
CHECK_DEADLOCK FALSE
