SPECIFICATION Spec
CONSTANTS
  NUM_FRAMES = 1
  NUM_PAGES = 4
  INTS_PER_PAGE = 1
  INT_SIZE = 2
  Vals = {0, 1, 2, 3}
  data <- Distinct
  Garbage = {0}
  FIRST_LENS = {2}
  MAX_MARK = 3
  NoFile = NoFile
INVARIANT InitializedFromData
CHECK_DEADLOCK FALSE
