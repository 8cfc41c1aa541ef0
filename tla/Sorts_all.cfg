SPECIFICATION Spec
CONSTANTS
  NUM_INTS = 6
  Vals = {0, 1, 2, 3}
  Lengths = {2, 4, 6}
INVARIANTS AroundPivot Sorted
PROPERTIES StaysInPart Returns
CHECK_DEADLOCK FALSE
