SPECIFICATION BitsSpec
CONSTANTS
  W = 7
  F = 2
INVARIANT CommentsHold
CHECK_DEADLOCK FALSE
