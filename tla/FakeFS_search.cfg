SPECIFICATION Spec
CONSTANTS
  BLOCK_SIZE = 16
  ENTRY_SIZE = 8
  NUM_DIRECT_PTRS = 2
  INODES_PER_BLOCK = 2
  Trees <- TwoFiles
  Losses <- NoLosses
  Texts <- ShortPaths
INVARIANT FindsCorresponding
CHECK_DEADLOCK FALSE
