SPECIFICATION FairSpec
CONSTANTS
  Pids <- TwoPids
  Texts <- FewLines
  FORK_FAILS = TRUE
  MAX_JOBS = 2
INVARIANTS JobsAreChildren LeavesNoChild
PROPERTIES ReportsTrue PromptReturns
CHECK_DEADLOCK FALSE
