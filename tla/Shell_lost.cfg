SPECIFICATION TypingSpec
CONSTANTS
  Pids <- TwoPids
  Texts <- OneCommand
  FORK_FAILS = FALSE
  MAX_JOBS = 2
PROPERTY ChangesReported
CHECK_DEADLOCK FALSE
