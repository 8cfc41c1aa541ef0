SPECIFICATION FairSpec
CONSTANTS
  BASE = 4
  RECORDTHRESH = 3
  NEVENT = 2
  Readings = {0, 6, 13}
  Durations = {1, 7, 8}
  Ticks = {0, 1}
  Events <- SmallEvents
  Parameters <- SmallParameters
  FSECS <- Fsecs
  CacheSizes = {1, 2}
  EPSILON = 15
  NULL = NULL
INVARIANTS ElapsedExact ResultBest
PROPERTIES FcycReturns
CHECK_DEADLOCK FALSE
