SPECIFICATION ProgramsSpec
CONSTANTS
  Addresses = {a1, a2, a3, a4}
  Values = {1, 2}
  NULL = NULL
  W = 7
  F = 2
  Texts <- ShortTexts
  MaxLength = 6
  Comp = {c1, c2}
  Math = {m1, m2}
  ALIGNMENT = 2
  MAX_HEAP = 5
  Traces <- Mixed
  CHAR_SIGNED = TRUE
SYMMETRY SameMajor
INVARIANTS
  ListRight
  PuzzlesRight FloatsRight
  LinesRight PathsRight
  CountsExact MixedIsReported MixupHappened OnlyRacesMiscount
  RangesAreLive OverlapsEnclose NoFalseAlarm UtilizationAtMostOne HoldsWhatIsOut
CHECK_DEADLOCK FALSE
