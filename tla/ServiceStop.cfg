SPECIFICATION FairSpec
CONSTANTS
  N = 1
  Pool = FALSE
  Modes <- RunOnly
  MayThrow = TRUE
  MaxQueue = 1
  MaxRuns = 2
PROPERTY StopReturns
CHECK_DEADLOCK FALSE
