SPECIFICATION Spec
CONSTANTS
  N = 2
  Pool = TRUE
  Modes <- RunOrPoll
  MayThrow = TRUE
  MaxQueue = 2
  MaxRuns = 2
INVARIANT NoStrayStop
CHECK_DEADLOCK FALSE
