SPECIFICATION FairSpec
CONSTANTS
  N = 2
  Pool = FALSE
  Modes <- RunOrPoll
  MayThrow = FALSE
  MaxQueue = 2
  MaxRuns = 2
INVARIANT AllThreadsServe
INVARIANT DrainedWhenDown
PROPERTY StartReturns
PROPERTY StopReturns
PROPERTY KeepsLifecycle
CHECK_DEADLOCK FALSE
