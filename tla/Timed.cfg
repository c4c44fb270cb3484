SPECIFICATION FairSpec
CONSTANTS
  t1 = t1
  t2 = t2
  IoThreads <- OneThread
  Sizes <- OneOrTwo
  IsClient = TRUE
  MayClose = TRUE
  MaxCalls = 3
INVARIANT NothingOutstanding
INVARIANT FirstResultReturned
PROPERTY TimedCallReturns
CHECK_DEADLOCK FALSE
