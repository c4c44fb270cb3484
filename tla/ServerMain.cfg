SPECIFICATION FairSpec
CONSTANTS
  t1 = t1
  t2 = t2
  NoThread = NoThread
  NoHandler = NoHandler
  IoThreads <- OneThread
  StrandRequired = FALSE
  SockBuf = 2
  RecvLimit = 4
  SendLimit = 1
  Datagrams <- Filling
  Messages <- TwoSizes
  AppCalls <- MainLoop
  StartMayFail = FALSE
  MaxSessions = 3
  MaxReady = 4
 
INVARIANT BufferWithinLimit
INVARIANT MulticastOnOpenSocket
PROPERTY RestartReturns
PROPERTY StartTakesEffect
PROPERTY SendsComplete
CHECK_DEADLOCK FALSE
