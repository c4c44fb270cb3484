SPECIFICATION Spec
CONSTANTS
  t1 = t1
  t2 = t2
  NoThread = NoThread
  NoHandler = NoHandler
  IoThreads <- OneThread
  StrandRequired = FALSE
  SockBuf = 2
  RecvLimit = 0
  SendLimit = 1
  Datagrams <- Small
  Messages <- TwoSizes
  AppCalls <- EveryCall
  StartMayFail = TRUE
  MaxSessions = 3
  MaxReady = 4
 
INVARIANT NoStaleCompletion
 
 
CHECK_DEADLOCK FALSE
