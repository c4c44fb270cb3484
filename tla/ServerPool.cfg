SPECIFICATION Spec
CONSTANTS
  t1 = t1
  t2 = t2
  NoThread = NoThread
  NoHandler = NoHandler
  IoThreads <- TwoThreads
  StrandRequired = TRUE
  SockBuf = 2
  RecvLimit = 0
  SendLimit = 1
  Datagrams <- Small
  Messages <- TwoSizes
  AppCalls <- Lifecycle
  StartMayFail = FALSE
  MaxSessions = 2
  MaxReady = 3
INVARIANT ReceivesBoundedByRestarts
INVARIANT NotDeaf
CHECK_DEADLOCK FALSE
