SPECIFICATION FairSpec
CONSTANTS
  t1 = t1
  t2 = t2
  NoThread = NoThread
  NoHandler = NoHandler
  IoThreads <- OneThread
  StrandRequired = FALSE
  SockBuf = 2
  Datagrams <- Small
  AppCalls <- MainLoop
  CallbackSends = FALSE
  OpsMayFail = FALSE
  ConnectMayFail = FALSE
  PromptMain = TRUE
  MaxSessions = 2
  MaxOpened = 9
  MaxReady = 6
PROPERTY StopReturns
CHECK_DEADLOCK FALSE
