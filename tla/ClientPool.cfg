SPECIFICATION Spec
CONSTANTS
  t1 = t1
  t2 = t2
  NoThread = NoThread
  NoHandler = NoHandler
  IoThreads <- TwoThreads
  StrandRequired = TRUE
  SockBuf = 2
  Datagrams <- FillingTwo
  AppCalls <- EveryCall
  CallbackSends = FALSE
  OpsMayFail = TRUE
  ConnectMayFail = TRUE
  PromptMain = FALSE
  MaxSessions = 2
  MaxOpened = 3
  MaxReady = 2
SYMMETRY Symmetry
INVARIANT Listening
INVARIANT QuietWhenDisconnected
INVARIANT ReceivesBoundedBySessions
INVARIANT ResolvingBacked
CHECK_DEADLOCK FALSE
