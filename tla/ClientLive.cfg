SPECIFICATION FairSpec
CONSTANTS
  t1 = t1
  t2 = t2
  NoThread = NoThread
  NoHandler = NoHandler
  IoThreads <- OneThread
  StrandRequired = FALSE
  SockBuf = 2
  Datagrams <- Small
  AppCalls <- NeverStops
  CallbackSends = TRUE
  OpsMayFail = FALSE
  ConnectMayFail = FALSE
  PromptMain = TRUE
  MaxSessions = 3
  MaxOpened = 12
  MaxReady = 6
INVARIANT NotMute
 
PROPERTY Settles
CHECK_DEADLOCK FALSE
