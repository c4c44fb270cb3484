SPECIFICATION Spec
CONSTANTS
  MayFail = TRUE
  MaxConnects = 3
  MaxQueue = 3
INVARIANT SocketMatchesFlag
INVARIANT CallbacksAlternate
INVARIANT IoThreadLives
INVARIANT MembershipFollowsCalls
CHECK_DEADLOCK FALSE
