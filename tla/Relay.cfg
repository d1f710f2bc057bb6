SPECIFICATION FairRelaySpec
CONSTANTS
  Chunks = 2
  Window = 1
  IdleTimeout = 2
INVARIANTS NothingLost
PROPERTIES RelayEnds
CHECK_DEADLOCK FALSE
