SPECIFICATION RelaySpec
CONSTANTS
  Chunks = 2
  Window = 1
  IdleTimeout = 2
INVARIANT CutOnlyWhenIdle
CHECK_DEADLOCK FALSE
