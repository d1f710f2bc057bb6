CONSTANTS
  FailureThreshold = 2
  OpenDuration = 2
  HalfOpenMaxProbes = 1
  Requests = {r1, r2}
SPECIFICATION ProxyFairSpec
PROPERTY OpenCircuitHalfOpens
CHECK_DEADLOCK FALSE
