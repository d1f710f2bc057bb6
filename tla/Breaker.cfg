CONSTANTS
  FailureThreshold = 3
  OpenDuration = 2
  HalfOpenMaxProbes = 2
  Requests = {r1, r2, r3, r4}
SPECIFICATION FairSpec
INVARIANTS BreakerAccounts
PROPERTIES ImplementsPhases RecoveredBackendCloses
