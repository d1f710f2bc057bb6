CONSTANTS
  Targets = {b1, b2}
  HealthyThreshold = 2
  UnhealthyThreshold = 3
  CounterCap = 3
SPECIFICATION FairCheckerSpec
PROPERTIES ChangesAreEarned FlagSettles StopReturns
CHECK_DEADLOCK FALSE
