SPECIFICATION LimiterSpec
CONSTANTS
  IPs = {c1}
  NoIP = NoIP
  Callers = {g1, g2}
  Capacity = 4
  Token = 2
  IdleTTL = 3
  MaxDelay = 2
INVARIANT BudgetKept
PROPERTIES RefusalDeserved IdleBucketsGo
