SPECIFICATION FairSpec
CONSTANTS
  Weights <- PoolWeights
  Pickers = {p1, p2}
  Algorithms = {"round_robin", "weighted_round_robin", "least_conn", "random", "ip_hash"}
  MaxConns = 3
INVARIANTS RefusalIsTrue SharesKept
PROPERTIES NobodyStarves
