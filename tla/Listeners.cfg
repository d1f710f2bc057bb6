SPECIFICATION Spec
CONSTANTS
  Backends = {b1, b2}
  Gens = {1, 2}
  Memberships = {{b1}}
  Conns = {c1, c2}
  Limits = {0, 1}
  Clients = {u1}
  Ids = {1, 2}
  HTTPConns = {h1, h2}
  HTTPMaxConn = 1
  MaxAttempts = 2
  Ratio = 60
  MaxRequests = 2
INVARIANTS DrainedMeansIdle CountsTrue SessionsAccounted DrainedMeansClosed InFlightCounted
           
PROPERTIES NoAddDuringWait CloseWindsDown IdleIsEvicted SessionsWindDown
CHECK_DEADLOCK FALSE
