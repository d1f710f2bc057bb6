CONSTANTS
  web = web
  api = api
  a = a
  b = b
  Pools = {web, api}
  Addrs = {a, b}
  Gens = {1, 2}
  Watcher = watcher
  Admins = {r}
  AdminCalls <- DrainCalls
  StartCfg <- Both
  Configs <- OnlyBoth
  Reloads = FALSE
  TLSListeners <- NoTLS
  SourceSets <- OneOfTwo
  MetricVecs = TRUE
SPECIFICATION FairSpec
INVARIANTS NoMonitoringGap NoLeakedChecker
PROPERTIES ResolvedIsServed ShutdownCompletes
CHECK_DEADLOCK FALSE
