CONSTANTS
  web = web
  api = api
  a = a
  b = b
  Pools = {web, api}
  Addrs = {a, b}
  Gens = {1, 2}
  Watcher = watcher
  Admins = {}
  AdminCalls = {}
  StartCfg <- Both
  Configs <- OnlyBoth
  Reloads = TRUE
  TLSListeners <- NoTLS
  SourceSets <- OneOfTwo
  MetricVecs = TRUE
SPECIFICATION Spec
PROPERTY DiscoveryErrorsNeverEmpty
CHECK_DEADLOCK FALSE
