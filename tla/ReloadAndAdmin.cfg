CONSTANTS
  web = web
  api = api
  a = a
  b = b
  Pools = {web, api}
  Addrs = {a, b}
  Gens = {1, 2, 3}
  Watcher = watcher
  Admins = {r}
  AdminCalls <- MembershipCalls
  StartCfg <- Base
  Configs <- AdminConfigs
  Reloads = TRUE
  TLSListeners <- TwoTLS
  SourceSets <- OnlyA
  MetricVecs = FALSE
SPECIFICATION Spec
INVARIANTS CertsBeforePublish PublishedStarted StopNeverHangs
PROPERTY ListenersFixed
CHECK_DEADLOCK FALSE
