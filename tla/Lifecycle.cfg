SPECIFICATION LifecycleSpec
CONSTANTS
  Proxies = {"web"}
  Posts = {r1}
  Requests = {r1}
  MaxConcurrent = 1
  Children = 2
  Viewers = {v1}
INVARIANTS NoServingGap OneHandoff
PROPERTIES HandoffsEnd ShutdownEnds NoViewerLeak
CHECK_DEADLOCK FALSE
