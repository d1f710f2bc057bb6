---------------------------- MODULE ControlPlane ----------------------------
(***************************************************************************)
(* The control plane of one process (cmd/lb/main.go): start-up, the three  *)
(* kinds of updaters running side by side, the proxies as readers of the   *)
(* snapshot, and the shutdown sequence.                                    *)
(***************************************************************************)
EXTENDS ConfigWatcher, DiscoveryPoller, AdminHandlers

VARIABLES
  main,         \* how far main has come
  pollersLeft   \* the pollers whose context main has not cancelled

mainVars == <<main, pollersLeft>>
vars == <<store, watcherVars, pollerVars, adminVars, mainVars>>

MainStages == {"starting", "running", "stopWatcher", "stopAdmin", "stopPollers",
               "stopCheckers", "hung", "closeProxies"}

TypeOK ==
  /\ StoreTypeOK /\ WatcherTypeOK /\ PollerTypeOK /\ AdminTypeOK
  /\ main \in MainStages
  /\ pollersLeft \subseteq DiscPools

(* What the discovery-driven pools of cfg can resolve to in BuildSnapshot: *)
(* an error leaves the pool empty.                                         *)
Resolutions(cfg) ==
  {r \in [Pools -> SourceSets \cup {{}}] :
     \A p \in Pools : \/ r[p] = disc[p]
                      \/ r[p] = {} /\ p \in DOMAIN cfg.pools /\ cfg.pools[p].discovery}

(* main builds the first snapshot and starts the admin server.             *)
FirstGen == CHOOSE g \in Gens : TRUE

Init ==
  /\ disc \in [Pools -> SourceSets]
  /\ \E resolved \in Resolutions(StartCfg) :
       snap = BuildSnapshot(StartCfg, resolved, [p \in Pools |-> FirstGen])
  /\ held = snap
  /\ job = [u \in Updaters |-> NoJob]
  /\ ctxs = [o \in Objects |-> 0]
  /\ cancel = [o \in Objects |-> FALSE]
  /\ populated = {<<p, FirstGen>> : p \in {q \in Pools : snap.poolStates[q].servers # {}}}
  /\ draining = {}
  /\ series = {}
  /\ started = {} /\ kept = {}
  /\ WatcherInit /\ PollerInit /\ AdminInit
  /\ main = "starting"
  /\ pollersLeft = DiscPools

-----------------------------------------------------------------------------
(* main starts the checkers of the snapshot it built, then the pollers,    *)
(* which take over what that snapshot's pools serve, the proxies and the   *)
(* watcher.                                                                *)
StartUp ==
  /\ main = "starting"
  /\ StartCheckers(CheckersOf(held, Pools))
  /\ main' = "running"
  /\ held' = NoSnap
  /\ UNCHANGED <<snap, job, populated, kept, draining, series, watcherVars, pollerVars,
                 adminVars, pollersLeft>>

(* A termination signal.                                                   *)
waitForSignal ==
  /\ main = "running"
  /\ main' = "stopWatcher"
  /\ UNCHANGED <<store, watcherVars, pollerVars, adminVars, pollersLeft>>

(* Watcher.Stop waits for a reload in progress.                            *)
WatcherStopped ==
  /\ main = "stopWatcher" /\ job[Watcher].stage = "idle"
  /\ main' = "stopAdmin"
  /\ UNCHANGED <<store, watcherVars, pollerVars, adminVars, pollersLeft>>

(* The admin server waits for its requests, but no longer than 5 seconds,  *)
(* and then for the viewers of the dashboard, which Lifecycle models: its  *)
(* ShutdownEnds says when that wait ends.  Here it does.                   *)
AdminClosed ==
  /\ main = "stopAdmin"
  /\ main' = "stopPollers"
  /\ UNCHANGED <<store, watcherVars, pollerVars, adminVars, pollersLeft>>

(* Poller.Stop, one poller after the other: cancel, then wait for the poll *)
(* in progress.                                                            *)
PollersIdle == \A p \in DiscPools \ pollersLeft : job[p].stage = "idle"

StopPoller(p) ==
  /\ main = "stopPollers" /\ PollersIdle
  /\ pollersLeft' = pollersLeft \ {p}
  /\ UNCHANGED <<store, watcherVars, pollerVars, adminVars, main>>

PollersStopped ==
  /\ main = "stopPollers" /\ pollersLeft = {} /\ PollersIdle
  /\ main' = "stopCheckers"
  /\ held' = snap
  /\ UNCHANGED <<snap, job, ctxs, cancel, populated, kept, draining, series, started,
                 watcherVars, pollerVars, adminVars, pollersLeft>>

(* main stops the checkers of the current snapshot one by one.             *)
StopLiveCheckers ==
  /\ main = "stopCheckers"
  /\ \/ /\ CheckersOf(held, Pools) = {}
        /\ main' = "closeProxies"
        /\ held' = NoSnap
        /\ UNCHANGED <<ctxs, cancel>>
     \/ \E o \in CheckersOf(held, Pools) :
          /\ StopChecker(o)
          /\ held' = [held EXCEPT !.checkers[o[1]] = 0]
          /\ main' = IF Hangs(o) THEN "hung" ELSE main
  /\ UNCHANGED <<snap, job, populated, kept, draining, series, started, watcherVars, pollerVars,
                 adminVars, pollersLeft>>

(* A proxy records a metric for a backend of the live snapshot.            *)
Traffic(p, a) ==
  /\ MetricVecs /\ main = "running"
  /\ a \in snap.poolStates[p].servers /\ <<p, a>> \notin series
  /\ series' = series \cup {<<p, a>>}
  /\ UNCHANGED <<snap, job, held, ctxs, cancel, populated, kept, draining, started,
                 watcherVars, pollerVars, adminVars, mainVars>>

-----------------------------------------------------------------------------
Reload ==
  /\ \/ Reloads /\ main = "running" /\ ReadConfig
     \/ \E resolved \in Resolutions(reading) : BuildNew(resolved)
     \/ WatcherStep
  /\ UNCHANGED <<pollerVars, adminVars, mainVars>>

Polling(p) ==
  /\ \/ main # "starting" /\ p \in pollersLeft /\ Poll(p)
     \/ PollerStep(p)
  /\ UNCHANGED <<watcherVars, adminVars, mainVars>>

Serving(r) ==
  /\ \/ main \in {"starting", "running", "stopWatcher"} /\ AdminRequest(r)
     \/ AdminStep(r)
  /\ UNCHANGED <<watcherVars, pollerVars, mainVars>>

ShutDown ==
  \/ WatcherStopped \/ AdminClosed \/ PollersStopped \/ StopLiveCheckers
  \/ \E p \in pollersLeft : StopPoller(p)

Environment ==
  \/ \E p \in DiscPools : SourceChanges(p) /\ UNCHANGED <<watcherVars, adminVars, mainVars>>
  \/ \E p \in Pools, a \in Addrs : Traffic(p, a)

Next ==
  \/ StartUp \/ waitForSignal \/ ShutDown \/ Environment
  \/ Reload
  \/ \E p \in DiscPools : Polling(p)
  \/ \E r \in Admins : Serving(r)

Spec == Init /\ [][Next]_vars

(* Every goroutine that can run does run; a reload is triggered again and  *)
(* again (ticker or SIGHUP); a poll happens on every tick of its ticker,   *)
(* and discovery answers some of them.  The environment owes nothing: the  *)
(* file, the sources, the requests and the signal are not fair.            *)
Fairness ==
  /\ WF_vars(StartUp)
  /\ WF_vars(ShutDown)
  /\ WF_vars(Reload)
  /\ \A p \in DiscPools : WF_vars(Polling(p))
  /\ \A r \in Admins : WF_vars(AdminStep(r) /\ UNCHANGED <<watcherVars, pollerVars, mainVars>>)

FairSpec == Spec /\ Fairness

-----------------------------------------------------------------------------
(* Every health checker a reader can find in the published snapshot has    *)
(* been started, whatever the interleaving of updaters: each caller of     *)
(* UpdatePoolBackends and BuildSnapshot starts before it swaps.            *)
PublishedStarted ==
  main # "starting" => CheckersOf(snap, Pools) \subseteq started

(* No update ever changes the listeners the process was started with, so   *)
(* DiffListeners compares every reload with the sockets really open.       *)
ListenersFixed == [][snap'.listeners = snap.listeners]_vars

(* checkAndReload replaces the certificates of one TLS listener after the  *)
(* other and gives up at the first that cannot be loaded.  A configuration *)
(* whose snapshot is built, and so is on its way to being published, is    *)
(* one whose certificates every TLS listener already serves: listeners may *)
(* be ahead of the published configuration, and never behind it.           *)
CertsBeforePublish ==
  job[Watcher].stage \in {"built", "started", "swapped"} =>
    \A i \in DOMAIN TLSListeners : certs[TLSListeners[i]] = reading.certs[TLSListeners[i]]

(* "New checkers are started before old ones are stopped during reload,    *)
(* ensuring no monitoring gap": every published checker is probing.        *)
NoMonitoringGap ==
  main = "running" => \A o \in CheckersOf(snap, Pools) : ctxs[o] > 0

(* A checker that is probing is published, or about to be published or     *)
(* stopped by the updater that has it: none is left running for good.      *)
NoLeakedChecker ==
  main \notin {"starting"} =>
    \A o \in Objects : ctxs[o] > 0 =>
      \/ o \in CheckersOf(snap, Pools)
      \/ \E u \in Updaters :
           \/ job[u].stage = "started" /\ o \in CheckersOf(job[u].new, job[u].scope)
           \/ job[u].stage = "swapped" /\ o \in CheckersOf(job[u].old, job[u].scope)

(* "Discovery errors never empty a pool's backend list": a pool that has   *)
(* backends does not lose them all unless its source may really be empty.  *)
(* A poll leaves the pool alone when it fails; a reload, in BuildSnapshot, *)
(* goes on with an empty list.                                             *)
DiscoveryErrorsNeverEmpty ==
  [][\A p \in DiscPools :
       snap.poolStates[p].servers # {} /\ snap'.poolStates[p].servers = {} =>
         {} \in SourceSets]_vars

(* What discovery settles on is what the pool ends up serving.             *)
ResolvedIsServed ==
  \A p \in DiscPools : \A s \in SourceSets :
    <>[](disc[p] = s /\ main = "running") => <>[](snap.poolStates[p].servers = s)

(* A shutdown that has begun waits for the watcher, the pollers and the    *)
(* live checkers, and reaches the closing of the proxies.                  *)
ShutdownCompletes == main = "stopWatcher" ~> main = "closeProxies"

(* Checker.Stop "halts the health checking loop and releases all           *)
(* resources": nobody is left waiting in it.  That holds until a partial   *)
(* update carries a checker over: UpdatePoolBackends goes by the           *)
(* configuration of the start, and if that has no health check for a pool  *)
(* to which a reload has given one, the checker stays in the map and is    *)
(* started a second time and then stopped by the same updater.             *)
NobodyHangs == main # "hung" /\ \A u \in Updaters : job[u].stage # "hung"
StopNeverHangs == kept = {} => NobodyHangs

=============================================================================
