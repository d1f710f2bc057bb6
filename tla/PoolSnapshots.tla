---------------------------- MODULE PoolSnapshots ----------------------------
(***************************************************************************)
(* The atomically swapped runtime state (internal/runtime/snapshot.go and  *)
(* partial_update.go) and the update protocol that its three writers, the  *)
(* config watcher, the discovery pollers and the admin API, all follow:    *)
(*                                                                         *)
(*   load the current snapshot, build a new one from it, start the new     *)
(*   health checkers, swap the pointer, stop the old health checkers.      *)
(*                                                                         *)
(* Every writer does this without a lock: only the swap itself is atomic.  *)
(*                                                                         *)
(* A pool's runtime state (its Servers, LoadBalancer and Breakers) is an   *)
(* object created by one build; its identity is a generation g of pool p.  *)
(* The Checker made with it has the same identity.  An object nothing      *)
(* refers to any more is garbage and its generation is free again.         *)
(***************************************************************************)
EXTENDS Naturals, FiniteSets

CONSTANTS
  Pools,      \* pool names
  Addrs,      \* backend addresses
  Gens,       \* identities of the objects of one pool alive together (a bound)
  Watcher,    \* the config watcher
  Admins,     \* admin requests being served together (a bound)
  StartCfg,   \* the configuration the process started with
  Configs,    \* the valid configurations the file may hold
  MetricVecs  \* whether metrics are enabled (metricVecs is not nil)

(* A poller is named by its pool. *)
Updaters == {Watcher} \cup Pools \cup Admins

PoolConfig == [discovery : BOOLEAN, backends : SUBSET Addrs,
               healthCheck : BOOLEAN, retry : BOOLEAN]

(* ListenerFingerprint. *)
Fingerprint == [name : STRING, address : STRING, protocol : STRING, tlsMode : STRING]

ASSUME SnapshotAssumption ==
  /\ Gens \subseteq Nat \ {0} /\ Gens # {}
  /\ Watcher \notin Pools /\ Watcher \notin Admins /\ Pools \cap Admins = {}
  /\ StartCfg \in Configs
  /\ \A c \in Configs : /\ c.listeners \subseteq Fingerprint
                        /\ DOMAIN c.pools \subseteq Pools
                        /\ \A p \in DOMAIN c.pools : c.pools[p] \in PoolConfig
  /\ MetricVecs \in BOOLEAN

VARIABLES
  snap,      \* AtomicSnapshot.ptr
  job,       \* what each updater holds while it updates
  held,      \* the snapshot main has loaded and whose checkers it starts or stops
  ctxs,      \* per checker: contexts of Start not yet cancelled
  cancel,    \* per checker: its cancel function belongs to such a context
  populated, \* the checkers that have backends, hence goroutines, to probe
  draining,  \* Server.draining, as the set of draining servers
  series,    \* metric series that exist, by pool and backend label
  started,   \* history: the checkers on which Start has been called
  kept       \* history: the pools whose checker a partial update has carried over

store == <<snap, job, held, ctxs, cancel, populated, draining, series, started, kept>>

Objects == Pools \X Gens

(* PoolState and Snapshot.  Generation 0 is an absent map entry.           *)
PoolState == [gen : Gens \cup {0}, servers : SUBSET Addrs, retry : BOOLEAN]
NoPool    == [gen |-> 0, servers |-> {}, retry |-> FALSE]

Snapshot == [poolStates : [Pools -> PoolState],
             checkers   : [Pools -> Gens \cup {0}],
             listeners  : {c.listeners : c \in Configs}]
NoSnap   == [poolStates |-> [p \in Pools |-> NoPool],
             checkers   |-> [p \in Pools |-> 0],
             listeners  |-> StartCfg.listeners]

(* "loaded" holds old; "built" and "started" hold old and new; "swapped"   *)
(* has published new and has still to stop the checkers of scope; "hung"   *)
(* waits in Checker.Stop for a goroutine nobody can cancel any more.       *)
Stages == {"idle", "loaded", "built", "started", "swapped", "hung"}
Job    == [stage : Stages, old : Snapshot, new : Snapshot, scope : SUBSET Pools]
NoJob  == [stage |-> "idle", old |-> NoSnap, new |-> NoSnap, scope |-> {}]

StoreTypeOK ==
  /\ snap \in Snapshot
  /\ job \in [Updaters -> Job]
  /\ held \in Snapshot
  /\ ctxs \in [Objects -> Nat]
  /\ cancel \in [Objects -> BOOLEAN]
  /\ populated \subseteq Objects
  /\ draining \subseteq Pools \X Gens \X Addrs
  /\ series \subseteq Pools \X Addrs
  /\ started \subseteq Objects
  /\ kept \subseteq Pools

-----------------------------------------------------------------------------
(* Reachability, for the garbage collector.                                *)
Refers(s, p, g) == s.poolStates[p].gen = g \/ s.checkers[p] = g

InUse(p, g) ==
  \/ Refers(snap, p, g) \/ Refers(held, p, g)
  \/ \E u \in Updaters : Refers(job[u].old, p, g) \/ Refers(job[u].new, p, g)
  \/ ctxs[p, g] > 0

Unused(p) == {g \in Gens : ~InUse(p, g)}
NewGen(p) == CHOOSE g \in Unused(p) : TRUE

(* newBalancer, NewServer, NewBreaker and NewChecker for one pool make     *)
(* objects of one identity g.                                              *)
NewPoolState(g, servers, retry) == [gen |-> g, servers |-> servers, retry |-> retry]

(* NewChecker returns nil for a pool without health checks.                *)
NewChecker(g, poolCfg) == IF poolCfg.healthCheck THEN g ELSE 0

(* BuildSnapshot, given what each discovery-driven pool resolved to and    *)
(* the identities of the new objects.                                      *)
BuildSnapshot(cfg, resolved, gens) ==
  [poolStates |-> [p \in Pools |->
      IF p \notin DOMAIN cfg.pools THEN NoPool
      ELSE NewPoolState(gens[p], IF cfg.pools[p].discovery THEN resolved[p]
                                 ELSE cfg.pools[p].backends, cfg.pools[p].retry)],
   checkers |-> [p \in Pools |->
      IF p \notin DOMAIN cfg.pools THEN 0 ELSE NewChecker(gens[p], cfg.pools[p])],
   listeners |-> cfg.listeners]

(* UpdatePoolBackends.  The new PoolState has no Retry; the old checker    *)
(* stays in the map when the configuration makes no new one.               *)
UpdatePoolBackends(current, p, servers, poolCfg) ==
  [poolStates |-> [current.poolStates EXCEPT ![p] = NewPoolState(NewGen(p), servers, FALSE)],
   checkers |-> [current.checkers EXCEPT ![p] =
      IF poolCfg.healthCheck THEN NewGen(p) ELSE @],
   listeners |-> current.listeners]

(* CleanupRemovedBackends.                                                 *)
CleanupRemovedBackends(old, new) ==
  IF MetricVecs
    THEN {m \in series : m[2] \notin old.poolStates[m[1]].servers \ new.poolStates[m[1]].servers}
    ELSE series

-----------------------------------------------------------------------------
(* Checker.Start on each of a set of checkers: the context and its cancel  *)
(* function replace the ones of an earlier Start, which nobody can cancel  *)
(* from then on.                                                           *)
StartCheckers(objs) ==
  /\ ctxs' = [o \in Objects |-> IF o \in objs THEN ctxs[o] + 1 ELSE ctxs[o]]
  /\ cancel' = [o \in Objects |-> cancel[o] \/ o \in objs]
  /\ started' = started \cup objs

(* Checker.Stop on one checker: its context is cancelled.  The wait on     *)
(* c.done ends once no goroutine has a live context left, as HealthChecker *)
(* shows.                                                                  *)
StopChecker(o) ==
  /\ ctxs' = [ctxs EXCEPT ![o] = IF cancel[o] THEN @ - 1 ELSE @]
  /\ cancel' = [cancel EXCEPT ![o] = FALSE]

(* A plausible slip: waiting without having cancelled.                     *)
HangsUncancelled(o) == o \in populated /\ ctxs[o] > 0

Hangs(o) == o \in populated /\ ctxs[o] > (IF cancel[o] THEN 1 ELSE 0)

(* The checkers of a snapshot for a set of pools.                          *)
CheckersOf(s, ps) == {<<p, s.checkers[p]>> : p \in {q \in ps : s.checkers[q] # 0}}

(* The build of new objects for pools ps: no server is draining and no     *)
(* checker has been started yet, unless it is one of an earlier build.     *)
Create(new, ps) ==
  LET fresh == {<<p, NewGen(p)>> : p \in ps} IN
  /\ \A p \in ps : Unused(p) # {}
  /\ populated' = (populated \ fresh) \cup
                  {<<p, NewGen(p)>> : p \in {q \in ps : new.poolStates[q].servers # {}}}
  /\ draining' = {d \in draining : <<d[1], d[2]>> \notin fresh}
  /\ started' = started \ fresh
  /\ kept' = kept \cup {p \in ps : new.checkers[p] \notin {0, NewGen(p)}}

Finish(u) == job' = [job EXCEPT ![u] = NoJob]

-----------------------------------------------------------------------------
(* The protocol's last three steps, the same for every updater.  Only the  *)
(* watcher starts several checkers, and nobody else knows of them yet, so  *)
(* starting them one by one is no different from starting them together.   *)
(* Two plausible slips first: nothing is started; the old checkers are     *)
(* stopped before the swap.                                                *)
StartNothing(u) ==
  /\ job[u].stage = "built"
  /\ job' = [job EXCEPT ![u].stage = "started"]
  /\ UNCHANGED <<snap, held, ctxs, cancel, populated, kept, draining, series, started>>

StartAndStopOld(u) ==
  LET news == CheckersOf(job[u].new, job[u].scope)
      olds == CheckersOf(job[u].old, job[u].scope) IN
  /\ job[u].stage = "built"
  /\ ctxs' = [o \in Objects |-> IF o \in news THEN 1 ELSE IF o \in olds THEN 0 ELSE ctxs[o]]
  /\ cancel' = [o \in Objects |-> o \in news \/ (cancel[o] /\ o \notin olds)]
  /\ started' = started \cup news
  /\ job' = [job EXCEPT ![u].stage = "started"]
  /\ UNCHANGED <<snap, held, populated, kept, draining, series>>

StartNew(u) ==
  /\ job[u].stage = "built"
  /\ StartCheckers(CheckersOf(job[u].new, job[u].scope))
  /\ job' = [job EXCEPT ![u].stage = "started"]
  /\ UNCHANGED <<snap, held, populated, kept, draining, series>>

SwapIn(u) ==
  /\ job[u].stage = "started"
  /\ snap' = job[u].new
  /\ job' = [job EXCEPT ![u].stage = "swapped", ![u].new = NoSnap]
  /\ UNCHANGED <<held, ctxs, cancel, populated, kept, draining, series, started>>

(* A plausible slip: the old checkers are left running.                    *)
StopNothing(u) ==
  /\ job[u].stage = "swapped"
  /\ Finish(u)
  /\ UNCHANGED <<snap, held, ctxs, cancel, populated, kept, draining, series, started>>

StopOld(u) ==
  /\ job[u].stage = "swapped"
  /\ LET olds == CheckersOf(job[u].old, job[u].scope) IN
     \/ /\ olds = {}
        /\ Finish(u)
        /\ UNCHANGED <<ctxs, cancel>>
     \/ \E o \in olds :
          /\ StopChecker(o)
          /\ IF Hangs(o)
               THEN job' = [job EXCEPT ![u].stage = "hung"]
               ELSE IF olds = {o}
               THEN Finish(u)
               ELSE job' = [job EXCEPT ![u].scope = @ \ {o[1]}]
  /\ UNCHANGED <<snap, held, populated, kept, draining, series, started>>

=============================================================================
