------------------------- MODULE ControlPlaneProofs -------------------------
(***************************************************************************)
(* Proofs about the control plane, for every set of pools, backends,       *)
(* configurations and concurrent admin requests: what the operators        *)
(* return, the types, the six kinds of steps there are, and two properties *)
(* that hold whatever the updaters do.                                     *)
(***************************************************************************)
EXTENDS ControlPlane, TLAPS

-----------------------------------------------------------------------------
(* What the operators of PoolSnapshots return.                             *)

(* A pool state of some backends is an object, not an absent map entry.    *)
WellNamed(s) == \A p \in Pools : s.poolStates[p].servers # {} => s.poolStates[p].gen # 0

(* A new object's identity is of nothing that anything still refers to.    *)
LEMMA NewGenUnused ==
  ASSUME NEW p \in Pools, Unused(p) # {}
  PROVE  NewGen(p) \in Gens /\ NewGen(p) # 0 /\ ~InUse(p, NewGen(p))
<1>1. NewGen(p) \in Unused(p)
  BY DEF NewGen
<1> QED BY <1>1, SnapshotAssumption DEF Unused

LEMMA FirstGenType == FirstGen \in Gens /\ FirstGen # 0
  BY SnapshotAssumption DEF FirstGen

LEMMA NoSnapType == NoSnap \in Snapshot /\ WellNamed(NoSnap)
  BY SnapshotAssumption DEF NoSnap, NoPool, Snapshot, PoolState, WellNamed

LEMMA NoJobType == NoJob \in Job
  BY NoSnapType DEF NoJob, Job, Stages

(* BuildSnapshot returns a snapshot of the configuration's listeners.      *)
LEMMA BuildSnapshotType ==
  ASSUME NEW cfg \in Configs, NEW resolved \in [Pools -> SUBSET Addrs], NEW gens,
         \A p \in DOMAIN cfg.pools : gens[p] \in Gens
  PROVE  LET s == BuildSnapshot(cfg, resolved, gens) IN
         /\ s \in Snapshot /\ WellNamed(s)
         /\ s.listeners = cfg.listeners
         /\ \A p \in Pools : s.checkers[p] \in {0, s.poolStates[p].gen}
<1> DEFINE s == BuildSnapshot(cfg, resolved, gens)
<1>1. /\ DOMAIN cfg.pools \subseteq Pools
      /\ \A p \in DOMAIN cfg.pools : cfg.pools[p] \in PoolConfig
  BY SnapshotAssumption
<1>2. \A p \in Pools : s.poolStates[p] \in PoolState
  BY <1>1, SnapshotAssumption DEF BuildSnapshot, NewPoolState, NoPool, PoolState, PoolConfig
<1>3. \A p \in Pools : s.checkers[p] \in Gens \cup {0}
  BY <1>1 DEF BuildSnapshot, NewChecker
<1>4. s \in Snapshot
  BY <1>2, <1>3 DEF BuildSnapshot, Snapshot
<1>5. WellNamed(s)
  BY SnapshotAssumption DEF WellNamed, BuildSnapshot, NewPoolState, NoPool
<1>6. \A p \in Pools : s.checkers[p] \in {0, s.poolStates[p].gen}
  BY DEF BuildSnapshot, NewPoolState, NewChecker
<1>7. s.listeners = cfg.listeners
  BY DEF BuildSnapshot
<1> QED BY <1>4, <1>5, <1>6, <1>7

(* UpdatePoolBackends returns a snapshot that differs from the current one *)
(* only in the pool it was called for.                                     *)
LEMMA UpdatePoolBackendsType ==
  ASSUME NEW current \in Snapshot, WellNamed(current), NEW p \in Pools, Unused(p) # {},
         NEW servers \in SUBSET Addrs, NEW poolCfg
  PROVE  LET s == UpdatePoolBackends(current, p, servers, poolCfg) IN
         /\ s \in Snapshot /\ WellNamed(s)
         /\ s.listeners = current.listeners
         /\ s.poolStates[p].gen = NewGen(p)
         /\ s.checkers[p] = IF poolCfg.healthCheck THEN NewGen(p) ELSE current.checkers[p]
         /\ \A q \in Pools \ {p} : /\ s.poolStates[q] = current.poolStates[q]
                                   /\ s.checkers[q] = current.checkers[q]
<1> DEFINE s == UpdatePoolBackends(current, p, servers, poolCfg)
<1>1. NewGen(p) \in Gens /\ NewGen(p) # 0
  BY NewGenUnused
<1>2. NewPoolState(NewGen(p), servers, FALSE) \in PoolState
  BY <1>1 DEF NewPoolState, PoolState
<1>3. s.poolStates \in [Pools -> PoolState] /\ s.checkers \in [Pools -> Gens \cup {0}]
  BY <1>1, <1>2, Zenon DEF UpdatePoolBackends, Snapshot
<1>4. s \in Snapshot
  BY <1>3, Zenon DEF UpdatePoolBackends, Snapshot
<1>5. /\ s.poolStates[p] = NewPoolState(NewGen(p), servers, FALSE)
      /\ s.checkers[p] = IF poolCfg.healthCheck THEN NewGen(p) ELSE current.checkers[p]
      /\ s.listeners = current.listeners
  BY Zenon DEF UpdatePoolBackends, Snapshot
<1>6. \A q \in Pools \ {p} : /\ s.poolStates[q] = current.poolStates[q]
                             /\ s.checkers[q] = current.checkers[q]
  BY DEF UpdatePoolBackends, Snapshot
<1>7. s.poolStates[p].gen = NewGen(p)
  BY <1>5 DEF NewPoolState
<1>8. WellNamed(s)
  BY <1>1, <1>6, <1>7 DEF WellNamed
<1> HIDE DEF s
<1> QED BY <1>4, <1>5, <1>6, <1>7, <1>8, Zenon DEF s

(* In particular only the checker of that pool is replaced, and only if    *)
(* the configuration has health checks.                                    *)
LEMMA UpdatedCheckers ==
  ASSUME NEW current \in Snapshot, NEW p \in Pools, NEW servers, NEW poolCfg
  PROVE  LET s == UpdatePoolBackends(current, p, servers, poolCfg) IN
         /\ s.checkers[p] = IF poolCfg.healthCheck THEN NewGen(p) ELSE current.checkers[p]
         /\ \A q \in Pools \ {p} : s.checkers[q] = current.checkers[q]
  BY DEF UpdatePoolBackends, Snapshot

LEMMA CheckersAreObjects ==
  ASSUME NEW s \in Snapshot, NEW ps \in SUBSET Pools
  PROVE  CheckersOf(s, ps) \subseteq Objects
  BY DEF CheckersOf, Snapshot, Objects


-----------------------------------------------------------------------------
(* The type invariant needs three facts that types do not say: a cancel    *)
(* function belongs to a live context, so Stop never cancels more contexts *)
(* than Start made; a server is found only in a pool state that exists;    *)
(* and a drain request in progress has found its server.                   *)
StoreInv ==
  /\ StoreTypeOK
  /\ \A o \in Objects : cancel[o] => ctxs[o] > 0
  /\ WellNamed(snap)
  /\ \A u \in Updaters : WellNamed(job[u].old) /\ WellNamed(job[u].new)

DrainFound ==
  \A r \in Admins : job[r].stage = "loaded" =>
    /\ drain[r].pool \in Pools
    /\ drain[r].server \in job[r].old.poolStates[drain[r].pool].servers

TypeInv == TypeOK /\ StoreInv /\ DrainFound

LEMMA StartCheckersType ==
  ASSUME StoreInv, NEW objs \in SUBSET Objects, StartCheckers(objs)
  PROVE  /\ ctxs' \in [Objects -> Nat]
         /\ cancel' \in [Objects -> BOOLEAN]
         /\ started' \subseteq Objects
         /\ \A o \in Objects : cancel'[o] => ctxs'[o] > 0
<1>1. ctxs' \in [Objects -> Nat]
  BY DEF StoreInv, StoreTypeOK, StartCheckers
<1>2. cancel' \in [Objects -> BOOLEAN]
  BY DEF StoreInv, StoreTypeOK, StartCheckers
<1>3. started' \subseteq Objects
  BY DEF StoreInv, StoreTypeOK, StartCheckers
<1>4. \A o \in Objects : cancel'[o] => ctxs'[o] > 0
  BY DEF StoreInv, StoreTypeOK, StartCheckers
<1> QED BY <1>1, <1>2, <1>3, <1>4

LEMMA StopCheckerType ==
  ASSUME StoreInv, NEW o \in Objects, StopChecker(o)
  PROVE  /\ ctxs' \in [Objects -> Nat]
         /\ cancel' \in [Objects -> BOOLEAN]
         /\ \A x \in Objects : cancel'[x] => ctxs'[x] > 0
         /\ \A x \in Objects \ {o} : ctxs'[x] = ctxs[x] /\ cancel'[x] = cancel[x]
<1>1. ctxs[o] \in Nat /\ (cancel[o] => ctxs[o] - 1 \in Nat)
  BY DEF StoreInv, StoreTypeOK
<1>2. ctxs' \in [Objects -> Nat]
  BY <1>1 DEF StoreInv, StoreTypeOK, StopChecker
<1>3. cancel' \in [Objects -> BOOLEAN]
  BY DEF StoreInv, StoreTypeOK, StopChecker
<1>4. \A x \in Objects \ {o} : ctxs'[x] = ctxs[x] /\ cancel'[x] = cancel[x]
  BY DEF StoreInv, StoreTypeOK, StopChecker
<1>5. ~cancel'[o]
  BY DEF StoreInv, StoreTypeOK, StopChecker
<1> QED BY <1>2, <1>3, <1>4, <1>5 DEF StoreInv

(* Create only forgets what nobody refers to.                              *)
LEMMA CreateType ==
  ASSUME StoreInv, NEW new, NEW ps \in SUBSET Pools, Create(new, ps)
  PROVE  /\ populated' \subseteq Objects
         /\ draining' \subseteq Pools \X Gens \X Addrs
         /\ started' \subseteq Objects
         /\ kept' \subseteq Pools
         /\ \A p \in ps : Unused(p) # {}
         /\ \A o \in started \ started' : o[1] \in Pools /\ ~InUse(o[1], o[2])
<1>1. \A p \in ps : NewGen(p) \in Gens /\ ~InUse(p, NewGen(p))
  BY NewGenUnused DEF Create
<1>2. populated' \subseteq Objects
  BY <1>1 DEF Create, StoreInv, StoreTypeOK, Objects
<1>3. draining' \subseteq Pools \X Gens \X Addrs
  BY DEF Create, StoreInv, StoreTypeOK
<1>4. started' \subseteq Objects
  BY DEF Create, StoreInv, StoreTypeOK
<1>5. ASSUME NEW o \in started \ started' PROVE o[1] \in Pools /\ ~InUse(o[1], o[2])
  <2>1. PICK p \in ps : o = <<p, NewGen(p)>>
    BY <1>5 DEF Create
  <2> QED BY <1>1, <2>1
<1>6. \A p \in ps : Unused(p) # {}
  BY Zenon DEF Create
<1>7. kept' \subseteq Pools
  BY Zenon DEF Create, StoreInv, StoreTypeOK
<1> QED BY <1>2, <1>3, <1>4, <1>5, <1>6, <1>7

(* Changing one updater's job leaves the jobs well typed.                  *)
LEMMA JobType ==
  ASSUME StoreInv, NEW u \in Updaters, NEW j \in Job,
         WellNamed(j.old), WellNamed(j.new), job' = [job EXCEPT ![u] = j]
  PROVE  /\ job' \in [Updaters -> Job]
         /\ \A v \in Updaters : WellNamed(job[v].old)' /\ WellNamed(job[v].new)'
<1>1. job' \in [Updaters -> Job]
  BY DEF StoreInv, StoreTypeOK
<1>2. job'[u] = j /\ \A v \in Updaters \ {u} : job'[v] = job[v]
  BY DEF StoreInv, StoreTypeOK
<1>3. WellNamed(job'[u].old) /\ WellNamed(job'[u].new)
  BY <1>2
<1>4. \A v \in Updaters \ {u} : WellNamed(job'[v].old) /\ WellNamed(job'[v].new)
  BY <1>2 DEF StoreInv
<1> QED BY <1>1, <1>3, <1>4 DEF WellNamed

-----------------------------------------------------------------------------
(* The steps of the update protocol keep the store's invariant, and change *)
(* no other updater's job.                                                 *)
LEMMA StartNewStep ==
  ASSUME StoreInv, NEW u \in Updaters, StartNew(u)
  PROVE  /\ StoreInv'
         /\ job[u].stage = "built" /\ job'[u].stage = "started"
         /\ job'[u].old = job[u].old /\ job'[u].new = job[u].new /\ job'[u].scope = job[u].scope
         /\ \A v \in Updaters \ {u} : job'[v] = job[v]
<1> DEFINE j == [job[u] EXCEPT !.stage = "started"]
<1>1. job[u] \in Job
  BY DEF StoreInv, StoreTypeOK
<1>2. /\ j \in Job /\ j.old = job[u].old /\ j.new = job[u].new
      /\ j.stage = "started" /\ j.scope = job[u].scope
  BY <1>1 DEF Job, Stages
<1>3. job' = [job EXCEPT ![u] = j]
  BY DEF StartNew
<1>4. job'[u] = j /\ \A v \in Updaters \ {u} : job'[v] = job[v]
  BY <1>3 DEF StoreInv, StoreTypeOK
<1>5. WellNamed(j.old) /\ WellNamed(j.new)
  BY <1>2 DEF StoreInv
<1>6. CheckersOf(job[u].new, job[u].scope) \subseteq Objects
  BY <1>1, CheckersAreObjects DEF Job
<1>7. /\ job' \in [Updaters -> Job]
      /\ \A v \in Updaters : WellNamed(job[v].old)' /\ WellNamed(job[v].new)'
  <2> HIDE DEF j
  <2> QED BY <1>2, <1>3, <1>5, JobType, Zenon
<1>8. /\ ctxs' \in [Objects -> Nat]
      /\ cancel' \in [Objects -> BOOLEAN]
      /\ started' \subseteq Objects
      /\ \A o \in Objects : cancel'[o] => ctxs'[o] > 0
  BY <1>6, StartCheckersType, Zenon DEF StartNew
<1>9. StoreInv'
  BY <1>7, <1>8 DEF StartNew, StoreInv, StoreTypeOK, WellNamed
<1> HIDE DEF j
<1> QED BY <1>2, <1>4, <1>9 DEF StartNew

LEMMA SwapInStep ==
  ASSUME StoreInv, NEW u \in Updaters, SwapIn(u)
  PROVE  /\ StoreInv'
         /\ job[u].stage = "started" /\ job'[u].stage = "swapped"
         /\ job'[u].old = job[u].old /\ job'[u].scope = job[u].scope
         /\ \A v \in Updaters \ {u} : job'[v] = job[v]
<1> DEFINE j == [job[u] EXCEPT !.stage = "swapped", !.new = NoSnap]
<1>1. job[u] \in Job
  BY DEF StoreInv, StoreTypeOK
<1>2. /\ j \in Job /\ j.old = job[u].old /\ j.new = NoSnap
      /\ j.stage = "swapped" /\ j.scope = job[u].scope
  BY <1>1, NoSnapType, Zenon DEF Job, Stages
<1>3. job' = [job EXCEPT ![u] = j]
  BY Zenon DEF SwapIn, StoreInv, StoreTypeOK
<1>4. job'[u] = j /\ \A v \in Updaters \ {u} : job'[v] = job[v]
  BY <1>3 DEF StoreInv, StoreTypeOK
<1>5. WellNamed(j.old) /\ WellNamed(j.new)
  BY <1>2, NoSnapType DEF StoreInv
<1>6. /\ job' \in [Updaters -> Job]
      /\ \A v \in Updaters : WellNamed(job[v].old)' /\ WellNamed(job[v].new)'
  <2> HIDE DEF j
  <2> QED BY <1>2, <1>3, <1>5, JobType, Zenon
<1>7. snap' \in Snapshot /\ WellNamed(snap)'
  BY <1>1 DEF SwapIn, Job, StoreInv, WellNamed
<1>8. StoreInv'
  BY <1>6, <1>7, Zenon DEF SwapIn, StoreInv, StoreTypeOK, WellNamed
<1> HIDE DEF j
<1> QED BY <1>2, <1>4, <1>8, Zenon DEF SwapIn

LEMMA FinishStep ==
  ASSUME StoreInv, NEW u \in Updaters, Finish(u)
  PROVE  /\ job' \in [Updaters -> Job]
         /\ \A v \in Updaters : WellNamed(job[v].old)' /\ WellNamed(job[v].new)'
         /\ job'[u] = NoJob
         /\ \A v \in Updaters \ {u} : job'[v] = job[v]
<1>1. NoJob \in Job /\ WellNamed(NoJob.old) /\ WellNamed(NoJob.new)
  BY NoJobType, NoSnapType DEF NoJob
<1>2. job'[u] = NoJob /\ \A v \in Updaters \ {u} : job'[v] = job[v]
  BY Zenon DEF Finish, StoreInv, StoreTypeOK
<1> QED BY <1>1, <1>2, JobType, Zenon DEF Finish

(* StopOld cancels at most one old checker and ends, hangs, or goes on     *)
(* with a smaller scope.                                                   *)
LEMMA StopOldStep ==
  ASSUME StoreInv, NEW u \in Updaters, StopOld(u)
  PROVE  /\ StoreInv'
         /\ job'[u].stage \in {"idle", "hung", "swapped"}
         /\ job'[u].stage = "idle" => job'[u] = NoJob
         /\ job'[u].stage = "hung" => \E o \in Objects : Hangs(o)
         /\ job'[u].old \in {NoSnap, job[u].old}
         /\ job'[u].scope \subseteq job[u].scope
         /\ \A v \in Updaters \ {u} : job'[v] = job[v]
         /\ \/ UNCHANGED <<ctxs, cancel>>
            \/ \E o \in CheckersOf(job[u].old, job[u].scope) : StopChecker(o)
<1> DEFINE olds == CheckersOf(job[u].old, job[u].scope)
           Ended == /\ job' \in [Updaters -> Job]
                    /\ \A v \in Updaters : WellNamed(job[v].old)' /\ WellNamed(job[v].new)'
                    /\ job'[u].stage \in {"idle", "hung", "swapped"}
                    /\ job'[u].stage = "idle" => job'[u] = NoJob
                    /\ job'[u].old \in {NoSnap, job[u].old}
                    /\ job'[u].scope \subseteq job[u].scope
                    /\ \A v \in Updaters \ {u} : job'[v] = job[v]
<1>1. job[u] \in Job /\ job[u].stage = "swapped" /\ WellNamed(job[u].old) /\ WellNamed(job[u].new)
  BY DEF StoreInv, StoreTypeOK, StopOld
<1>2. olds \subseteq Objects
  BY <1>1, CheckersAreObjects DEF Job
<1>4. ASSUME job' = [job EXCEPT ![u].stage = "hung"] PROVE Ended
  <2> DEFINE j == [job[u] EXCEPT !.stage = "hung"]
  <2>1. j \in Job /\ j.old = job[u].old /\ j.new = job[u].new /\ j.stage = "hung" /\ j.scope = job[u].scope
    BY <1>1 DEF Job, Stages
  <2>2. job' = [job EXCEPT ![u] = j]
    BY <1>4
  <2>3. job'[u] = j /\ \A v \in Updaters \ {u} : job'[v] = job[v]
    BY <2>2 DEF StoreInv, StoreTypeOK
  <2> HIDE DEF j
  <2> QED BY <1>1, <2>1, <2>2, <2>3, JobType, Zenon
<1>5. ASSUME NEW o \in olds, job' = [job EXCEPT ![u].scope = @ \ {o[1]}] PROVE Ended
  <2> DEFINE j == [job[u] EXCEPT !.scope = @ \ {o[1]}]
  <2>1. j \in Job /\ j.old = job[u].old /\ j.new = job[u].new /\ j.stage = "swapped" /\ j.scope \subseteq job[u].scope
    BY <1>1 DEF Job
  <2>2. job' = [job EXCEPT ![u] = j]
    BY <1>5
  <2>3. job'[u] = j /\ \A v \in Updaters \ {u} : job'[v] = job[v]
    BY <2>2, Zenon DEF StoreInv, StoreTypeOK
  <2> HIDE DEF j
  <2> QED BY <1>1, <2>1, <2>2, <2>3, JobType, Zenon
<1>6. Ended
  <2>1. CASE Finish(u)
    BY <2>1, FinishStep DEF NoJob
  <2> QED BY <2>1, <1>4, <1>5 DEF StopOld
<1>7. UNCHANGED <<ctxs, cancel>> \/ \E o \in olds : StopChecker(o)
  BY DEF StopOld
<1>8. /\ ctxs' \in [Objects -> Nat] /\ cancel' \in [Objects -> BOOLEAN]
      /\ \A x \in Objects : cancel'[x] => ctxs'[x] > 0
  <2>1. CASE UNCHANGED <<ctxs, cancel>>
    BY <2>1, Zenon DEF StoreInv, StoreTypeOK
  <2>2. CASE \E o \in olds : StopChecker(o)
    BY <1>2, <2>2, StopCheckerType, Zenon
  <2> QED BY <1>7, <2>1, <2>2
<1>9. StoreInv'
  BY <1>6, <1>8 DEF StopOld, StoreInv, StoreTypeOK, WellNamed
<1>10. job'[u].stage = "hung" => \E o \in Objects : Hangs(o)
  <2>1. ASSUME Finish(u) PROVE job'[u].stage = "idle"
    BY <2>1, FinishStep DEF NoJob
  <2>2. ASSUME NEW o \in olds, job' = [job EXCEPT ![u].scope = @ \ {o[1]}] PROVE job'[u].stage = "swapped"
    BY <1>1, <2>2, Zenon DEF Job, StoreInv, StoreTypeOK
  <2> QED BY <1>2, <2>1, <2>2 DEF StopOld
<1> HIDE DEF olds
<1> QED BY <1>6, <1>7, <1>9, <1>10 DEF olds

-----------------------------------------------------------------------------
(* The two builds.  The pollers and the admin handlers share the partial   *)
(* one, of the servers they found for one pool.                            *)
PartialBuild(u, p, servers) ==
  LET new == UpdatePoolBackends(snap, p, servers, StartCfg.pools[p]) IN
  /\ Create(new, {p})
  /\ job' = [job EXCEPT ![u] = [stage |-> "built", old |-> snap, new |-> new, scope |-> {p}]]
  /\ UNCHANGED <<snap, held, ctxs, cancel>>

LEMMA PartialBuildStep ==
  ASSUME StoreInv, NEW u \in Updaters, NEW p \in Pools, NEW servers \in SUBSET Addrs,
         PartialBuild(u, p, servers), series' \subseteq series
  PROVE  /\ StoreInv'
         /\ job'[u].stage = "built" /\ job'[u].scope = {p} /\ job'[u].old = snap
         /\ job'[u].new = UpdatePoolBackends(snap, p, servers, StartCfg.pools[p])
         /\ \A v \in Updaters \ {u} : job'[v] = job[v]
         /\ \A o \in started \ started' : o[1] \in Pools /\ ~InUse(o[1], o[2])
<1> DEFINE new == UpdatePoolBackends(snap, p, servers, StartCfg.pools[p])
           j   == [stage |-> "built", old |-> snap, new |-> new, scope |-> {p}]
<1>1. Create(new, {p}) /\ job' = [job EXCEPT ![u] = j]
  BY DEF PartialBuild
<1>2. /\ populated' \subseteq Objects /\ draining' \subseteq Pools \X Gens \X Addrs
      /\ started' \subseteq Objects /\ kept' \subseteq Pools /\ Unused(p) # {}
      /\ \A o \in started \ started' : o[1] \in Pools /\ ~InUse(o[1], o[2])
  <2> HIDE DEF new
  <2> QED BY <1>1, CreateType
<1>3. snap \in Snapshot /\ WellNamed(snap)
  BY DEF StoreInv, StoreTypeOK
<1>4. new \in Snapshot /\ WellNamed(new)
  BY <1>2, <1>3, UpdatePoolBackendsType, Zenon
<1> HIDE DEF new
<1>5. j \in Job /\ WellNamed(j.old) /\ WellNamed(j.new)
  BY <1>3, <1>4, Zenon DEF Job, Stages
<1>6. job'[u] = j /\ \A v \in Updaters \ {u} : job'[v] = job[v]
  BY <1>1 DEF StoreInv, StoreTypeOK
<1>7. /\ job' \in [Updaters -> Job]
      /\ \A v \in Updaters : WellNamed(job[v].old)' /\ WellNamed(job[v].new)'
  <2> HIDE DEF j
  <2> QED BY <1>1, <1>5, JobType, Zenon
<1>8. StoreInv'
  BY <1>2, <1>7, Zenon DEF PartialBuild, StoreInv, StoreTypeOK, WellNamed
<1> QED BY <1>2, <1>6, <1>8 DEF new

LEMMA ResolutionsType ==
  ASSUME TypeOK, NEW cfg \in Configs, NEW resolved \in Resolutions(cfg)
  PROVE  resolved \in [Pools -> SUBSET Addrs]
  BY SourceAssumption DEF Resolutions

LEMMA CleanupShrinks == \A old, new : CleanupRemovedBackends(old, new) \subseteq series
  BY Zenon DEF CleanupRemovedBackends

LEMMA BuildNewStep ==
  ASSUME TypeOK, StoreInv, NEW resolved \in Resolutions(reading), BuildNew(resolved)
  PROVE  /\ StoreInv'
         /\ job'[Watcher].stage = "built" /\ job'[Watcher].scope = Pools
         /\ job'[Watcher].old = job[Watcher].old
         /\ job'[Watcher].new.listeners = reading.listeners
         /\ job'[Watcher].new =
              BuildSnapshot(reading, resolved, [p \in DOMAIN reading.pools |-> NewGen(p)])
         /\ \A p \in DOMAIN reading.pools : p \in Pools /\ Unused(p) # {}
         /\ \A p \in Pools : job'[Watcher].new.checkers[p] \in {0, job'[Watcher].new.poolStates[p].gen}
         /\ \A v \in Updaters \ {Watcher} : job'[v] = job[v]
         /\ \A o \in started \ started' : o[1] \in Pools /\ ~InUse(o[1], o[2])
<1> DEFINE gens == [p \in DOMAIN reading.pools |-> NewGen(p)]
           new  == BuildSnapshot(reading, resolved, gens)
           j    == [stage |-> "built", old |-> job[Watcher].old, new |-> new, scope |-> Pools]
<1>1. /\ Create(new, DOMAIN reading.pools) /\ job' = [job EXCEPT ![Watcher] = j]
      /\ UNCHANGED <<snap, held, ctxs, cancel>>
      /\ series' \subseteq series
  BY CleanupShrinks, Zenon DEF BuildNew
<1>2. reading \in Configs /\ DOMAIN reading.pools \subseteq Pools /\ Watcher \in Updaters
  BY SnapshotAssumption DEF TypeOK, WatcherTypeOK, Updaters
<1>3. /\ populated' \subseteq Objects /\ draining' \subseteq Pools \X Gens \X Addrs
      /\ started' \subseteq Objects /\ kept' \subseteq Pools
      /\ \A p \in DOMAIN reading.pools : Unused(p) # {}
      /\ \A o \in started \ started' : o[1] \in Pools /\ ~InUse(o[1], o[2])
  <2> HIDE DEF new
  <2> QED BY <1>1, <1>2, CreateType
<1>4. \A p \in DOMAIN reading.pools : gens[p] \in Gens
  BY <1>2, <1>3, NewGenUnused, Zenon
<1>5. /\ new \in Snapshot /\ WellNamed(new) /\ new.listeners = reading.listeners
      /\ \A p \in Pools : new.checkers[p] \in {0, new.poolStates[p].gen}
  <2>1. resolved \in [Pools -> SUBSET Addrs]
    BY <1>2, ResolutionsType
  <2> HIDE DEF gens
  <2> QED BY <1>2, <1>4, <2>1, BuildSnapshotType, SMTT(20)
<1> HIDE DEF new, gens
<1>6. job[Watcher] \in Job /\ WellNamed(job[Watcher].old)
  BY <1>2, Zenon DEF StoreInv, StoreTypeOK
<1>7. j \in Job /\ WellNamed(j.old) /\ WellNamed(j.new)
  BY <1>5, <1>6 DEF Job, Stages
<1>8. job'[Watcher] = j /\ \A v \in Updaters \ {Watcher} : job'[v] = job[v]
  BY <1>1, <1>2 DEF StoreInv, StoreTypeOK
<1>9. /\ job' \in [Updaters -> Job]
      /\ \A v \in Updaters : WellNamed(job[v].old)' /\ WellNamed(job[v].new)'
  <2> HIDE DEF j
  <2> QED BY <1>1, <1>2, <1>7, JobType, Zenon
<1>10. StoreInv'
  BY <1>1, <1>3, <1>9 DEF StoreInv, StoreTypeOK, WellNamed
<1> QED BY <1>2, <1>3, <1>5, <1>8, <1>10 DEF new, gens

-----------------------------------------------------------------------------
(* Every step is of one of six kinds.  A quiet one publishes nothing,      *)
(* starts no checker and leaves the updaters that hold an unpublished      *)
(* snapshot alone; it may stop a checker, and waits for ever only if that  *)
(* checker hangs.                                                          *)
Holding(u) == job[u].stage \in {"built", "started"}

Quiet ==
  /\ UNCHANGED <<snap, started, kept>>
  /\ main = "starting" => UNCHANGED <<main, held>>
  /\ main # "starting" => main' # "starting"
  /\ \A u \in Updaters : Holding(u)' => job'[u] = job[u]
  /\ UNCHANGED <<ctxs, cancel>> \/ \E o \in Objects : StopChecker(o)
  /\ NobodyHangs /\ ~NobodyHangs' => \E o \in Objects : Hangs(o)

Kind ==
  \/ Quiet
  \/ StartUp
  \/ \E u \in Updaters : StartNew(u) /\ UNCHANGED main
  \/ \E u \in Updaters : SwapIn(u) /\ UNCHANGED main
  \/ \E u \in DiscPools \cup Admins, p \in DOMAIN StartCfg.pools, servers \in SUBSET Addrs :
       PartialBuild(u, p, servers) /\ UNCHANGED main
  \/ \E resolved \in Resolutions(reading) : BuildNew(resolved) /\ UNCHANGED main

LEMMA UpdaterTypes ==
  /\ Watcher \in Updaters /\ Watcher \notin Admins /\ Watcher \notin Pools
  /\ \A p \in DiscPools : p \in Updaters /\ p \in Pools /\ p \notin Admins /\ p # Watcher
                          /\ p \in DOMAIN StartCfg.pools
  /\ \A r \in Admins : r \in Updaters /\ r # Watcher
  /\ DOMAIN StartCfg.pools \subseteq Pools
  BY SnapshotAssumption, Zenon DEF Updaters, DiscPools

(* A drain in progress keeps its server unless its own request moves.      *)
LEMMA DrainKept ==
  ASSUME DrainFound, job'  \in [Updaters -> Job],
         \A r \in Admins : job'[r].stage = "loaded" => job'[r] = job[r] /\ drain'[r] = drain[r]
  PROVE  DrainFound'
  BY Zenon DEF DrainFound

LEMMA StoreKept ==
  ASSUME TypeInv, UNCHANGED store
  PROVE  StoreInv' /\ StoreTypeOK' /\ (UNCHANGED drain => DrainFound')
<1>1. StoreInv' /\ StoreTypeOK'
  BY Zenon DEF TypeInv, StoreInv, StoreTypeOK, store, WellNamed
<1>2. UNCHANGED drain => DrainFound'
  BY DEF TypeInv, DrainFound, store
<1> QED BY <1>1, <1>2

(* The steps that leave the store alone.                                   *)
LEMMA AsideStep ==
  ASSUME TypeInv,
         \/ waitForSignal \/ WatcherStopped \/ AdminClosed
         \/ \E p \in pollersLeft : StopPoller(p)
         \/ \E p \in DiscPools : SourceChanges(p) /\ UNCHANGED <<watcherVars, adminVars, mainVars>>
         \/ ReplaceCerts /\ UNCHANGED <<pollerVars, adminVars, mainVars>>
         \/ UNCHANGED vars
  PROVE  TypeInv' /\ Quiet
<1>1. UNCHANGED <<store, adminVars>>
  BY DEF waitForSignal, WatcherStopped, AdminClosed, StopPoller, SourceChanges,
         ReplaceCerts, vars
<1>2. StoreInv' /\ StoreTypeOK' /\ DrainFound'
  BY <1>1, StoreKept, Zenon DEF adminVars
<1>3. WatcherTypeOK'
  BY Zenon DEF waitForSignal, WatcherStopped, AdminClosed, StopPoller, SourceChanges,
         ReplaceCerts, vars, TypeInv, TypeOK, WatcherTypeOK, watcherVars
<1>4. PollerTypeOK'
  <2>1. CASE UNCHANGED pollerVars
    BY <2>1 DEF TypeInv, TypeOK, PollerTypeOK, pollerVars
  <2>2. CASE \E p \in DiscPools : SourceChanges(p)
    BY <2>2, Zenon DEF SourceChanges, TypeInv, TypeOK, PollerTypeOK
  <2> QED BY <2>1, <2>2 DEF waitForSignal, WatcherStopped, AdminClosed, StopPoller, 
         ReplaceCerts, vars
<1>5. AdminTypeOK'
  BY <1>1, Zenon DEF TypeInv, TypeOK, AdminTypeOK, adminVars
<1>6. main' \in MainStages /\ pollersLeft' \subseteq DiscPools
  BY Zenon DEF waitForSignal, WatcherStopped, AdminClosed, StopPoller, SourceChanges,
         ReplaceCerts, vars, TypeInv, TypeOK, mainVars, MainStages
<1>7. /\ main = "starting" => main' = main
      /\ main # "starting" => main' # "starting"
      /\ main # "hung" => main' # "hung"
  BY Zenon DEF waitForSignal, WatcherStopped, AdminClosed, StopPoller, SourceChanges,
         ReplaceCerts, vars, mainVars
<1>8. Quiet
  BY <1>1, <1>7, Zenon DEF Quiet, store, NobodyHangs
<1> QED BY <1>2, <1>3, <1>4, <1>5, <1>6, <1>8 DEF TypeInv, TypeOK

(* main's own steps on the store, and the proxies'.                        *)
LEMMA StartUpStep ==
  ASSUME TypeInv, StartUp
  PROVE  TypeInv'
<1>1. StoreInv /\ held \in Snapshot
  BY DEF TypeInv, StoreInv, StoreTypeOK
<1>2. CheckersOf(held, Pools) \in SUBSET Objects
  BY <1>1, CheckersAreObjects
<1>3. /\ ctxs' \in [Objects -> Nat] /\ cancel' \in [Objects -> BOOLEAN] /\ started' \subseteq Objects
      /\ \A o \in Objects : cancel'[o] => ctxs'[o] > 0
  BY <1>1, <1>2, StartCheckersType, Zenon DEF StartUp
<1>4. StoreInv' /\ StoreTypeOK'
  BY <1>1, <1>3, NoSnapType, Zenon DEF StartUp, StoreInv, StoreTypeOK, WellNamed
<1>5. DrainFound'
  BY Zenon DEF StartUp, TypeInv, DrainFound, adminVars
<1> QED BY <1>4, <1>5, Zenon
    DEF StartUp, TypeInv, TypeOK, WatcherTypeOK, PollerTypeOK, AdminTypeOK, watcherVars, pollerVars,
        adminVars, MainStages

LEMMA PollersStoppedStep ==
  ASSUME TypeInv, PollersStopped
  PROVE  TypeInv' /\ Quiet
<1>1. StoreInv' /\ StoreTypeOK'
  BY Zenon DEF PollersStopped, TypeInv, StoreInv, StoreTypeOK, WellNamed
<1>2. DrainFound'
  BY Zenon DEF PollersStopped, TypeInv, DrainFound, adminVars
<1>3. TypeOK'
  BY <1>1 DEF PollersStopped, TypeInv, TypeOK, WatcherTypeOK, PollerTypeOK, AdminTypeOK,
        watcherVars, pollerVars, adminVars, MainStages
<1> QED BY <1>1, <1>2, <1>3, Zenon DEF PollersStopped, TypeInv, Quiet, NobodyHangs

LEMMA StopLiveCheckersStep ==
  ASSUME TypeInv, StopLiveCheckers
  PROVE  TypeInv' /\ Quiet
<1>1. StoreInv /\ held \in Snapshot
  BY DEF TypeInv, StoreInv, StoreTypeOK
<1>2. CheckersOf(held, Pools) \subseteq Objects
  BY <1>1, CheckersAreObjects
<1>3. /\ ctxs' \in [Objects -> Nat] /\ cancel' \in [Objects -> BOOLEAN]
      /\ \A o \in Objects : cancel'[o] => ctxs'[o] > 0
  <2>1. CASE UNCHANGED <<ctxs, cancel>>
    BY <1>1, <2>1, Zenon DEF StoreInv, StoreTypeOK
  <2>2. CASE \E o \in CheckersOf(held, Pools) : StopChecker(o)
    BY <1>1, <1>2, <2>2, StopCheckerType
  <2> QED BY <2>1, <2>2, Zenon DEF StopLiveCheckers
<1>4. held' \in Snapshot
  BY <1>1, NoSnapType, Zenon DEF StopLiveCheckers, Snapshot
<1>5. StoreInv' /\ StoreTypeOK'
  BY <1>1, <1>3, <1>4, Zenon DEF StopLiveCheckers, StoreInv, StoreTypeOK, WellNamed
<1>6. DrainFound'
  BY DEF StopLiveCheckers, TypeInv, DrainFound, adminVars
<1>7. TypeOK'
  BY <1>5 DEF StopLiveCheckers, TypeInv, TypeOK, WatcherTypeOK, PollerTypeOK, AdminTypeOK,
        watcherVars, pollerVars, adminVars, MainStages
<1>8. /\ UNCHANGED <<ctxs, cancel>> \/ \E o \in Objects : StopChecker(o)
      /\ NobodyHangs /\ ~NobodyHangs' => \E o \in Objects : Hangs(o)
  BY <1>2 DEF StopLiveCheckers, NobodyHangs
<1>9. Quiet
  BY <1>8, Zenon DEF StopLiveCheckers, Quiet
<1> QED BY <1>5, <1>6, <1>7, <1>9 DEF TypeInv

LEMMA TrafficStep ==
  ASSUME TypeInv, NEW p \in Pools, NEW a \in Addrs, Traffic(p, a)
  PROVE  TypeInv' /\ Quiet
<1>1. StoreInv' /\ StoreTypeOK'
  BY DEF Traffic, TypeInv, StoreInv, StoreTypeOK, WellNamed
<1>2. DrainFound'
  BY Zenon DEF Traffic, TypeInv, DrainFound, adminVars
<1>3. TypeOK'
  BY <1>1 DEF Traffic, TypeInv, TypeOK, WatcherTypeOK, PollerTypeOK, AdminTypeOK,
        watcherVars, pollerVars, adminVars, mainVars
<1> QED BY <1>1, <1>2, <1>3, Zenon DEF Traffic, TypeInv, Quiet, NobodyHangs, mainVars

-----------------------------------------------------------------------------
(* The protocol's last three steps, in the hands of any updater u: what    *)
(* they do to the types, to a drain in progress and to the kind.           *)
LEMMA ProtocolStep ==
  ASSUME TypeInv, NEW u \in Updaters, StartNew(u) \/ SwapIn(u) \/ StopOld(u),
         UNCHANGED <<drain, main>>
  PROVE  StoreInv' /\ StoreTypeOK' /\ DrainFound' /\ Kind
<1>1. StoreInv
  BY Zenon DEF TypeInv
<1>2. CASE StartNew(u)
  <2>1. StoreInv' /\ job'[u].stage # "loaded" /\ \A v \in Updaters \ {u} : job'[v] = job[v]
    BY <1>1, <1>2, StartNewStep, Zenon DEF StoreInv, StoreTypeOK, Job
  <2>2. DrainFound'
    BY <2>1, DrainKept, UpdaterTypes DEF TypeInv, StoreInv, StoreTypeOK
  <2> QED BY <1>2, <2>1, <2>2, Zenon DEF Kind, StoreInv
<1>3. CASE SwapIn(u)
  <2>1. StoreInv' /\ job'[u].stage # "loaded" /\ \A v \in Updaters \ {u} : job'[v] = job[v]
    BY <1>1, <1>3, SwapInStep DEF StoreInv, StoreTypeOK, Job
  <2>2. DrainFound'
    BY <2>1, DrainKept, UpdaterTypes DEF TypeInv, StoreInv, StoreTypeOK
  <2> QED BY <1>3, <2>1, <2>2, Zenon DEF Kind, StoreInv
<1>4. CASE StopOld(u)
  <2>1. /\ StoreInv' /\ job'[u].stage \in {"idle", "hung", "swapped"}
        /\ \A v \in Updaters \ {u} : job'[v] = job[v]
    BY <1>1, <1>4, StopOldStep, Zenon
  <2>2. DrainFound'
    BY <2>1, DrainKept, UpdaterTypes, Zenon DEF TypeInv, StoreInv, StoreTypeOK
  <2>3. CheckersOf(job[u].old, job[u].scope) \subseteq Objects
    BY <1>1, CheckersAreObjects, Zenon DEF StoreInv, StoreTypeOK, Job
  <2>4. /\ UNCHANGED <<ctxs, cancel>> \/ \E o \in Objects : StopChecker(o)
        /\ job'[u].stage = "hung" => \E o \in Objects : Hangs(o)
    BY <1>1, <1>4, <2>3, StopOldStep, Zenon
  <2>5. NobodyHangs /\ ~NobodyHangs' => \E o \in Objects : Hangs(o)
    BY <2>1, <2>4 DEF NobodyHangs
  <2>6. Quiet
    BY <1>4, <2>1, <2>4, <2>5, Zenon DEF StopOld, Quiet, Holding
  <2> QED BY <2>1, <2>2, <2>6, Zenon DEF Kind, StoreInv
<1> QED BY <1>2, <1>3, <1>4

(* An updater whose job becomes j, which holds no unpublished snapshot,    *)
(* while only the draining servers may change in the store.                *)
LEMMA JobOnlyStep ==
  ASSUME TypeInv, NEW u \in Updaters, NEW j \in Job, WellNamed(j.old), WellNamed(j.new),
         j.stage \in {"idle", "loaded"}, job' = [job EXCEPT ![u] = j],
         draining' \subseteq Pools \X Gens \X Addrs,
         UNCHANGED <<snap, held, ctxs, cancel, populated, kept, series, started, main>>
  PROVE  /\ StoreInv' /\ StoreTypeOK' /\ Kind
         /\ job'[u] = j /\ \A v \in Updaters \ {u} : job'[v] = job[v]
<1>1. StoreInv
  BY Zenon DEF TypeInv
<1>2. job'[u] = j /\ \A v \in Updaters \ {u} : job'[v] = job[v]
  BY <1>1 DEF StoreInv, StoreTypeOK
<1>3. /\ job' \in [Updaters -> Job]
      /\ \A v \in Updaters : WellNamed(job[v].old)' /\ WellNamed(job[v].new)'
  BY <1>1, JobType, Zenon
<1>4. StoreInv'
  BY <1>1, <1>3, Zenon DEF StoreInv, StoreTypeOK, WellNamed
<1>5. Quiet
  BY <1>2, Zenon DEF Quiet, Holding, NobodyHangs
<1> QED BY <1>2, <1>4, <1>5, Zenon DEF Kind, StoreInv

LEMMA ReloadStep ==
  ASSUME TypeInv, Reload
  PROVE  TypeInv' /\ Kind
<1>1. StoreInv /\ job[Watcher] \in Job
  BY UpdaterTypes, Zenon DEF TypeInv, StoreInv, StoreTypeOK
<1>2. PollerTypeOK' /\ AdminTypeOK' /\ UNCHANGED <<drain, main>>
      /\ main' \in MainStages /\ pollersLeft' \subseteq DiscPools
  BY DEF Reload, TypeInv, TypeOK, PollerTypeOK, AdminTypeOK, pollerVars, adminVars, mainVars
<1>3. WatcherTypeOK'
  BY SnapshotAssumption, Zenon
     DEF Reload, ReadConfig, BuildNew, WatcherStep, ReplaceCerts, CertsUnreadable, BuildFails,
         Abandon, StartCheckersOfReload, Swap, StopCheckersOfReload, TypeInv, TypeOK,
         WatcherTypeOK, watcherVars
<1>4. CASE ReadConfig
  <2> DEFINE j == [job[Watcher] EXCEPT !.stage = "loaded", !.old = snap]
  <2>1. /\ j \in Job /\ j.old = snap /\ j.new = job[Watcher].new /\ j.stage = "loaded"
        /\ WellNamed(snap) /\ WellNamed(job[Watcher].new)
    BY <1>1, UpdaterTypes, Zenon DEF Job, Stages, StoreInv, StoreTypeOK
  <2>2. job' = [job EXCEPT ![Watcher] = j]
    BY <1>4, UpdaterTypes, <1>1, Zenon DEF ReadConfig, StoreInv, StoreTypeOK
  <2>3. /\ draining' \subseteq Pools \X Gens \X Addrs
        /\ UNCHANGED <<snap, held, ctxs, cancel, populated, kept, series, started>>
    BY <1>1, <1>4 DEF ReadConfig, StoreInv, StoreTypeOK
  <2> HIDE DEF j
  <2>4. StoreInv' /\ StoreTypeOK' /\ Kind /\ \A v \in Updaters \ {Watcher} : job'[v] = job[v]
    BY <1>2, <2>1, <2>2, <2>3, JobOnlyStep, UpdaterTypes, Zenon
  <2>5. DrainFound'
    BY <1>2, <2>4, DrainKept, UpdaterTypes, Zenon DEF TypeInv, StoreTypeOK
  <2> QED BY <1>2, <1>3, <2>4, <2>5 DEF TypeInv, TypeOK
<1>5. CASE \E resolved \in Resolutions(reading) : BuildNew(resolved)
  <2>1. StoreInv' /\ \A v \in Updaters \ {Watcher} : job'[v] = job[v]
    BY <1>1, <1>5, BuildNewStep, Zenon DEF TypeInv
  <2>2. DrainFound'
    BY <1>2, <2>1, DrainKept, UpdaterTypes DEF TypeInv, StoreInv, StoreTypeOK
  <2>3. Kind
    BY <1>2, <1>5, Zenon DEF Kind
  <2> QED BY <1>2, <1>3, <2>1, <2>2, <2>3 DEF TypeInv, TypeOK, StoreInv
<1>6. CASE ReplaceCerts
  BY <1>6, AsideStep, Zenon DEF Reload, Kind
<1>7. CASE CertsUnreadable \/ BuildFails
  <2>1. /\ Finish(Watcher)
        /\ UNCHANGED <<snap, held, ctxs, cancel, populated, kept, draining, series, started>>
    BY <1>7, Zenon DEF CertsUnreadable, BuildFails, Abandon
  <2>2. NoJob \in Job /\ WellNamed(NoJob.old) /\ WellNamed(NoJob.new) /\ NoJob.stage = "idle"
    BY NoJobType, NoSnapType, Zenon DEF NoJob
  <2>3. draining' \subseteq Pools \X Gens \X Addrs
    BY <1>1, <2>1 DEF StoreInv, StoreTypeOK
  <2>4. StoreInv' /\ StoreTypeOK' /\ Kind /\ \A v \in Updaters \ {Watcher} : job'[v] = job[v]
    BY <1>2, <2>1, <2>2, <2>3, JobOnlyStep, UpdaterTypes, Zenon DEF Finish
  <2>5. DrainFound'
    BY <1>2, <2>4, DrainKept, UpdaterTypes DEF TypeInv, StoreTypeOK
  <2> QED BY <1>2, <1>3, <2>4, <2>5 DEF TypeInv, TypeOK
<1>8. CASE StartCheckersOfReload \/ Swap \/ StopCheckersOfReload
  <2>1. StartNew(Watcher) \/ SwapIn(Watcher) \/ StopOld(Watcher)
    BY <1>8, Zenon DEF StartCheckersOfReload, Swap, StopCheckersOfReload
  <2>2. StoreInv' /\ StoreTypeOK' /\ DrainFound' /\ Kind
    BY <1>2, <2>1, ProtocolStep, UpdaterTypes, Zenon
  <2> QED BY <1>2, <1>3, <2>2 DEF TypeInv, TypeOK
<1> QED BY <1>4, <1>5, <1>6, <1>7, <1>8, Zenon DEF Reload, WatcherStep

LEMMA PollingStep ==
  ASSUME TypeInv, NEW p \in DiscPools, Polling(p)
  PROVE  TypeInv' /\ Kind
<1>1. StoreInv /\ job[p] \in Job /\ p \in Updaters /\ p \in Pools /\ p \notin Admins
      /\ p \in DOMAIN StartCfg.pools
  BY UpdaterTypes, Zenon DEF TypeInv, StoreInv, StoreTypeOK
<1>2. WatcherTypeOK' /\ AdminTypeOK' /\ UNCHANGED <<drain, main>>
      /\ main' \in MainStages /\ pollersLeft' \subseteq DiscPools
  BY Zenon DEF Polling, TypeInv, TypeOK, WatcherTypeOK, AdminTypeOK, watcherVars, adminVars, mainVars
<1>3. CASE Poll(p)
  <2> DEFINE j == [job[p] EXCEPT !.stage = "loaded"]
  <2>1. /\ j \in Job /\ j.old = job[p].old /\ j.new = job[p].new /\ j.stage = "loaded"
        /\ WellNamed(job[p].old) /\ WellNamed(job[p].new)
    BY <1>1 DEF Job, Stages, StoreInv
  <2>2. job' = [job EXCEPT ![p] = j]
    BY <1>3 DEF Poll
  <2>3. /\ draining' \subseteq Pools \X Gens \X Addrs
        /\ UNCHANGED <<snap, held, ctxs, cancel, populated, kept, series, started>>
    BY <1>1, <1>3 DEF Poll, StoreInv, StoreTypeOK
  <2> HIDE DEF j
  <2>4. StoreInv' /\ StoreTypeOK' /\ Kind /\ \A v \in Updaters \ {p} : job'[v] = job[v]
    BY <1>1, <1>2, <2>1, <2>2, <2>3, JobOnlyStep, Zenon
  <2>5. DrainFound'
    BY <1>1, <1>2, <2>4, DrainKept, UpdaterTypes DEF TypeInv, StoreTypeOK
  <2>6. PollerTypeOK'
    BY <1>1, <1>3, SourceAssumption DEF Poll, TypeInv, TypeOK, PollerTypeOK
  <2> QED BY <1>2, <2>4, <2>5, <2>6 DEF TypeInv, TypeOK
<1>4. CASE Update(p)
  <2>1. found[p] \in SUBSET Addrs
    BY <1>1, Zenon DEF TypeInv, TypeOK, PollerTypeOK
  <2>2. PartialBuild(p, p, found[p]) /\ series' \subseteq series
    BY <1>4, CleanupShrinks DEF Update, PartialBuild
  <2>3. StoreInv' /\ \A v \in Updaters \ {p} : job'[v] = job[v]
    BY <1>1, <2>1, <2>2, PartialBuildStep, Zenon
  <2>4. DrainFound'
    BY <1>1, <1>2, <2>3, DrainKept, UpdaterTypes DEF TypeInv, StoreInv, StoreTypeOK
  <2>5. Kind
    BY <1>1, <1>2, <2>1, <2>2, Zenon DEF Kind
  <2>6. PollerTypeOK'
    BY <1>1, <1>4, Zenon DEF Update, TypeInv, TypeOK, PollerTypeOK
  <2> QED BY <1>2, <2>3, <2>4, <2>5, <2>6, Zenon DEF TypeInv, TypeOK, StoreInv
<1>5. CASE (StartNew(p) \/ SwapIn(p) \/ StopOld(p)) /\ UNCHANGED pollerVars
  <2>1. StoreInv' /\ StoreTypeOK' /\ DrainFound' /\ Kind
    BY <1>1, <1>2, <1>5, ProtocolStep, Zenon
  <2>2. PollerTypeOK'
    BY <1>5 DEF TypeInv, TypeOK, PollerTypeOK, pollerVars
  <2> QED BY <1>2, <2>1, <2>2 DEF TypeInv, TypeOK
<1> QED BY <1>3, <1>4, <1>5, Zenon DEF Polling, PollerStep

LEMMA AdminRequestStep ==
  ASSUME TypeInv, NEW r \in Admins, AdminRequest(r), UNCHANGED main
  PROVE  StoreInv' /\ StoreTypeOK' /\ DrainFound' /\ Kind /\ AdminTypeOK'
<1>1. StoreInv /\ job[r] \in Job /\ r \in Updaters /\ snap \in Snapshot
  BY UpdaterTypes DEF TypeInv, StoreInv, StoreTypeOK
<1>2. PICK p \in Pools, a \in Addrs : \/ addBackend(r, p, a) \/ removeBackend(r, p, a)
                                      \/ FindServer(r, p, a, TRUE) \/ FindServer(r, p, a, FALSE)
  BY AdminAssumption DEF AdminRequest
<1>3. ASSUME NEW servers \in SUBSET Addrs, Prepare(r, p, servers), StaticPool(p), UNCHANGED adminVars
      PROVE  StoreInv' /\ StoreTypeOK' /\ DrainFound' /\ Kind /\ AdminTypeOK'
  <2>1. PartialBuild(r, p, servers) /\ series' \subseteq series /\ p \in DOMAIN StartCfg.pools
    BY <1>3 DEF Prepare, PartialBuild, StaticPool
  <2>2. /\ StoreInv' /\ job'[r].stage = "built"
        /\ \A v \in Updaters \ {r} : job'[v] = job[v]
    BY <1>1, <2>1, PartialBuildStep, Zenon
  <2>3. DrainFound'
    BY <1>3, <2>2, DrainKept, UpdaterTypes, Zenon DEF TypeInv, StoreInv, StoreTypeOK, adminVars
  <2>4. Kind
    BY <1>1, <2>1, Zenon DEF Kind
  <2>5. AdminTypeOK'
    BY <1>3, Zenon DEF TypeInv, TypeOK, AdminTypeOK, adminVars
  <2> QED BY <2>2, <2>3, <2>4, <2>5, Zenon DEF StoreInv
<1>4. snap.poolStates[p].servers \in SUBSET Addrs
  BY <1>1 DEF Snapshot, PoolState
<1>5. CASE addBackend(r, p, a)
  BY <1>3, <1>4, <1>5, Zenon DEF addBackend, adminVars
<1>6. CASE removeBackend(r, p, a)
  BY <1>3, <1>4, <1>6, Zenon DEF removeBackend, adminVars
<1>7. ASSUME NEW on \in BOOLEAN, FindServer(r, p, a, on)
      PROVE  StoreInv' /\ StoreTypeOK' /\ DrainFound' /\ Kind /\ AdminTypeOK'
  <2> DEFINE j == [job[r] EXCEPT !.stage = "loaded", !.old = snap]
             d == [pool |-> p, server |-> a, on |-> on]
  <2>1. /\ j \in Job /\ j.old = snap /\ j.new = job[r].new /\ j.stage = "loaded"
        /\ WellNamed(snap) /\ WellNamed(job[r].new)
    BY <1>1, Zenon DEF Job, Stages, StoreInv
  <2>2. job' = [job EXCEPT ![r] = j]
    BY <1>1, <1>7, Zenon DEF FindServer, StoreInv, StoreTypeOK
  <2>3. /\ draining' \subseteq Pools \X Gens \X Addrs
        /\ UNCHANGED <<snap, held, ctxs, cancel, populated, kept, series, started>>
    BY <1>1, <1>7 DEF FindServer, StoreInv, StoreTypeOK
  <2> HIDE DEF j
  <2>4. /\ StoreInv' /\ StoreTypeOK' /\ Kind
        /\ job'[r] = j /\ \A v \in Updaters \ {r} : job'[v] = job[v]
    BY <1>1, <2>1, <2>2, <2>3, JobOnlyStep, Zenon
  <2>5. drain' = [drain EXCEPT ![r] = d] /\ a \in snap.poolStates[p].servers
    BY <1>7, Zenon DEF FindServer
  <2>6. drain'[r] = d /\ \A v \in Admins \ {r} : drain'[v] = drain[v]
    BY <2>5, Zenon DEF TypeInv, TypeOK, AdminTypeOK
  <2>7. DrainFound'
    <3> SUFFICES ASSUME NEW v \in Admins, job'[v].stage = "loaded"
                 PROVE  /\ drain'[v].pool \in Pools
                        /\ drain'[v].server \in job'[v].old.poolStates[drain'[v].pool].servers
      BY Zenon DEF DrainFound
    <3>1. CASE v = r
      <4>1. job'[v].old = snap /\ drain'[v].pool = p /\ drain'[v].server = a
        BY <2>1, <2>4, <2>6, <3>1
      <4> QED BY <2>5, <4>1, Zenon
    <3>2. CASE v # r
      <4>1. job'[v] = job[v] /\ drain'[v] = drain[v]
        BY <2>4, <2>6, <3>2, UpdaterTypes
      <4> QED BY <4>1, Zenon DEF DrainFound, TypeInv
    <3> QED BY <3>1, <3>2, Zenon
  <2>8. AdminTypeOK'
    BY <1>7, <2>5 DEF FindServer, TypeInv, TypeOK, AdminTypeOK
  <2> QED BY <2>4, <2>7, <2>8
<1> QED BY <1>2, <1>5, <1>6, <1>7, Zenon

LEMMA SetDrainingStep ==
  ASSUME TypeInv, NEW r \in Admins, SetDraining(r), UNCHANGED main
  PROVE  StoreInv' /\ StoreTypeOK' /\ DrainFound' /\ Kind /\ AdminTypeOK'
<1> DEFINE d == drain[r]
           server == <<d.pool, job[r].old.poolStates[d.pool].gen, d.server>>
<1>1. StoreInv /\ job[r] \in Job /\ r \in Updaters
  BY UpdaterTypes DEF TypeInv, StoreInv, StoreTypeOK
<1>2. /\ d.pool \in Pools /\ d.server \in job[r].old.poolStates[d.pool].servers
      /\ job[r].old \in Snapshot /\ WellNamed(job[r].old)
  BY <1>1, Zenon DEF SetDraining, TypeInv, DrainFound, StoreInv, Job
<1>3. server \in Pools \X Gens \X Addrs /\ d.server \in Addrs
  BY <1>2, Zenon DEF WellNamed, Snapshot, PoolState
<1>4. draining' \in {draining \cup {server}, draining \ {server}}
  BY Zenon DEF SetDraining
<1>5. draining' \subseteq Pools \X Gens \X Addrs
  <2> HIDE DEF server
  <2> QED BY <1>1, <1>3, <1>4, Zenon DEF StoreInv, StoreTypeOK
<1>6. NoJob \in Job /\ WellNamed(NoJob.old) /\ WellNamed(NoJob.new) /\ NoJob.stage = "idle"
  BY NoJobType, NoSnapType, Zenon DEF NoJob
<1>7. /\ job' = [job EXCEPT ![r] = NoJob]
      /\ UNCHANGED <<snap, held, ctxs, cancel, populated, kept, series, started>>
  BY Zenon DEF SetDraining, Finish
<1>8. /\ StoreInv' /\ StoreTypeOK' /\ Kind
      /\ job'[r] = NoJob /\ \A v \in Updaters \ {r} : job'[v] = job[v]
  BY <1>1, <1>5, <1>6, <1>7, JobOnlyStep, Zenon
<1>9. drain' = [drain EXCEPT ![r] = NoDrain]
  BY Zenon DEF SetDraining
<1>10. DrainFound'
  <2>1. \A v \in Admins \ {r} : drain'[v] = drain[v]
    BY <1>9 DEF TypeInv, TypeOK, AdminTypeOK
  <2> QED BY <1>6, <1>8, <2>1, DrainKept, UpdaterTypes DEF TypeInv, StoreTypeOK
<1>11. AdminTypeOK'
  <2>1. drain' \in [Admins -> [pool : Pools \cup {Watcher}, server : Addrs \cup {Watcher}, on : BOOLEAN]]
    BY <1>9, Zenon DEF NoDrain, TypeInv, TypeOK, AdminTypeOK
  <2> QED BY <2>1, Zenon DEF AdminTypeOK
<1> QED BY <1>8, <1>10, <1>11, Zenon

LEMMA ServingStep ==
  ASSUME TypeInv, NEW r \in Admins, Serving(r)
  PROVE  TypeInv' /\ Kind
<1>1. /\ WatcherTypeOK' /\ PollerTypeOK' /\ UNCHANGED main
      /\ main' \in MainStages /\ pollersLeft' \subseteq DiscPools
  BY Zenon DEF Serving, TypeInv, TypeOK, WatcherTypeOK, PollerTypeOK, watcherVars, pollerVars, mainVars
<1>2. StoreInv' /\ StoreTypeOK' /\ DrainFound' /\ Kind /\ AdminTypeOK'
  <2>1. CASE AdminRequest(r)
    BY <1>1, <2>1, AdminRequestStep, Zenon
  <2>2. CASE SetDraining(r)
    BY <1>1, <2>2, SetDrainingStep, Zenon
  <2>3. CASE (StartNew(r) \/ SwapIn(r) \/ StopOld(r)) /\ UNCHANGED adminVars
    BY <1>1, <2>3, ProtocolStep, UpdaterTypes, Zenon DEF adminVars, TypeInv, TypeOK, AdminTypeOK
  <2> QED BY <2>1, <2>2, <2>3, Zenon DEF Serving, AdminStep
<1> QED BY <1>1, <1>2, Zenon DEF TypeInv, TypeOK

LEMMA StepTypeInv == TypeInv /\ [Next]_vars => TypeInv' /\ Kind
<1> SUFFICES ASSUME TypeInv, [Next]_vars PROVE TypeInv' /\ Kind
  BY Zenon
<1>1. CASE StartUp
  BY <1>1, StartUpStep, Zenon DEF Kind
<1>2. CASE waitForSignal \/ UNCHANGED vars
  BY <1>2, AsideStep, Zenon DEF Kind
<1>3. CASE ShutDown
  BY <1>3, AsideStep, PollersStoppedStep, StopLiveCheckersStep, Zenon DEF ShutDown, Kind
<1>4. CASE Environment
  BY <1>4, AsideStep, TrafficStep DEF Environment, Kind
<1>5. CASE Reload
  BY <1>5, ReloadStep
<1>6. CASE \E p \in DiscPools : Polling(p)
  BY <1>6, PollingStep
<1>7. CASE \E r \in Admins : Serving(r)
  BY <1>7, ServingStep, Zenon
<1> QED BY <1>1, <1>2, <1>3, <1>4, <1>5, <1>6, <1>7 DEF Next

LEMMA InitTypeInv == Init => TypeInv
<1> SUFFICES ASSUME Init PROVE TypeInv
  BY Zenon
<1>1. PICK resolved \in Resolutions(StartCfg) :
        snap = BuildSnapshot(StartCfg, resolved, [p \in Pools |-> FirstGen])
  BY Zenon DEF Init
<1>2. StartCfg \in Configs /\ DOMAIN StartCfg.pools \subseteq Pools
  BY SnapshotAssumption, Zenon
<1>3. resolved \in [Pools -> SUBSET Addrs]
  BY SourceAssumption, Zenon DEF Resolutions
<1>4. snap \in Snapshot /\ WellNamed(snap)
  <2>1. \A p \in DOMAIN StartCfg.pools : [q \in Pools |-> FirstGen][p] \in Gens
    BY <1>2, FirstGenType, Zenon
  <2> QED BY <1>1, <1>2, <1>3, <2>1, BuildSnapshotType
<1>5. job \in [Updaters -> Job] /\ \A u \in Updaters : WellNamed(job[u].old) /\ WellNamed(job[u].new)
  <2>1. job = [u \in Updaters |-> NoJob]
    BY Zenon DEF Init
  <2>2. NoJob \in Job /\ WellNamed(NoJob.old) /\ WellNamed(NoJob.new)
    BY NoJobType, NoSnapType, Zenon DEF NoJob
  <2> QED BY <2>1, <2>2, Zenon
<1>6. /\ ctxs \in [Objects -> Nat] /\ cancel \in [Objects -> BOOLEAN]
      /\ \A o \in Objects : ~cancel[o]
  BY Zenon DEF Init
<1>7. populated \subseteq Objects
  BY FirstGenType DEF Init, Objects
<1>8. StoreInv /\ StoreTypeOK
  BY <1>4, <1>5, <1>6, <1>7, SMTT(20) DEF Init, StoreInv, StoreTypeOK
<1>9. DrainFound
  BY UpdaterTypes, Zenon DEF Init, DrainFound, NoJob
<1>10. WatcherTypeOK
  BY <1>2, Zenon DEF Init, WatcherInit, WatcherTypeOK
<1>11. PollerTypeOK
  BY <1>4, Zenon DEF Init, PollerInit, PollerTypeOK, Snapshot, PoolState
<1>12. AdminTypeOK
  BY Zenon DEF Init, AdminInit, AdminTypeOK, NoDrain
<1> QED BY <1>8, <1>9, <1>10, <1>11, <1>12 DEF TypeInv, TypeOK, Init, MainStages

LEMMA AlwaysTypeInv == Spec => []TypeInv
  BY InitTypeInv, StepTypeInv, PTL DEF Spec

(* Every variable of the control plane stays in its type under any         *)
(* interleaving of the watcher, the pollers and the admin handlers.  In    *)
(* particular Checker.Stop never cancels a context that Start did not make *)
(* and SetDraining always has a server of an existing pool state.          *)
THEOREM ControlPlaneTypes == Spec => []TypeOK
<1>1. TypeInv => TypeOK
  BY Zenon DEF TypeInv
<1> QED BY AlwaysTypeInv, <1>1, PTL

-----------------------------------------------------------------------------
(* Every published checker has been started.  An updater starts only the   *)
(* checkers of its scope, so the rest of the snapshot it holds must have   *)
(* been started by others, however stale it is; until main has started the *)
(* first snapshot's checkers, those it holds count as started.             *)
Covered == IF main = "starting" THEN started \cup CheckersOf(held, Pools) ELSE started

AllIn(s, ps, objs) == \A p \in ps : s.checkers[p] # 0 => <<p, s.checkers[p]>> \in objs

StartedInv ==
  /\ AllIn(snap, Pools, Covered)
  /\ \A u \in Updaters : Holding(u) => AllIn(job[u].new, Pools \ job[u].scope, Covered)
  /\ \A u \in Updaters : job[u].stage = "started" => AllIn(job[u].new, job[u].scope, started)

LEMMA AllInIsSubset ==
  \A s, ps, objs : AllIn(s, ps, objs) <=> CheckersOf(s, ps) \subseteq objs
  BY Zenon DEF AllIn, CheckersOf

(* What a build forgets is referred to by nobody, so nothing that must be  *)
(* covered loses its cover.                                                *)
LEMMA BuildKeepsCover ==
  ASSUME TypeInv, UNCHANGED <<held, main>>,
         \A o \in started \ started' : o[1] \in Pools /\ ~InUse(o[1], o[2]),
         NEW s, NEW ps \in SUBSET Pools,
         s = snap \/ \E u \in Updaters : s = job[u].new
  PROVE  /\ AllIn(s, ps, Covered) => AllIn(s, ps, Covered')
         /\ AllIn(s, ps, started) => AllIn(s, ps, started')
<1>1. \A p \in ps : s.checkers[p] # 0 => InUse(p, s.checkers[p])
  BY Zenon DEF InUse, Refers
<1>2. \A p \in ps : LET o == <<p, s.checkers[p]>> IN
        s.checkers[p] # 0 /\ o \in started => o \in started'
  BY <1>1
<1>3. AllIn(s, ps, started) => AllIn(s, ps, started')
  BY <1>2, Zenon DEF AllIn
<1>4. CheckersOf(held, Pools)' = CheckersOf(held, Pools)
  BY Zenon DEF CheckersOf
<1>5. AllIn(s, ps, Covered) => AllIn(s, ps, Covered')
  BY <1>2, <1>4, Zenon DEF AllIn, Covered
<1> QED BY <1>3, <1>5

LEMMA CoveredGrows ==
  ASSUME started \subseteq started', main = "starting" => UNCHANGED <<main, held>>,
         main # "starting" => main' # "starting"
  PROVE  Covered \subseteq Covered'
  BY Zenon DEF Covered, CheckersOf

LEMMA StepStarted ==
  ASSUME TypeInv, TypeInv', StartedInv, Kind
  PROVE  StartedInv'
<1>1. StoreInv /\ StoreInv' /\ \A u \in Updaters : job[u] \in Job /\ job'[u] \in Job
  BY DEF TypeInv, StoreInv, StoreTypeOK
<1>2. CASE Quiet
  <2>1. Covered \subseteq Covered'
    BY <1>2, CoveredGrows, Zenon DEF Quiet
  <2> QED BY <1>2, <2>1, Zenon DEF Quiet, StartedInv, AllIn, Holding
<1>3. CASE StartUp
  <2>1. started' = started \cup CheckersOf(held, Pools) /\ UNCHANGED <<snap, job>>
        /\ main = "starting" /\ main' = "running"
    BY <1>3, Zenon DEF StartUp, StartCheckers
  <2>2. Covered' = Covered
    BY <2>1 DEF Covered
  <2> QED BY <2>1, <2>2, Zenon DEF StartedInv, AllIn, Holding
<1>4. ASSUME NEW u \in Updaters, StartNew(u), UNCHANGED main PROVE StartedInv'
  <2>1. \A v \in Updaters \ {u} : job'[v] = job[v]
    BY <1>1, <1>4, StartNewStep, Zenon
  <2>2. /\ job[u].stage = "built" /\ job'[u].stage = "started"
        /\ job'[u].new = job[u].new /\ job'[u].scope = job[u].scope
    BY <1>1, <1>4, StartNewStep
  <2>3. started' = started \cup CheckersOf(job[u].new, job[u].scope) /\ UNCHANGED <<snap, held>>
    BY <1>4, Zenon DEF StartNew, StartCheckers
  <2>4. Covered \subseteq Covered'
    BY <1>4, <2>3, CoveredGrows, Zenon
  <2>5. AllIn(job[u].new, job[u].scope, started')
    BY <2>3, AllInIsSubset, Zenon
  <2>6. AllIn(snap', Pools, Covered')
    BY <2>3, <2>4, Zenon DEF StartedInv, AllIn
  <2>7. \A v \in Updaters : Holding(v)' => AllIn(job'[v].new, Pools \ job'[v].scope, Covered')
    <3>1. \A v \in Updaters : Holding(v)' => Holding(v) /\ job'[v].new = job[v].new /\ job'[v].scope = job[v].scope
      BY <2>1, <2>2, Zenon DEF Holding
    <3> QED BY <2>4, <3>1, Zenon DEF StartedInv, AllIn
  <2>8. \A v \in Updaters \ {u} : job'[v].stage = "started" => AllIn(job'[v].new, job'[v].scope, started')
    BY <2>1, <2>3, Zenon DEF StartedInv, AllIn
  <2> QED BY <2>2, <2>5, <2>6, <2>7, <2>8, Zenon DEF StartedInv, AllIn
<1>5. ASSUME NEW u \in Updaters, SwapIn(u), UNCHANGED main PROVE StartedInv'
  <2>1. \A v \in Updaters \ {u} : job'[v] = job[v]
    BY <1>1, <1>5, SwapInStep, Zenon
  <2>2. job'[u].stage = "swapped" /\ job[u].stage = "started"
    BY <1>1, <1>5, SwapInStep
  <2>3. snap' = job[u].new /\ UNCHANGED <<held, started>>
    BY <1>5, Zenon DEF SwapIn
  <2>4. Covered \subseteq Covered' /\ started \subseteq Covered
    BY <1>5, <2>3, CoveredGrows, Zenon DEF Covered
  <2>5. AllIn(snap', Pools, Covered')
    BY <2>2, <2>3, <2>4, Zenon DEF StartedInv, AllIn, Holding
  <2>6. \A v \in Updaters : Holding(v)' => AllIn(job'[v].new, Pools \ job'[v].scope, Covered')
    BY <2>1, <2>2, <2>4, Zenon DEF StartedInv, AllIn, Holding
  <2>7. \A v \in Updaters : job'[v].stage = "started" => AllIn(job'[v].new, job'[v].scope, started')
    BY <2>1, <2>2, <2>3, Zenon DEF StartedInv, AllIn
  <2> QED BY <2>5, <2>6, <2>7, Zenon DEF StartedInv, AllIn
<1>6. ASSUME NEW u \in Updaters, \A v \in Updaters \ {u} : job'[v] = job[v],
             job'[u].stage = "built",
             AllIn(job'[u].new, Pools \ job'[u].scope, Covered'),
             UNCHANGED <<snap, held, main>>,
             \A o \in started \ started' : o[1] \in Pools /\ ~InUse(o[1], o[2])
      PROVE  StartedInv'
  <2>1. AllIn(snap', Pools, Covered')
    BY <1>6, BuildKeepsCover, Zenon DEF StartedInv
  <2>2. \A v \in Updaters \ {u} : Holding(v)' => AllIn(job'[v].new, Pools \ job'[v].scope, Covered')
    BY <1>6, BuildKeepsCover, Zenon DEF StartedInv, Holding
  <2>3. \A v \in Updaters \ {u} : job'[v].stage = "started" => AllIn(job'[v].new, job'[v].scope, started')
    BY <1>1, <1>6, BuildKeepsCover, Zenon DEF StartedInv, Job
  <2> QED BY <1>6, <2>1, <2>2, <2>3, Zenon DEF StartedInv, AllIn
<1>7. ASSUME NEW u \in Updaters, NEW p \in DOMAIN StartCfg.pools, NEW servers \in SUBSET Addrs,
             PartialBuild(u, p, servers), UNCHANGED main
      PROVE  StartedInv'
  <2>1. p \in Pools /\ snap \in Snapshot /\ WellNamed(snap) /\ Unused(p) # {} /\ UNCHANGED <<snap, held>>
    BY <1>1, <1>7, UpdaterTypes, Zenon DEF PartialBuild, Create, StoreInv, StoreTypeOK
  <2> DEFINE new == UpdatePoolBackends(snap, p, servers, StartCfg.pools[p])
             j == [stage |-> "built", old |-> snap, new |-> new, scope |-> {p}]
  <2>2. \A q \in Pools \ {p} : new.checkers[q] = snap.checkers[q]
    BY <2>1, UpdatePoolBackendsType
  <2>4. Create(new, {p}) /\ job' = [job EXCEPT ![u] = j]
    BY <1>7 DEF PartialBuild
  <2> HIDE DEF new
  <2>5. job'[u] = j /\ \A v \in Updaters \ {u} : job'[v] = job[v]
    BY <1>1, <2>4, Zenon DEF StoreInv, StoreTypeOK
  <2>6. \A o \in started \ started' : o[1] \in Pools /\ ~InUse(o[1], o[2])
    BY <1>1, <2>1, <2>4, CreateType, Zenon
  <2>7. AllIn(snap, Pools, Covered')
    BY <1>7, <2>1, <2>6, BuildKeepsCover, Zenon DEF StartedInv
  <2>8. AllIn(new, Pools \ {p}, Covered')
    BY <2>2, <2>7 DEF AllIn
  <2>9. job'[u].stage = "built" /\ AllIn(job'[u].new, Pools \ job'[u].scope, Covered')
    BY <2>5, <2>8
  <2> QED BY <1>6, <1>7, <2>1, <2>5, <2>6, <2>9, Zenon
<1>8. ASSUME NEW resolved \in Resolutions(reading), BuildNew(resolved), UNCHANGED main
      PROVE  StartedInv'
  <2>1. /\ job'[Watcher].stage = "built" /\ job'[Watcher].scope = Pools
        /\ \A v \in Updaters \ {Watcher} : job'[v] = job[v]
        /\ \A o \in started \ started' : o[1] \in Pools /\ ~InUse(o[1], o[2])
    BY <1>1, <1>8, BuildNewStep, Zenon DEF TypeInv
  <2>2. AllIn(job'[Watcher].new, Pools \ Pools, Covered')
    BY Zenon DEF AllIn
  <2>3. UNCHANGED <<snap, held>>
    BY <1>8, Zenon DEF BuildNew
  <2> QED BY <1>6, <1>8, <2>1, <2>2, <2>3, UpdaterTypes, Zenon
<1> QED BY <1>2, <1>3, <1>4, <1>5, <1>7, <1>8, UpdaterTypes, Zenon DEF Kind

LEMMA InitStarted == Init => StartedInv
<1> SUFFICES ASSUME Init PROVE StartedInv
  BY Zenon
<1>1. held = snap /\ main = "starting" /\ \A u \in Updaters : job[u].stage = "idle"
  BY Zenon DEF Init, NoJob
<1>2. AllIn(snap, Pools, Covered)
  BY <1>1, Zenon DEF AllIn, Covered, CheckersOf
<1> QED BY <1>1, <1>2, Zenon DEF StartedInv, Holding

(* Whatever updates race, a checker that a reader finds in the published   *)
(* snapshot has been started: StartNew of the update that made it came     *)
(* before the swap, even when the snapshot that carries it is stale.       *)
THEOREM PublishedAreStarted == Spec => []PublishedStarted
<1>1. StartedInv => PublishedStarted
  BY AllInIsSubset, Zenon DEF StartedInv, PublishedStarted, Covered
<1>2. TypeInv /\ StartedInv /\ [Next]_vars => StartedInv'
  BY StepTypeInv, StepStarted
<1> QED BY AlwaysTypeInv, InitStarted, <1>1, <1>2, PTL DEF Spec

-----------------------------------------------------------------------------
(* The listeners never change.  The watcher compares the file with the     *)
(* snapshot it loaded, long before it publishes; the other updaters copy   *)
(* the listeners of a snapshot that may be stale by then.                  *)
ListenersInv ==
  /\ snap.listeners = StartCfg.listeners
  /\ \A u \in Updaters : Holding(u) => job[u].new.listeners = StartCfg.listeners
  /\ job[Watcher].stage = "loaded" => reading.listeners = StartCfg.listeners

(* DiffListeners accepts a set of listeners only if it is the same set.    *)
LEMMA DiffListenersIsEquality ==
  ASSUME NEW old \in SUBSET Fingerprint, NEW new \in SUBSET Fingerprint, DiffListeners(old, new)
  PROVE  old = new
<1>1. ASSUME NEW x \in old, NEW y \in new, x.name = y.name PROVE x = y
  BY <1>1 DEF DiffListeners, Fingerprint
<1>2. old \subseteq new
  BY <1>1, Zenon DEF DiffListeners
<1>3. new \subseteq old
  BY <1>1, Zenon DEF DiffListeners
<1> QED BY <1>2, <1>3, Zenon

(* Nobody but the watcher changes what the watcher is doing.               *)
LEMMA WatcherAlone ==
  ASSUME TypeInv, [Next]_vars
  PROVE  Reload \/ (UNCHANGED watcherVars /\ job'[Watcher] = job[Watcher])
<1> DEFINE Alone == UNCHANGED watcherVars /\ job'[Watcher] = job[Watcher]
<1>1. StoreInv /\ job \in [Updaters -> Job]
  BY Zenon DEF TypeInv, StoreInv, StoreTypeOK
<1>2. ASSUME UNCHANGED watcherVars, NEW u \in Updaters \ {Watcher}, NEW j, job' = [job EXCEPT ![u] = j]
      PROVE  Alone
  BY <1>1, <1>2
<1>3. ASSUME UNCHANGED watcherVars, NEW u \in Updaters \ {Watcher},
             StartNew(u) \/ SwapIn(u) \/ StopOld(u)
      PROVE  Alone
  BY <1>1, <1>3, StartNewStep, SwapInStep, StopOldStep, UpdaterTypes, Zenon
<1>5. ASSUME NEW p \in DiscPools, Polling(p)
      PROVE  Alone
  <2>1. p \in Updaters \ {Watcher} /\ UNCHANGED watcherVars
    BY <1>5, UpdaterTypes, Zenon DEF Polling
  <2>2. CASE Poll(p)
    <3>1. job' = [job EXCEPT ![p].stage = "loaded"]
      BY <2>2, Zenon DEF Poll
    <3> QED BY <1>1, <2>1, <3>1
  <2>3. CASE Update(p)
    <3>1. PICK j : job' = [job EXCEPT ![p] = j]
      BY <2>3, Zenon DEF Update
    <3> QED BY <1>2, <2>1, <3>1, Zenon
  <2> QED BY <1>3, <1>5, <2>1, <2>2, <2>3, Zenon DEF Polling, PollerStep
<1>6. ASSUME NEW r \in Admins, Serving(r)
      PROVE  Alone
  <2>1. r \in Updaters \ {Watcher} /\ UNCHANGED watcherVars
    BY <1>6, UpdaterTypes DEF Serving
  <2>2. CASE AdminRequest(r)
    <3>1. PICK p \in Pools, a \in Addrs : \/ addBackend(r, p, a) \/ removeBackend(r, p, a)
                                          \/ FindServer(r, p, a, TRUE) \/ FindServer(r, p, a, FALSE)
      BY <2>2, AdminAssumption DEF AdminRequest
    <3>2. ASSUME NEW servers, Prepare(r, p, servers)
          PROVE  Alone
      BY <1>2, <2>1, <3>2, Zenon DEF Prepare
    <3>3. ASSUME NEW on \in BOOLEAN, FindServer(r, p, a, on)
          PROVE  Alone
      <4> DEFINE j == [job[r] EXCEPT !.stage = "loaded", !.old = snap]
      <4>1. job' = [job EXCEPT ![r] = j]
        BY <1>1, <2>1, <3>3, Zenon DEF FindServer
      <4> HIDE DEF j
      <4> QED BY <1>2, <2>1, <4>1
    <3> QED BY <3>1, <3>2, <3>3, Zenon DEF addBackend, removeBackend
  <2>3. CASE SetDraining(r)
    BY <1>2, <2>1, <2>3, Zenon DEF SetDraining, Finish
  <2> QED BY <1>3, <1>6, <2>1, <2>2, <2>3, Zenon DEF Serving, AdminStep
<1>7. CASE StartUp \/ waitForSignal \/ ShutDown \/ UNCHANGED vars
  BY <1>7 DEF StartUp, waitForSignal, ShutDown, WatcherStopped, AdminClosed, PollersStopped,
              StopLiveCheckers, StopPoller, vars, store
<1>8. CASE Environment
  BY <1>8, Zenon DEF Environment, SourceChanges, Traffic, store
<1> QED BY <1>5, <1>6, <1>7, <1>8, Zenon DEF Next

(* Only ReadConfig makes the watcher hold a configuration.                 *)
LEMMA OnlyReadConfigReads ==
  ASSUME TypeInv, [Next]_vars, job'[Watcher].stage = "loaded"
  PROVE  \/ job[Watcher].stage = "loaded" /\ reading' = reading
         \/ ReadConfig
<1>1. StoreInv
  BY Zenon DEF TypeInv
<1>2. CASE Reload
  <2>1. CASE ReplaceCerts
    BY <2>1, Zenon DEF ReplaceCerts, store
  <2>2. CASE CertsUnreadable \/ BuildFails
    BY <1>1, <2>2, UpdaterTypes, FinishStep DEF CertsUnreadable, BuildFails, Abandon, NoJob
  <2>3. CASE \E resolved \in Resolutions(reading) : BuildNew(resolved)
    BY <1>1, <2>3, BuildNewStep DEF TypeInv
  <2>4. CASE StartCheckersOfReload \/ Swap \/ StopCheckersOfReload
    BY <1>1, <2>4, StartNewStep, SwapInStep, StopOldStep, UpdaterTypes, Zenon
       DEF StartCheckersOfReload, Swap, StopCheckersOfReload
  <2> QED BY <1>2, <2>1, <2>2, <2>3, <2>4, Zenon DEF Reload, WatcherStep
<1>3. CASE UNCHANGED watcherVars /\ job'[Watcher] = job[Watcher]
  BY <1>3, Zenon DEF watcherVars
<1> QED BY <1>2, <1>3, WatcherAlone, Zenon

LEMMA StepListeners ==
  ASSUME TypeInv, ListenersInv, [Next]_vars
  PROVE  ListenersInv' /\ snap'.listeners = snap.listeners
<1>1. StoreInv /\ TypeInv' /\ Kind
  BY StepTypeInv DEF TypeInv
<1>2. /\ snap'.listeners = StartCfg.listeners
      /\ \A u \in Updaters : Holding(u)' => job'[u].new.listeners = StartCfg.listeners
  <2>1. CASE Quiet
    BY <2>1, Zenon DEF Quiet, ListenersInv, Holding
  <2>2. CASE StartUp
    BY <2>2, Zenon DEF StartUp, ListenersInv, Holding
  <2>3. ASSUME NEW u \in Updaters, StartNew(u) PROVE <1>2!1 /\ <1>2!2
    BY <1>1, <2>3, StartNewStep DEF StartNew, ListenersInv, Holding
  <2>4. ASSUME NEW u \in Updaters, SwapIn(u) PROVE <1>2!1 /\ <1>2!2
    BY <1>1, <2>4, SwapInStep, Zenon DEF SwapIn, ListenersInv, Holding
  <2>5. ASSUME NEW u \in Updaters, NEW p \in DOMAIN StartCfg.pools, NEW servers \in SUBSET Addrs,
               PartialBuild(u, p, servers)
        PROVE  <1>2!1 /\ <1>2!2
    <3> DEFINE new == UpdatePoolBackends(snap, p, servers, StartCfg.pools[p])
               j == [stage |-> "built", old |-> snap, new |-> new, scope |-> {p}]
    <3>1. new.listeners = snap.listeners
      BY Zenon DEF UpdatePoolBackends
    <3>2. job' = [job EXCEPT ![u] = j] /\ UNCHANGED snap
      BY <2>5, Zenon DEF PartialBuild
    <3> HIDE DEF new
    <3>3. job'[u] = j /\ \A v \in Updaters \ {u} : job'[v] = job[v]
      BY <1>1, <3>2, Zenon DEF StoreInv, StoreTypeOK
    <3> QED BY <3>1, <3>2, <3>3 DEF ListenersInv, Holding
  <2>6. ASSUME NEW resolved \in Resolutions(reading), BuildNew(resolved) PROVE <1>2!1 /\ <1>2!2
    <3>1. /\ job'[Watcher].new.listeners = reading.listeners
          /\ \A v \in Updaters \ {Watcher} : job'[v] = job[v]
      BY <1>1, <2>6, BuildNewStep, Zenon DEF TypeInv
    <3> QED BY <2>6, <3>1, UpdaterTypes DEF BuildNew, ListenersInv, Holding
  <2> QED BY <1>1, <2>1, <2>2, <2>3, <2>4, <2>5, <2>6, UpdaterTypes, Zenon DEF Kind
<1>3. job'[Watcher].stage = "loaded" => reading'.listeners = StartCfg.listeners
  <2> SUFFICES ASSUME job'[Watcher].stage = "loaded" PROVE reading'.listeners = StartCfg.listeners
    BY Zenon
  <2>1. CASE job[Watcher].stage = "loaded" /\ reading' = reading
    BY <2>1 DEF ListenersInv
  <2>2. CASE ReadConfig
    <3>1. reading' \in Configs /\ DiffListeners(snap.listeners, reading'.listeners)
      BY <2>2 DEF ReadConfig
    <3>2. snap.listeners \in SUBSET Fingerprint /\ reading'.listeners \in SUBSET Fingerprint
      BY <3>1, SnapshotAssumption, Zenon DEF ListenersInv, TypeInv, TypeOK, WatcherTypeOK
    <3> QED BY <3>1, <3>2, DiffListenersIsEquality, Zenon DEF ListenersInv
  <2> QED BY <2>1, <2>2, OnlyReadConfigReads, Zenon
<1> QED BY <1>2, <1>3 DEF ListenersInv, Holding

LEMMA InitListeners == Init => ListenersInv
<1> SUFFICES ASSUME Init PROVE ListenersInv
  OBVIOUS
<1>1. snap.listeners = StartCfg.listeners
  <2>1. \E resolved, gens : snap = BuildSnapshot(StartCfg, resolved, gens)
    BY Zenon DEF Init
  <2>2. \A cfg, resolved, gens : BuildSnapshot(cfg, resolved, gens).listeners = cfg.listeners
    BY DEF BuildSnapshot
  <2> QED BY <2>1, <2>2, Zenon
<1>2. \A u \in Updaters : job[u].stage = "idle"
  BY Zenon DEF Init, NoJob
<1> QED BY <1>1, <1>2, UpdaterTypes DEF ListenersInv, Holding

(* No step changes the listeners of the published snapshot: DiffListeners  *)
(* lets a reload through only when they are the same, and the listeners a  *)
(* poller or an admin handler copies are the ones of the start.            *)
THEOREM ListenersNeverChange == Spec => ListenersFixed
<1>1. TypeInv /\ ListenersInv /\ [Next]_vars => ListenersInv' /\ [snap'.listeners = snap.listeners]_vars
  BY StepListeners
<1> QED BY AlwaysTypeInv, InitListeners, <1>1, PTL DEF Spec, ListenersFixed

=============================================================================
