--------------------------- MODULE DiscoveryPoller ---------------------------
(***************************************************************************)
(* The discovery pollers (internal/runtime/poller.go), one per pool that   *)
(* was discovery-driven when the process started.  A poller keeps using    *)
(* the PoolConfig it was created with.                                     *)
(***************************************************************************)
EXTENDS PoolSnapshots

CONSTANT SourceSets   \* the backend sets a discovery source may hold

ASSUME SourceAssumption == SourceSets \subseteq SUBSET Addrs

VARIABLES
  disc,          \* external: the backends the discovery source knows, per pool
  lastBackends,  \* Poller.lastBackends
  found          \* a changed resolution the poller has still to apply

pollerVars == <<disc, lastBackends, found>>

DiscPools == {p \in DOMAIN StartCfg.pools : StartCfg.pools[p].discovery}

PollerTypeOK ==
  /\ disc \in [Pools -> SourceSets]
  /\ lastBackends \in [Pools -> SUBSET Addrs]
  /\ found \in [Pools -> SUBSET Addrs]

(* NewPoller seeds lastBackends from the snapshot.                         *)
PollerInit ==
  /\ disc \in [Pools -> SourceSets]
  /\ lastBackends = [p \in Pools |-> snap.poolStates[p].servers]
  /\ found = [p \in Pools |-> {}]

(* External: services come and go.                                         *)
SourceChanges(p) ==
  /\ \E s \in SourceSets \ {disc[p]} : disc' = [disc EXCEPT ![p] = s]
  /\ UNCHANGED <<store, lastBackends, found>>

(* A plausible slip: only the sizes are compared.                          *)
SameSize(x, y) == Cardinality(x) = Cardinality(y)

(* backendSetsEqual counts addresses; adapters return each address once.   *)
backendSetsEqual(x, y) == x = y

(* poll, first half: Resolve, and lastBackends if the set has changed.  An *)
(* error or an unchanged set ends the poll with nothing changed.           *)
Poll(p) ==
  /\ job[p].stage = "idle"
  /\ ~backendSetsEqual(lastBackends[p], disc[p])
  /\ lastBackends' = [lastBackends EXCEPT ![p] = disc[p]]
  /\ found' = [found EXCEPT ![p] = disc[p]]
  /\ job' = [job EXCEPT ![p].stage = "loaded"]
  /\ UNCHANGED <<snap, held, ctxs, cancel, populated, kept, draining, series, started, disc>>

(* poll, second half: load the snapshot, build the new one from it, and    *)
(* clean up the metrics.                                                   *)
Update(p) ==
  LET new == UpdatePoolBackends(snap, p, found[p], StartCfg.pools[p]) IN
  /\ job[p].stage = "loaded"
  /\ Create(new, {p})
  /\ job' = [job EXCEPT ![p] = [stage |-> "built", old |-> snap, new |-> new, scope |-> {p}]]
  /\ series' = CleanupRemovedBackends(snap, new)
  /\ found' = [found EXCEPT ![p] = {}]
  /\ UNCHANGED <<snap, held, ctxs, cancel, disc, lastBackends>>

PollerStep(p) ==
  \/ Update(p)
  \/ (StartNew(p) \/ SwapIn(p) \/ StopOld(p)) /\ UNCHANGED pollerVars

=============================================================================
