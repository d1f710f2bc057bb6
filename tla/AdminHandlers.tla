---------------------------- MODULE AdminHandlers ----------------------------
(***************************************************************************)
(* The mutating handlers of the admin API (internal/admin/handlers.go).    *)
(* Several requests may be served together.  Add and remove look the       *)
(* pool's configuration up in the configuration the process started with.  *)
(* A request that is answered with an error changes nothing.               *)
(***************************************************************************)
EXTENDS PoolSnapshots

CONSTANT AdminCalls   \* the requests clients make (a bound)

ASSUME AdminAssumption ==
  AdminCalls \subseteq [op : {"add", "remove", "drain", "undrain"}, pool : Pools, server : Addrs]

VARIABLES
  drain     \* per request: the drain or undrain it has still to set

adminVars == <<drain>>

NoDrain == [pool |-> Watcher, server |-> Watcher, on |-> FALSE]

AdminTypeOK ==
  drain \in [Admins -> [pool : Pools \cup {Watcher}, server : Addrs \cup {Watcher}, on : BOOLEAN]]

AdminInit == drain = [r \in Admins |-> NoDrain]

(* findPoolConfig, and the rejection of discovery-driven pools.            *)
StaticPool(p) == p \in DOMAIN StartCfg.pools /\ ~StartCfg.pools[p].discovery
PoolExists(p) == snap.poolStates[p].gen # 0

(* Load, check, and build: what is read is one immutable snapshot.         *)
Prepare(r, p, servers) ==
  LET new == UpdatePoolBackends(snap, p, servers, StartCfg.pools[p]) IN
  /\ Create(new, {p})
  /\ job' = [job EXCEPT ![r] = [stage |-> "built", old |-> snap, new |-> new, scope |-> {p}]]
  /\ UNCHANGED <<snap, held, ctxs, cancel, series>>

addBackend(r, p, a) ==
  /\ job[r].stage = "idle"
  /\ StaticPool(p) /\ PoolExists(p)
  /\ a \notin snap.poolStates[p].servers
  /\ Prepare(r, p, snap.poolStates[p].servers \cup {a})
  /\ UNCHANGED adminVars

removeBackend(r, p, a) ==
  /\ job[r].stage = "idle"
  /\ StaticPool(p) /\ PoolExists(p)
  /\ a \in snap.poolStates[p].servers
  /\ Prepare(r, p, snap.poolStates[p].servers \ {a})
  /\ UNCHANGED adminVars

(* drainBackend and undrainBackend find the server in the snapshot they    *)
(* loaded; another updater may swap it out before they set the flag.       *)
FindServer(r, p, a, on) ==
  /\ job[r].stage = "idle"
  /\ a \in snap.poolStates[p].servers
  /\ job' = [job EXCEPT ![r].stage = "loaded", ![r].old = snap]
  /\ drain' = [drain EXCEPT ![r] = [pool |-> p, server |-> a, on |-> on]]
  /\ UNCHANGED <<snap, held, ctxs, cancel, populated, kept, draining, series, started>>

SetDraining(r) ==
  LET d == drain[r]
      server == <<d.pool, job[r].old.poolStates[d.pool].gen, d.server>> IN
  /\ job[r].stage = "loaded"
  /\ draining' = IF d.on THEN draining \cup {server} ELSE draining \ {server}
  /\ drain' = [drain EXCEPT ![r] = NoDrain]
  /\ Finish(r)
  /\ UNCHANGED <<snap, held, ctxs, cancel, populated, kept, series, started>>

AdminRequest(r) ==
  \E q \in AdminCalls :
    \/ q.op = "add" /\ addBackend(r, q.pool, q.server)
    \/ q.op = "remove" /\ removeBackend(r, q.pool, q.server)
    \/ q.op = "drain" /\ FindServer(r, q.pool, q.server, TRUE)
    \/ q.op = "undrain" /\ FindServer(r, q.pool, q.server, FALSE)

AdminStep(r) ==
  \/ SetDraining(r)
  \/ (StartNew(r) \/ SwapIn(r) \/ StopOld(r)) /\ UNCHANGED adminVars

=============================================================================
