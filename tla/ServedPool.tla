------------------------------ MODULE ServedPool ------------------------------
(***************************************************************************)
(* A pool as a listener that serves it sees it: the balancer that          *)
(* poolGetter finds in the snapshot, the gauge of active connections, and  *)
(* what an update of the pool does to both.                                *)
(*                                                                         *)
(* The balancer is least_connections, the one that keeps count of          *)
(* connections.  An update replaces it by a new one with no counts: the    *)
(* generations.  It first deletes the metric series of the backends it     *)
(* removes, while connections to them may go on: the gauge of a deleted    *)
(* series is gone, and With makes a new one that starts at zero.  One      *)
(* update is under way at a time; the races of several are the matter of   *)
(* ControlPlane.                                                           *)
(***************************************************************************)
EXTENDS Integers, FiniteSets

CONSTANTS
  Backends,     \* addresses the pool may have
  Gens,         \* balancers the pool may have had, in order: 1 .. n
  Memberships   \* the sets of backends an update may lead to

ASSUME ServedPoolAssumption ==
  /\ IsFiniteSet(Backends)
  /\ Gens = 1 .. Cardinality(Gens) /\ Cardinality(Gens) \in Nat \ {0}
  /\ Memberships \subseteq SUBSET Backends

VARIABLES
  protocol, \* of the listener that serves the pool
  lb,       \* the generation of the pool's balancer in the snapshot
  members,  \* the backends of each generation
  next,     \* the backends of the update under way, or NoUpdate
  count,    \* LeastConnections' counts, per generation and backend
  gauge,    \* ConnectionsActive of this listener and pool, per backend
  cleaned   \* history: backends whose series has been deleted

update   == <<protocol, lb, members, next, cleaned>>
accounts == <<count, gauge>>
poolVars == <<protocol, lb, members, next, count, gauge, cleaned>>

Stream    == {"tcp", "tls_passthrough"}
Protocols == Stream \cup {"udp", "http"}
NoUpdate  == {{}}   \* not a set of backends

PoolTypeOK ==
  /\ protocol \in Protocols
  /\ lb \in Gens
  /\ members \in [Gens -> SUBSET Backends]
  /\ next \in (SUBSET Backends) \cup {NoUpdate}
  /\ count \in [Gens -> [Backends -> Nat]]
  /\ gauge \in [Backends -> Int]
  /\ cleaned \in SUBSET Backends

PoolInit ==
  /\ protocol \in Protocols
  /\ lb = 1 /\ next = NoUpdate
  /\ members = [g \in Gens |-> IF g = 1 THEN Backends ELSE {}]
  /\ count = [g \in Gens |-> [b \in Backends |-> 0]]
  /\ gauge = [b \in Backends |-> 0]
  /\ cleaned = {}

(* LeastConnections.Release never goes below zero.                         *)
Minus(n, k) == IF n > k THEN n - k ELSE 0

Acquire(g, b) == count' = [count EXCEPT ![g][b] = @ + 1]
Release(g, b) == count' = [count EXCEPT ![g][b] = Minus(@, 1)]

(* ConnectionsActive.With(...): the series there is, or a new one.         *)
Inc(b) == gauge' = [gauge EXCEPT ![b] = @ + 1]
Dec(b) == gauge' = [gauge EXCEPT ![b] = @ - 1]

(* A reload or a poll of discovery has built the pool anew, and deletes    *)
(* the series of the backends that are not in it any more.                 *)
Cleanup(new) ==
  /\ next = NoUpdate /\ lb + 1 \in Gens
  /\ next' = new
  /\ gauge' = [b \in Backends |-> IF b \in members[lb] \ new THEN 0 ELSE gauge[b]]
  /\ cleaned' = cleaned \cup (members[lb] \ new)
  /\ UNCHANGED <<protocol, lb, members, count>>

(* A request of the admin API has built it anew, and deletes no series.    *)
Rebuild(new) ==
  /\ next = NoUpdate /\ lb + 1 \in Gens
  /\ next' = new
  /\ UNCHANGED <<protocol, lb, members, count, gauge, cleaned>>

(* The updater publishes the snapshot with the new balancer.               *)
SwapPool ==
  /\ next # NoUpdate
  /\ lb' = lb + 1 /\ next' = NoUpdate
  /\ members' = [members EXCEPT ![lb + 1] = next]
  /\ UNCHANGED <<protocol, count, gauge, cleaned>>

=============================================================================
