------------------------------ MODULE Balancers ------------------------------
(***************************************************************************)
(* The five balancing algorithms of internal/balancer, used by concurrent  *)
(* pickers while other goroutines change the backends' flags.  Server's    *)
(* healthy, draining and circuitOpen are atomics that no balancer lock     *)
(* protects, so a Pick reads the backends one by one, each possibly at a   *)
(* different instant.  The three flags of one backend are one read here.   *)
(* A pool's list of backends is fixed: UpdateBackends is called by tests   *)
(* only, the program builds a new balancer for every new list.             *)
(***************************************************************************)
EXTENDS Integers, Sequences, FiniteSets, Functions

CONSTANTS
  Weights,        \* the backends' weights, in the order of the list
  Pickers,        \* goroutines that call Pick
  Algorithms,     \* the algorithms to start with
  MaxConns        \* bound on the connections held (least_conn)

Backends == 1 .. Len(Weights)

WeightOf(S) == SumFunctionOnSet(Weights, S)
TotalWeight == WeightOf(Backends)

(* config.Validate accepts positive weights only.                          *)
ASSUME WeightsAssumption ==
  /\ Weights \in Seq(Nat \ {0}) /\ Len(Weights) > 0
  /\ IsFiniteSet(Pickers)
  /\ Algorithms \subseteq {"round_robin", "weighted_round_robin", "least_conn",
                           "random", "ip_hash"}
  /\ MaxConns \in Nat

VARIABLES
  algorithm,
  up,             \* backends that are healthy, not draining, circuit closed
  next,           \* RoundRobin.next, modulo the number of backends
  currentWeights, \* WeightedRoundRobin.currentWeights
  conns,          \* LeastConnections.conns
  picker,         \* each picker's progress through Pick
  steady,         \* backends that stayed up since the picker's Pick began
  served,         \* picks of each backend, in the current round or cycle
  flipped,        \* a flag has changed since the balancer was built
  released        \* a connection has ended since the balancer was built

vars == <<algorithm, up, next, currentWeights, conns, picker, steady, served,
          flipped, released>>

Idle == [stage |-> "idle", at |-> 0, start |-> 0, seen |-> {}, got |-> 0]

Init ==
  /\ algorithm \in Algorithms
  /\ up = Backends
  /\ next = 0
  /\ currentWeights = [b \in Backends |-> 0]
  /\ conns = [b \in Backends |-> 0]
  /\ picker = [p \in Pickers |-> Idle]
  /\ steady = [p \in Pickers |-> {}]
  /\ served = [b \in Backends |-> 0]
  /\ flipped = FALSE
  /\ released = FALSE

InStage(s) == {p \in Pickers : picker[p].stage = s}

(* Pick takes its lock: exclusive for weighted_round_robin, shared for the *)
(* others.  RoundRobin.Pick then draws its starting position.              *)
MayBegin(p) ==
  /\ picker[p].stage = "idle"
  /\ algorithm = "weighted_round_robin" => InStage("looking") = {}
  /\ algorithm = "least_conn" =>
       SumFunction(conns) + Cardinality(Pickers \ InStage("idle")) < MaxConns

(* A plausible slip: the counter is loaded and stored back, so a Pick that *)
(* overlaps another loses its increment.                                   *)
BeginLosesIncrement(p) ==
  /\ MayBegin(p)
  /\ picker' = [picker EXCEPT ![p] = [Idle EXCEPT !.stage = "looking", !.start = next]]
  /\ next' = IF algorithm = "round_robin" /\ InStage("looking") = {}
               THEN (next + 1) % Len(Weights) ELSE next
  /\ steady' = [steady EXCEPT ![p] = up]
  /\ UNCHANGED <<algorithm, up, currentWeights, conns, served, flipped, released>>

Begin(p) ==
  /\ MayBegin(p)
  /\ picker' = [picker EXCEPT ![p] = [Idle EXCEPT !.stage = "looking", !.start = next]]
  /\ next' = IF algorithm = "round_robin" THEN (next + 1) % Len(Weights) ELSE next
  /\ steady' = [steady EXCEPT ![p] = up]
  /\ UNCHANGED <<algorithm, up, currentWeights, conns, served, flipped, released>>

(* What the picks add up to while the flags are as they were at the start: *)
(* a round ends when every backend was served, a cycle after TotalWeight   *)
(* picks.                                                                  *)
RoundOver == \A b \in Backends : served[b] > 0

CycleOver == SumFunction(served) = TotalWeight

Count(b) ==
  LET old  == IF algorithm = "round_robin" /\ RoundOver
                THEN [c \in Backends |-> served[c] - 1]
              ELSE IF algorithm = "weighted_round_robin" /\ CycleOver
                THEN [c \in Backends |-> 0]
              ELSE served
  IN IF flipped \/ algorithm \notin {"round_robin", "weighted_round_robin"}
       THEN served' = served
       ELSE served' = [old EXCEPT ![b] = @ + 1]

Chosen(p, b) ==
  /\ picker' = [picker EXCEPT ![p] = [Idle EXCEPT !.stage = "chosen", !.got = b]]
  /\ Count(b)

Refused(p) ==
  /\ picker' = [picker EXCEPT ![p] = [Idle EXCEPT !.stage = "refused"]]
  /\ UNCHANGED served

(* The loop of Pick reads one backend's flags.  RoundRobin counts from its *)
(* start and returns the first eligible one; the others collect them.      *)
Look(p) ==
  LET b == 1 + IF algorithm = "round_robin"
                 THEN (picker[p].start + picker[p].at) % Len(Weights)
                 ELSE picker[p].at
  IN /\ picker[p].stage = "looking"
     /\ picker[p].at < Len(Weights)
     /\ IF algorithm = "round_robin" /\ b \in up
          THEN Chosen(p, b)
          ELSE /\ picker' = [picker EXCEPT ![p].at = @ + 1,
                                           ![p].seen = IF b \in up THEN @ \cup {b} ELSE @]
               /\ UNCHANGED served
     /\ UNCHANGED <<algorithm, up, next, currentWeights, conns, steady, flipped, released>>

(* A plausible slip: the scan stops one position short.                    *)
LookedAtAllButOne(p) ==
  picker[p].stage = "looking" /\ picker[p].at >= Len(Weights) - 1

LookedAtAll(p) == picker[p].stage = "looking" /\ picker[p].at = Len(Weights)

Unlucky(p) ==
  /\ LookedAtAll(p)
  /\ picker[p].seen = {}
  /\ Refused(p)
  /\ UNCHANGED <<algorithm, up, next, currentWeights, conns, steady, flipped, released>>

(* Smooth weighted round-robin: every candidate gains its weight, the      *)
(* first with the greatest current weight wins and pays the candidates'    *)
(* total.  A single candidate is returned with the weights untouched.      *)
Raised(S) == [b \in Backends |-> currentWeights[b] + IF b \in S THEN Weights[b] ELSE 0]

Heaviest(S) ==
  CHOOSE b \in S : \A c \in S \ {b} :
    Raised(S)[b] > Raised(S)[c] \/ (Raised(S)[b] = Raised(S)[c] /\ b < c)

(* A plausible slip: a Pick that skips a backend rebuilds the weights, as  *)
(* UpdateBackends does.                                                    *)
PickWeightedRebuilds(p) ==
  LET S == picker[p].seen
      b == Heaviest(S)
  IN /\ algorithm = "weighted_round_robin"
     /\ LookedAtAll(p) /\ S # {}
     /\ Chosen(p, b)
     /\ currentWeights' = IF S # Backends THEN [c \in Backends |-> 0]
                          ELSE [Raised(S) EXCEPT ![b] = @ - WeightOf(S)]
     /\ UNCHANGED <<algorithm, up, next, conns, steady, flipped, released>>

PickWeighted(p) ==
  LET S == picker[p].seen
      b == Heaviest(S)
  IN /\ algorithm = "weighted_round_robin"
     /\ LookedAtAll(p) /\ S # {}
     /\ Chosen(p, b)
     /\ currentWeights' = IF Cardinality(S) = 1 THEN currentWeights
                          ELSE [Raised(S) EXCEPT ![b] = @ - WeightOf(S)]
     /\ UNCHANGED <<algorithm, up, next, conns, steady, flipped, released>>

(* The fewest connections; on a tie the higher weight, then the first.     *)
Least(S) ==
  CHOOSE b \in S : \A c \in S \ {b} :
    \/ conns[b] < conns[c]
    \/ /\ conns[b] = conns[c]
       /\ Weights[b] > Weights[c] \/ (Weights[b] = Weights[c] /\ b < c)

PickLeast(p) ==
  /\ algorithm = "least_conn"
  /\ LookedAtAll(p) /\ picker[p].seen # {}
  /\ Chosen(p, Least(picker[p].seen))
  /\ UNCHANGED <<algorithm, up, next, currentWeights, conns, steady, flipped, released>>

(* The callers call Acquire on the balancer after Pick has returned; it    *)
(* needs the lock that Picks in progress share.                            *)
Acquire(p) ==
  /\ algorithm = "least_conn"
  /\ picker[p].stage = "chosen"
  /\ InStage("looking") = {}
  /\ conns' = [conns EXCEPT ![picker[p].got] = @ + 1]
  /\ picker' = [picker EXCEPT ![p] = Idle]
  /\ steady' = [steady EXCEPT ![p] = {}]
  /\ UNCHANGED <<algorithm, up, next, currentWeights, served, flipped, released>>

(* Some connection to b ends; a count of zero stays zero.                  *)
Release(b) ==
  /\ algorithm = "least_conn"
  /\ InStage("looking") = {}
  /\ conns[b] > 0
  /\ conns' = [conns EXCEPT ![b] = @ - 1]
  /\ released' = TRUE
  /\ UNCHANGED <<algorithm, up, next, currentWeights, picker, steady, served, flipped>>

(* The walk of random and ip_hash: subtract the candidates' weights from   *)
(* the target, in order, until it is negative.                             *)
ByWeight(target, S) ==
  CHOOSE b \in S :
    /\ target < WeightOf({c \in S : c <= b})
    /\ \A c \in S : c < b => target >= WeightOf({d \in S : d <= c})

(* The client's key is hashed; any remainder is the hash of some key.      *)
PickHashed(p) ==
  /\ algorithm = "ip_hash"
  /\ LookedAtAll(p)
  /\ \E target \in 0 .. WeightOf(picker[p].seen) - 1 :
       Chosen(p, ByWeight(target, picker[p].seen))
  /\ UNCHANGED <<algorithm, up, next, currentWeights, conns, steady, flipped, released>>

(* A single candidate is returned without a draw.                          *)
PickSole(p) ==
  /\ algorithm = "random"
  /\ LookedAtAll(p)
  /\ \E b \in Backends : picker[p].seen = {b} /\ Chosen(p, b)
  /\ UNCHANGED <<algorithm, up, next, currentWeights, conns, steady, flipped, released>>

(* Random.Pick draws from a rand.Rand, which is not safe for concurrent    *)
(* use, under the shared lock.  Draws that overlap are marked.             *)
Draw(p) ==
  /\ algorithm = "random"
  /\ LookedAtAll(p) /\ Cardinality(picker[p].seen) > 1
  /\ picker' = [q \in Pickers |->
       IF q = p THEN [picker[p] EXCEPT !.stage =
                        IF InStage("drawing") \cup InStage("torn") = {} THEN "drawing" ELSE "torn"]
       ELSE IF picker[q].stage = "drawing" THEN [picker[q] EXCEPT !.stage = "torn"]
       ELSE picker[q]]
  /\ UNCHANGED <<algorithm, up, next, currentWeights, conns, steady, served, flipped, released>>

(* Draws that overlapped return any value, or index past the generator's   *)
(* table and panic.                                                        *)
Drawn(p) ==
  /\ picker[p].stage \in {"drawing", "torn"}
  /\ \/ \E target \in 0 .. WeightOf(picker[p].seen) - 1 :
          Chosen(p, ByWeight(target, picker[p].seen))
     \/ /\ picker[p].stage = "torn"
        /\ picker' = [picker EXCEPT ![p] = [Idle EXCEPT !.stage = "panicked"]]
        /\ UNCHANGED served
  /\ UNCHANGED <<algorithm, up, next, currentWeights, conns, steady, flipped, released>>

(* The caller takes the result; for least_conn a success goes to Acquire.  *)
Return(p) ==
  /\ \/ picker[p].stage = "refused" \/ picker[p].stage = "panicked"
     \/ picker[p].stage = "chosen" /\ algorithm # "least_conn"
  /\ picker' = [picker EXCEPT ![p] = Idle]
  /\ steady' = [steady EXCEPT ![p] = {}]
  /\ UNCHANGED <<algorithm, up, next, currentWeights, conns, served, flipped, released>>

(* SetHealthy, SetDraining or the circuit breaker changes a flag.          *)
SetFlag(b) ==
  /\ up' = IF b \in up THEN up \ {b} ELSE up \cup {b}
  /\ steady' = [p \in Pickers |-> steady[p] \ {b}]
  /\ flipped' = TRUE
  /\ served' = [c \in Backends |-> 0]
  /\ UNCHANGED <<algorithm, next, currentWeights, conns, picker, released>>

Pick(p) ==
  \/ Begin(p) \/ Look(p) \/ Unlucky(p)
  \/ PickWeighted(p) \/ PickLeast(p) \/ PickHashed(p)
  \/ PickSole(p) \/ Draw(p) \/ Drawn(p)
  \/ Return(p) \/ Acquire(p)

Next ==
  \/ \E p \in Pickers : Pick(p)
  \/ \E b \in Backends : Release(b) \/ SetFlag(b)

Spec == Init /\ [][Next]_vars

(* Clients keep coming, and no Pick stops half-way.  Nothing is assumed of *)
(* the flags.                                                              *)
FairSpec == Spec /\ \A p \in Pickers : WF_vars(Pick(p))

-----------------------------------------------------------------------------
MaxWeight == CHOOSE w \in Range(Weights) : \A v \in Range(Weights) : v <= w
Drift == MaxWeight * (Len(Weights) - 1)

(* Every variable has its type.  The current weights of smooth weighted    *)
(* round-robin stay within the largest weight times the number of the      *)
(* other backends, whatever the flags do between picks: they never drift   *)
(* off although a skipped backend's weight is kept.                        *)
TypeOK ==
  /\ algorithm \in Algorithms
  /\ up \subseteq Backends
  /\ next \in 0 .. Len(Weights) - 1
  /\ currentWeights \in [Backends -> -Drift .. Drift]
  /\ conns \in [Backends -> 0 .. MaxConns]
  /\ picker \in [Pickers -> [stage : {"idle", "looking", "drawing", "torn", "chosen",
                                      "refused", "panicked"},
                             at : 0 .. Len(Weights), start : 0 .. Len(Weights) - 1,
                             seen : SUBSET Backends, got : Backends \cup {0}]]
  /\ steady \in [Pickers -> SUBSET Backends]
  /\ served \in [Backends -> 0 .. TotalWeight + Cardinality(Pickers)]
  /\ flipped \in BOOLEAN /\ released \in BOOLEAN

(* Pick fails with "no healthy backends available" only if no backend was  *)
(* eligible all through the call, however the flags change under the scan  *)
(* and wherever a round-robin scan starts.                                 *)
RefusalIsTrue == \A p \in Pickers : picker[p].stage = "refused" => steady[p] = {}

(* Concurrent round-robin picks differ by at most one per backend, and one *)
(* more for every Pick in progress: the shared counter loses no position.  *)
RoundRobinEven ==
  (algorithm = "round_robin" /\ ~flipped) =>
    \A b, c \in Backends : served[b] - served[c] <= 1 + Cardinality(InStage("looking"))

(* Smooth weighted round-robin serves each backend exactly its weight in a *)
(* cycle.  At no point of a cycle is one a full pick ahead of its share,   *)
(* nor further behind it than the weights can drift.                       *)
WeightedShare ==
  (algorithm = "weighted_round_robin" /\ ~flipped) =>
    LET n == SumFunction(served) IN
    /\ CycleOver => \A b \in Backends : served[b] = Weights[b]
    /\ \A b \in Backends :
         LET off == served[b] * TotalWeight - n * Weights[b]
         IN -Drift <= off /\ off < TotalWeight

(* Smooth weighted round-robin conserves weight: what the candidates gain  *)
(* the winner pays, also when the candidates change from pick to pick.     *)
WeightConserved == SumFunction(currentWeights) = 0

(* While all backends stay eligible and no connection ends, the            *)
(* connections of two backends differ by no more than the number of        *)
(* concurrent callers: Pick and Acquire are two steps, so each caller may  *)
(* act on counts that miss the others' choices, and no worse.              *)
LeastWithinRace ==
  (algorithm = "least_conn" /\ ~flipped /\ ~released) =>
    \A b, c \in Backends : conns[b] - conns[c] <= Cardinality(Pickers)

(* Of the targets that random and ip_hash may draw for the candidates a    *)
(* Pick has collected, exactly weight many lead to each, and none leads to *)
(* a backend that was skipped.                                             *)
SharesMatchWeights ==
  algorithm \in {"random", "ip_hash"} =>
    \A p \in InStage("looking") : \A b \in Backends :
      LET S == picker[p].seen
      IN Cardinality({t \in 0 .. WeightOf(S) - 1 : ByWeight(t, S) = b})
           = IF b \in S THEN Weights[b] ELSE 0

(* Every variable has its type, and every algorithm gives every backend    *)
(* its share, however the picks of concurrent callers overlap: both        *)
(* rotations and least_conn while all backends stay eligible, random and   *)
(* ip_hash among any candidates; and flags that change lose no weight.     *)
SharesKept ==
  /\ TypeOK
  /\ RoundRobinEven /\ WeightedShare /\ WeightConserved
  /\ LeastWithinRace /\ SharesMatchWeights

(* A backend that stays eligible is served again and again by both kinds   *)
(* of round-robin, whatever happens to the other backends' flags: the      *)
(* rotation starves nobody.                                                *)
NobodyStarves ==
  \A b \in Backends :
    (algorithm \in {"round_robin", "weighted_round_robin"} /\ <>[](b \in up)) =>
      []<>(\E p \in Pickers : picker[p].stage = "chosen" /\ picker[p].got = b)
=============================================================================
