----------------------------- MODULE PickProofs -----------------------------
(***************************************************************************)
(* Proofs about Pick, for every list of weights, every finite set of       *)
(* callers and all five algorithms: lemmas about the operators of          *)
(* Balancers, and that a Pick that finds no backend has looked at all of   *)
(* them.                                                                   *)
(***************************************************************************)
EXTENDS Balancers, SumProofs

-----------------------------------------------------------------------------
(* The operators of Balancers.                                             *)

N == Len(Weights)

(* The list of backends: positions 1 .. N, each with a positive weight.    *)
LEMMA PoolFacts ==
  /\ N \in Nat \ {0} /\ N \in Backends
  /\ IsFiniteSet(Backends) /\ Cardinality(Backends) = N
  /\ \A b \in Backends : b \in Nat \ {0} /\ b <= N /\ Weights[b] \in Nat \ {0}
  /\ \A b \in Nat \ {0} : b <= N => b \in Backends
<1>1. N \in Nat \ {0} /\ Backends = 1 .. N
  BY WeightsAssumption DEF N, Backends
<1>2. IsFiniteSet(1 .. N) /\ Cardinality(1 .. N) = N
  BY <1>1, FS_Interval
<1>3. \A b \in 1 .. N : Weights[b] \in Nat \ {0}
  BY WeightsAssumption DEF N
<1> QED BY <1>1, <1>2, <1>3

(* The weight of a set of backends, of its parts and of it less a member.  *)
LEMMA WeightOfType ==
  ASSUME NEW S \in SUBSET Backends
  PROVE  /\ IsFiniteSet(S) /\ WeightOf(S) \in Nat
         /\ \A A \in SUBSET S : WeightOf(A) <= WeightOf(S)
         /\ \A b \in S : Weights[b] <= WeightOf(S)
         /\ \A b \in S : WeightOf(S) = Weights[b] + WeightOf(S \ {b})
<1>1. IsFiniteSet(S)
  BY PoolFacts, FS_Subset, Zenon
<1>2. \A x \in S : Weights[x] \in Nat /\ Weights[x] \in Int
  BY PoolFacts
<1>3. WeightOf(S) \in Nat /\ \A b \in S : Weights[b] <= WeightOf(S)
  BY <1>1, <1>2, SumNat DEF WeightOf
<1>4. \A A \in SUBSET S : WeightOf(A) <= WeightOf(S)
  BY <1>1, <1>2, SumPart, Zenon DEF WeightOf
<1>5. \A b \in S : WeightOf(S) = Weights[b] + WeightOf(S \ {b})
  BY <1>1, <1>2, SumTakeOut DEF WeightOf
<1> QED BY <1>1, <1>3, <1>4, <1>5

(* The largest weight is one of the weights and none is larger.            *)
LEMMA MaxWeightIs ==
  /\ MaxWeight \in Nat \ {0}
  /\ \A b \in Backends : Weights[b] <= MaxWeight
<1> DEFINE R == {e \in Backends \X Backends : Weights[e[1]] >= Weights[e[2]]}
<1>1. \E b \in Backends : \A c \in Backends \ {b} : <<b, c>> \in R
  <2>1. /\ \A a, b \in Backends : a # b => <<a, b>> \in R \/ <<b, a>> \in R
        /\ \A a, b, c \in Backends : <<a, b>> \in R /\ <<b, c>> \in R => <<a, c>> \in R
    BY PoolFacts
  <2>2. Backends # {} /\ IsFiniteSet(Backends)
    BY PoolFacts
  <2> HIDE DEF R
  <2> QED BY <2>1, <2>2, BestExists
<1>2. PICK b \in Backends : \A c \in Backends : Weights[c] <= Weights[b]
  <2>1. PICK b \in Backends : \A c \in Backends \ {b} : <<b, c>> \in R
    BY <1>1
  <2>2. \A c \in Backends \ {b} : Weights[b] >= Weights[c]
    BY <2>1, Zenon
  <2> QED BY <2>2, PoolFacts
<1>3. Range(Weights) = {Weights[c] : c \in Backends}
  BY WeightsAssumption DEF Range, Backends
<1>4. \E w \in Range(Weights) : \A v \in Range(Weights) : v <= w
  BY <1>2, <1>3
<1>5. MaxWeight \in Range(Weights) /\ \A v \in Range(Weights) : v <= MaxWeight
  BY <1>4 DEF MaxWeight
<1> QED BY <1>3, <1>5, PoolFacts

(* The total weight is at least the number of backends.                    *)
LEMMA TotalWeightIs == TotalWeight \in Nat \ {0} /\ N <= TotalWeight
<1>1. PICK zero, minus : zero = [b \in Backends |-> 0] /\ minus = [b \in Backends |-> -Weights[b]]
  BY Zenon
<1>2. \A b \in Backends : /\ zero[b] \in Int /\ zero[b] = 0
                         /\ minus[b] \in Int /\ minus[b] = -Weights[b]
                         /\ Weights[b] \in Int /\ Weights[b] >= 1
  BY <1>1, PoolFacts
<1>3. TotalWeight \in Nat /\ N \in Nat \ {0} /\ Cardinality(Backends) = N /\ IsFiniteSet(Backends)
  BY WeightOfType, PoolFacts DEF TotalWeight
<1>4. SumFunctionOnSet(zero, Backends) = 0
  BY <1>2, <1>3, SumZero
<1>5. /\ SumFunctionOnSet(minus, Backends) \in Int
      /\ SumFunctionOnSet(zero, Backends)
           = SumFunctionOnSet(minus, Backends) + SumFunctionOnSet(Weights, Backends)
  BY <1>2, <1>3, SumAdds, SumInt
<1>6. PICK k \in Int : k = -1
  OBVIOUS
<1>7. SumFunctionOnSet(zero, Backends)
        <= Cardinality(Backends) * k - SumFunctionOnSet(minus, Backends)
  <2>1. \A b \in Backends : zero[b] \in Int /\ minus[b] \in Int /\ zero[b] <= k - minus[b]
    BY <1>2, <1>6
  <2> QED BY <1>3, <2>1, SumBelow
<1> QED BY <1>3, <1>4, <1>5, <1>6, <1>7 DEF TotalWeight, WeightOf

(* The first of the greatest wins.                                         *)
LEMMA HeaviestWins ==
  ASSUME NEW S \in SUBSET Backends, S # {}, currentWeights \in [Backends -> Int]
  PROVE  /\ Heaviest(S) \in S
         /\ \A c \in S : currentWeights[Heaviest(S)] + Weights[Heaviest(S)] >= currentWeights[c] + Weights[c]
<1> DEFINE Over(b, c) == Raised(S)[b] > Raised(S)[c] \/ (Raised(S)[b] = Raised(S)[c] /\ b < c)
           R == {e \in S \X S : Over(e[1], e[2])}
<1>1. \A b \in S : b \in Int /\ Raised(S)[b] \in Int /\ Raised(S)[b] = currentWeights[b] + Weights[b]
  BY PoolFacts DEF Raised
<1>2. \E b \in S : \A c \in S \ {b} : <<b, c>> \in R
  <2>1. \A a, b \in S : a # b => <<a, b>> \in R \/ <<b, a>> \in R
    BY <1>1
  <2>2. \A a, b, c \in S : <<a, b>> \in R /\ <<b, c>> \in R => <<a, c>> \in R
    BY <1>1
  <2>3. IsFiniteSet(S)
    BY WeightOfType
  <2> HIDE DEF R
  <2> QED BY <2>1, <2>2, <2>3, BestExists, Zenon
<1>3. \E b \in S : \A c \in S \ {b} : Over(b, c)
  <2> HIDE DEF Over
  <2> QED BY <1>2, Zenon
<1>4. Heaviest(S) \in S /\ \A c \in S \ {Heaviest(S)} : Over(Heaviest(S), c)
  <2>1. Heaviest(S) = CHOOSE b \in S : \A c \in S \ {b} : Over(b, c)
    BY DEF Heaviest
  <2> HIDE DEF Over
  <2> QED BY <1>3, <2>1
<1> QED BY <1>1, <1>4

(* The chosen backend has the fewest connections.                          *)
LEMMA LeastIsLeast ==
  ASSUME NEW S \in SUBSET Backends, S # {}, conns \in [Backends -> Nat]
  PROVE  Least(S) \in S /\ \A c \in S : conns[Least(S)] <= conns[c]
<1> DEFINE Over(b, c) ==
             \/ conns[b] < conns[c]
             \/ /\ conns[b] = conns[c]
                /\ Weights[b] > Weights[c] \/ (Weights[b] = Weights[c] /\ b < c)
           R == {e \in S \X S : Over(e[1], e[2])}
<1>1. \A b \in S : b \in Int /\ conns[b] \in Int /\ Weights[b] \in Int
  BY PoolFacts
<1>2. \E b \in S : \A c \in S \ {b} : <<b, c>> \in R
  <2>1. \A a, b \in S : a # b => <<a, b>> \in R \/ <<b, a>> \in R
    BY <1>1
  <2>2. \A a, b, c \in S : <<a, b>> \in R /\ <<b, c>> \in R => <<a, c>> \in R
    BY <1>1
  <2>3. IsFiniteSet(S)
    BY WeightOfType
  <2> HIDE DEF R
  <2> QED BY <2>1, <2>2, <2>3, BestExists, Zenon
<1>3. \E b \in S : \A c \in S \ {b} : Over(b, c)
  <2> HIDE DEF Over
  <2> QED BY <1>2, Zenon
<1>4. Least(S) \in S /\ \A c \in S \ {Least(S)} : Over(Least(S), c)
  <2>1. Least(S) = CHOOSE b \in S : \A c \in S \ {b} : Over(b, c)
    BY DEF Least
  <2> HIDE DEF Over
  <2> QED BY <1>3, <2>1
<1> QED BY <1>1, <1>4

-----------------------------------------------------------------------------
UpTo(S, b)  == {c \in S : c <= b}
Below(S, b) == {c \in S : c < b}

(* Along the list the weights add up: Random.Pick's running sum.           *)
LEMMA Prefixes ==
  ASSUME NEW S \in SUBSET Backends, NEW b \in S
  PROVE  /\ WeightOf(UpTo(S, b)) = WeightOf(Below(S, b)) + Weights[b]
         /\ WeightOf(Below(S, b)) \in Nat /\ WeightOf(UpTo(S, b)) \in Nat
         /\ WeightOf(UpTo(S, b)) <= WeightOf(S)
         /\ \A c \in S : c < b => WeightOf(UpTo(S, c)) <= WeightOf(Below(S, b))
<1>1. \A c \in S : c \in Int /\ Weights[c] \in Nat
  BY PoolFacts
<1>2. /\ UpTo(S, b) \in SUBSET Backends /\ UpTo(S, b) \in SUBSET S /\ b \in UpTo(S, b)
      /\ Below(S, b) \in SUBSET Backends /\ Below(S, b) = UpTo(S, b) \ {b}
  BY <1>1 DEF UpTo, Below
<1>3. \A c \in S : c < b => UpTo(S, c) \in SUBSET Below(S, b)
  BY <1>1 DEF UpTo, Below
<1>4. /\ WeightOf(UpTo(S, b)) \in Nat /\ WeightOf(Below(S, b)) \in Nat
      /\ WeightOf(UpTo(S, b)) <= WeightOf(S)
  BY <1>2, WeightOfType
<1>5. WeightOf(UpTo(S, b)) = Weights[b] + WeightOf(UpTo(S, b) \ {b})
  BY <1>2, WeightOfType
<1>6. ASSUME NEW c \in S, c < b PROVE WeightOf(UpTo(S, c)) <= WeightOf(Below(S, b))
  BY <1>2, <1>3, <1>6, WeightOfType
<1>7. WeightOf(UpTo(S, b)) = WeightOf(Below(S, b)) + Weights[b]
  <2>1. WeightOf(Below(S, b)) = WeightOf(UpTo(S, b) \ {b})
    BY <1>2, Zenon
  <2> QED BY <1>1, <1>4, <1>5, <2>1
<1> QED BY <1>4, <1>6, <1>7

(* The walk stops at b exactly for the targets of b's own stretch.         *)
LEMMA Stretch ==
  ASSUME NEW S \in SUBSET Backends, NEW b \in S, NEW t \in Nat
  PROVE  (\A c \in S : c < b => t >= WeightOf(UpTo(S, c))) <=> t >= WeightOf(Below(S, b))
<1>1. \A c \in S : c \in Int
  BY PoolFacts
<1>2. \A c \in S : WeightOf(UpTo(S, c)) \in Nat /\ WeightOf(Below(S, c)) \in Nat
  BY Prefixes
<1>3. ASSUME t >= WeightOf(Below(S, b)), NEW c \in S, c < b PROVE t >= WeightOf(UpTo(S, c))
  <2>1. WeightOf(UpTo(S, c)) <= WeightOf(Below(S, b))
    BY <1>3, Prefixes
  <2> QED BY <1>2, <1>3, <2>1
<1>4. ASSUME \A c \in S : c < b => t >= WeightOf(UpTo(S, c)) PROVE t >= WeightOf(Below(S, b))
  <2>1. CASE Below(S, b) = {}
    BY <2>1, SumEmpty DEF WeightOf
  <2>2. CASE Below(S, b) # {}
    <3> DEFINE B == Below(S, b)
               R == {e \in B \X B : e[1] > e[2]}
    <3>1. B \in SUBSET S
      BY DEF Below
    <3>2. \E a \in B : \A c \in B \ {a} : <<a, c>> \in R
      <4>1. /\ \A a, c \in B : a # c => <<a, c>> \in R \/ <<c, a>> \in R
            /\ \A a, c, d \in B : <<a, c>> \in R /\ <<c, d>> \in R => <<a, d>> \in R
        BY <1>1, <3>1
      <4>2. IsFiniteSet(B)
        BY <3>1, WeightOfType
      <4> HIDE DEF R, B
      <4> QED BY <2>2, <4>1, <4>2, BestExists DEF B
    <3>3. PICK a \in B : \A c \in B \ {a} : a > c
      BY <3>2, Zenon
    <3>4. UpTo(S, a) = Below(S, b) /\ a \in S /\ a < b
      BY <1>1, <3>1, <3>3 DEF UpTo, Below
    <3> QED BY <1>4, <3>4
  <2> QED BY <2>1, <2>2
<1> QED BY <1>3, <1>4

(* Random.Pick's walk ends at a candidate for every target below the       *)
(* total, and at b for the targets of b's stretch.                         *)
LEMMA ByWeightIs ==
  ASSUME NEW S \in SUBSET Backends, NEW t \in 0 .. WeightOf(S) - 1
  PROVE  /\ ByWeight(t, S) \in S
         /\ \A b \in S : ByWeight(t, S) = b <=>
              WeightOf(Below(S, b)) <= t /\ t < WeightOf(UpTo(S, b))
<1> DEFINE Stops(b) == t < WeightOf(UpTo(S, b)) /\ \A c \in S : c < b => t >= WeightOf(UpTo(S, c))
           Past == {b \in S : t < WeightOf(UpTo(S, b))}
           Less == {e \in Past \X Past : e[1] < e[2]}
           More == {e \in S \X S : e[1] > e[2]}
<1>1. /\ \A c \in S : c \in Int
      /\ IsFiniteSet(S) /\ WeightOf(S) \in Nat /\ t \in Nat
  BY PoolFacts, WeightOfType
<1>2. \A c \in S : WeightOf(UpTo(S, c)) \in Nat
  BY Prefixes
<1>3. S # {}
  BY <1>1, SumEmpty DEF WeightOf
<1>4. Past # {}
  <2>1. \E a \in S : \A c \in S \ {a} : <<a, c>> \in More
    <3>1. /\ \A a, c \in S : a # c => <<a, c>> \in More \/ <<c, a>> \in More
          /\ \A a, c, d \in S : <<a, c>> \in More /\ <<c, d>> \in More => <<a, d>> \in More
      BY <1>1
    <3> HIDE DEF More
    <3>2. IsFiniteSet(S)
      BY <1>1
    <3> QED BY <1>3, <3>1, <3>2, BestExists
  <2>2. PICK a \in S : \A c \in S \ {a} : a > c
    BY <2>1, Zenon
  <2>3. UpTo(S, a) = S
    BY <1>1, <2>2 DEF UpTo
  <2> QED BY <1>1, <2>3
<1>5. \E a \in Past : \A c \in Past \ {a} : <<a, c>> \in Less
  <2>1. /\ \A a, c \in Past : a # c => <<a, c>> \in Less \/ <<c, a>> \in Less
        /\ \A a, c, d \in Past : <<a, c>> \in Less /\ <<c, d>> \in Less => <<a, d>> \in Less
    BY <1>1
  <2>2. IsFiniteSet(Past)
    BY <1>1, FS_Subset
  <2> HIDE DEF Less, Past
  <2> QED BY <1>4, <2>1, <2>2, BestExists, Zenon
<1>6. \E b \in S : Stops(b)
  <2>1. PICK a \in Past : \A c \in Past \ {a} : a < c
    BY <1>5, Zenon
  <2>2. Stops(a)
    BY <1>1, <1>2, <2>1
  <2> QED BY <2>2
<1>7. ByWeight(t, S) = CHOOSE b \in S : Stops(b)
  BY DEF ByWeight, UpTo
<1>8. ByWeight(t, S) \in S /\ Stops(ByWeight(t, S))
  <2> HIDE DEF Stops
  <2> QED BY <1>6, <1>7
<1>9. ASSUME NEW a \in S, NEW b \in S, Stops(a), Stops(b) PROVE a = b
  BY <1>1, <1>2, <1>9
<1>10. \A b \in S : Stops(b) <=> WeightOf(Below(S, b)) <= t /\ t < WeightOf(UpTo(S, b))
  BY <1>1, Prefixes, Stretch
<1> HIDE DEF Stops
<1> QED BY <1>8, <1>9, <1>10

(* Exactly weight many targets lead to each candidate.                     *)
LEMMA SharesAreWeights ==
  ASSUME NEW S \in SUBSET Backends, NEW b \in Backends
  PROVE  Cardinality({t \in 0 .. WeightOf(S) - 1 : ByWeight(t, S) = b})
           = IF b \in S THEN Weights[b] ELSE 0
<1> DEFINE T == {t \in 0 .. WeightOf(S) - 1 : ByWeight(t, S) = b}
<1>1. WeightOf(S) \in Nat
  BY WeightOfType
<1>2. CASE b \in S
  <2> DEFINE lo == WeightOf(Below(S, b))
             hi == WeightOf(UpTo(S, b))
  <2>1. lo \in Nat /\ hi \in Nat /\ hi = lo + Weights[b] /\ hi <= WeightOf(S) /\ Weights[b] \in Nat \ {0}
    BY <1>2, Prefixes, PoolFacts, Zenon
  <2>2. T = lo .. hi - 1
    <3>1. \A t \in 0 .. WeightOf(S) - 1 : ByWeight(t, S) = b <=> lo <= t /\ t < hi
      BY <1>2, ByWeightIs
    <3> HIDE DEF lo, hi
    <3> QED BY <1>1, <2>1, <3>1
  <2>3. Cardinality(lo .. hi - 1) = hi - 1 - lo + 1
    <3> HIDE DEF lo, hi
    <3>1. lo \in Int /\ hi - 1 \in Int /\ lo <= hi - 1
      BY <2>1
    <3> QED BY <3>1, FS_Interval
  <2> HIDE DEF lo, hi, T
  <2>4. Cardinality(T) = Weights[b]
    BY <2>1, <2>2, <2>3
  <2> QED BY <1>2, <2>4 DEF T
<1>3. CASE b \notin S
  <2>1. T = {}
    BY <1>3, ByWeightIs
  <2> QED BY <1>3, <2>1, FS_EmptySet
<1> QED BY <1>2, <1>3

-----------------------------------------------------------------------------
(* The scan of a Pick.                                                     *)

PickerType ==
  [stage : {"idle", "looking", "drawing", "torn", "chosen", "refused", "panicked"},
   at : 0 .. N, start : 0 .. N - 1, seen : SUBSET Backends, got : Backends \cup {0}]

(* The backend that a Pick reads in its i-th step.                         *)
Position(start, i) == 1 + IF algorithm = "round_robin" THEN (start + i) % N ELSE i

(* A Pick in progress has collected every backend it has passed that       *)
(* stayed up since it began; round-robin has not passed any.               *)
Scan(r, stayed) ==
  /\ r.stage = "chosen" => r.got \in Backends
  /\ r.stage = "refused" => stayed = {}
  /\ r.stage \in {"drawing", "torn"} => algorithm = "random"
  /\ r.stage = "looking" =>
      /\ \A i \in 0 .. r.at - 1 : Position(r.start, i) \in stayed => Position(r.start, i) \in r.seen
      /\ algorithm = "round_robin" => r.seen = {}
      /\ ~flipped => IF algorithm = "round_robin" THEN r.at = 0 ELSE r.seen = 1 .. r.at

ScanInv ==
  /\ algorithm \in Algorithms
  /\ up \in SUBSET Backends /\ (~flipped => up = Backends)
  /\ next \in 0 .. N - 1
  /\ currentWeights \in [Backends -> Int]
  /\ conns \in [Backends -> Nat]
  /\ picker \in [Pickers -> PickerType]
  /\ steady \in [Pickers -> SUBSET up]
  /\ served \in [Backends -> Nat]
  /\ flipped \in BOOLEAN /\ released \in BOOLEAN
  /\ \A p \in Pickers : Scan(picker[p], steady[p])

(* The modulus in RoundRobin.Pick, for what is less than twice around.     *)
LEMMA Wraps ==
  ASSUME NEW x \in Nat, x < 2 * N
  PROVE  x % N = IF x < N THEN x ELSE x - N
<1>1. N \in Nat \ {0}
  BY PoolFacts
<1> QED BY <1>1

(* A Pick that goes through all positions reads every backend, from        *)
(* wherever it starts.                                                     *)
LEMMA Positions ==
  ASSUME NEW start \in 0 .. N - 1
  PROVE  /\ \A i \in 0 .. N - 1 : Position(start, i) \in Backends
         /\ \A b \in Backends : \E i \in 0 .. N - 1 : Position(start, i) = b
         /\ Position(start, 0) = IF algorithm = "round_robin" THEN start + 1 ELSE 1
<1>1. N \in Nat \ {0} /\ \A b : b \in Backends <=> b \in Nat \ {0} /\ b <= N
  BY PoolFacts, Zenon
<1>2. \A i \in 0 .. N - 1 : (start + i) % N = IF start + i < N THEN start + i ELSE start + i - N
  BY <1>1, Wraps
<1>3. ASSUME NEW i \in 0 .. N - 1 PROVE Position(start, i) \in Backends
  BY <1>1, <1>2 DEF Position
<1>4. ASSUME NEW b \in Backends PROVE \E i \in 0 .. N - 1 : Position(start, i) = b
  <2>1. CASE algorithm # "round_robin"
    <3>1. b - 1 \in 0 .. N - 1 /\ Position(start, b - 1) = b
      BY <1>1, <2>1 DEF Position
    <3> QED BY <3>1
  <2>2. CASE algorithm = "round_robin" /\ b > start
    <3>1. PICK i \in Int : i = b - 1 - start
      BY <1>1
    <3>2. i \in 0 .. N - 1 /\ start + i = b - 1 /\ start + i < N
      BY <1>1, <2>2, <3>1
    <3>3. Position(start, i) = b
      BY <1>1, <1>2, <2>2, <3>2 DEF Position
    <3> QED BY <3>2, <3>3
  <2>3. CASE algorithm = "round_robin" /\ b <= start
    <3>1. PICK i \in Int : i = b - 1 - start + N
      BY <1>1
    <3>2. i \in 0 .. N - 1 /\ start + i = b - 1 + N /\ ~(start + i < N)
      BY <1>1, <2>3, <3>1
    <3>3. Position(start, i) = b
      BY <1>1, <1>2, <2>3, <3>2 DEF Position
    <3> QED BY <3>2, <3>3
  <2> QED BY <1>1, <2>1, <2>2, <2>3
<1>5. Position(start, 0) = IF algorithm = "round_robin" THEN start + 1 ELSE 1
  BY <1>1, <1>2 DEF Position
<1> QED BY <1>3, <1>4, <1>5

(* A picker that is not in Pick.                                           *)
LEMMA IdleType ==
  /\ Idle \in PickerType
  /\ \A b \in Backends : [Idle EXCEPT !.stage = "chosen", !.got = b] \in PickerType
  /\ \A n \in 0 .. N - 1 : [Idle EXCEPT !.stage = "looking", !.start = n] \in PickerType
  /\ [Idle EXCEPT !.stage = "refused"] \in PickerType
  /\ [Idle EXCEPT !.stage = "panicked"] \in PickerType
<1>1. 0 \in 0 .. N /\ 0 \in 0 .. N - 1
  BY PoolFacts
<1> QED BY <1>1, Zenon DEF Idle, PickerType

(* What the picks add up to stays a count.                                 *)
LEMMA CountType ==
  ASSUME ScanInv, NEW b \in Backends, Count(b)
  PROVE  served' \in [Backends -> Nat]
<1>1. served \in [Backends -> Nat]
  BY DEF ScanInv
<1>2. ASSUME NEW old \in [Backends -> Nat] PROVE [old EXCEPT ![b] = @ + 1] \in [Backends -> Nat]
  OBVIOUS
<1>3. RoundOver => [c \in Backends |-> served[c] - 1] \in [Backends -> Nat]
  BY <1>1 DEF RoundOver
<1>4. [c \in Backends |-> 0] \in [Backends -> Nat]
  OBVIOUS
<1>5. CASE served' = served
  BY <1>1, <1>5
<1>6. CASE served' # served
  <2>1. PICK old : /\ served' = [old EXCEPT ![b] = @ + 1]
                   /\ \/ RoundOver /\ old = [c \in Backends |-> served[c] - 1]
                      \/ old = [c \in Backends |-> 0]
                      \/ old = served
    <3> HIDE DEF RoundOver
    <3> QED BY <1>6, Zenon DEF Count
  <2>2. old \in [Backends -> Nat]
    BY <1>1, <1>3, <1>4, <2>1
  <2> QED BY <1>2, <2>1, <2>2
<1> QED BY <1>5, <1>6

(* A Pick that ends with a backend.                                        *)
LEMMA ChosenScan ==
  ASSUME ScanInv, NEW p \in Pickers, NEW b \in Backends, Chosen(p, b),
         UNCHANGED <<algorithm, up, next, conns, steady, flipped, released>>,
         currentWeights' \in [Backends -> Int]
  PROVE  ScanInv'
<1> DEFINE r == [Idle EXCEPT !.stage = "chosen", !.got = b]
<1>1. picker' = [picker EXCEPT ![p] = r] /\ r \in PickerType /\ r.stage = "chosen" /\ r.got = b
  BY IdleType, Zenon DEF Chosen, Idle
<1>2. served' \in [Backends -> Nat]
  BY CountType DEF Chosen
<1> HIDE DEF r
<1>3. picker' \in [Pickers -> PickerType]
  BY <1>1 DEF ScanInv
<1>4. ASSUME NEW q \in Pickers PROVE Scan(picker[q], steady[q])'
  <2>1. CASE q = p
    BY <1>1, <2>1, Zenon DEF Scan, ScanInv
  <2>2. CASE q # p
    <3>1. picker'[q] = picker[q] /\ steady'[q] = steady[q] /\ Scan(picker[q], steady[q])
      BY <1>1, <2>2 DEF ScanInv
    <3> QED BY <3>1 DEF Scan, Position
  <2> QED BY <2>1, <2>2, Zenon
<1> QED BY <1>2, <1>3, <1>4 DEF ScanInv

(* A Pick that ends with nothing, or whose result has been taken.          *)
LEMMA EndedScan ==
  ASSUME ScanInv, NEW p \in Pickers, NEW r \in PickerType, r.stage \in {"idle", "refused", "panicked"},
         NEW s \in SUBSET up, r.stage = "refused" => s = {},
         picker' = [picker EXCEPT ![p] = r], steady' = [steady EXCEPT ![p] = s],
         UNCHANGED <<algorithm, up, next, currentWeights, served, flipped, released>>,
         conns' \in [Backends -> Nat]
  PROVE  ScanInv'
<1>1. picker' \in [Pickers -> PickerType] /\ steady' \in [Pickers -> SUBSET up]
  BY DEF ScanInv
<1>2. ASSUME NEW q \in Pickers PROVE Scan(picker[q], steady[q])'
  <2>1. CASE q = p
    <3>1. picker'[q] = r /\ steady'[q] = s
      BY <2>1, Zenon DEF ScanInv
    <3> QED BY <3>1 DEF Scan
  <2>2. CASE q # p
    <3>1. picker'[q] = picker[q] /\ steady'[q] = steady[q] /\ Scan(picker[q], steady[q])
      BY <2>2 DEF ScanInv
    <3> QED BY <3>1 DEF Scan, Position
  <2> QED BY <2>1, <2>2, Zenon
<1> QED BY <1>1, <1>2 DEF ScanInv

(* A Pick begins with nothing passed.                                      *)
LEMMA BeginScan ==
  ASSUME ScanInv, NEW p \in Pickers, Begin(p)
  PROVE  ScanInv'
<1> DEFINE r == [Idle EXCEPT !.stage = "looking", !.start = next]
<1>1. /\ picker' = [picker EXCEPT ![p] = r] /\ r \in PickerType
      /\ r.stage = "looking" /\ r.at = 0 /\ r.seen = {}
  BY IdleType, Zenon DEF Begin, Idle, ScanInv
<1>2. next' \in 0 .. N - 1
  <2>1. next + 1 \in Nat /\ next + 1 < 2 * N /\ N \in Nat \ {0} /\ next \in 0 .. N - 1
    BY PoolFacts DEF ScanInv
  <2>2. (next + 1) % N = IF next + 1 < N THEN next + 1 ELSE next + 1 - N
    BY <2>1, Wraps
  <2> QED BY <2>1, <2>2 DEF Begin, N
<1> HIDE DEF r
<1>3. picker' \in [Pickers -> PickerType] /\ steady' \in [Pickers -> SUBSET up]
  BY <1>1, Zenon DEF ScanInv, Begin
<1>4. ASSUME NEW q \in Pickers PROVE Scan(picker[q], steady[q])'
  <2>1. CASE q = p
    <3>1. picker'[q] = r
      BY <1>1, <2>1, Zenon DEF ScanInv
    <3>2. 1 .. 0 = {} /\ 0 .. (0 - 1) = {}
      OBVIOUS
    <3> QED BY <1>1, <3>1, <3>2, Zenon DEF Scan
  <2>2. CASE q # p
    <3>1. picker'[q] = picker[q] /\ steady'[q] = steady[q] /\ Scan(picker[q], steady[q])
      BY <1>1, <2>2 DEF ScanInv, Begin
    <3> QED BY <3>1, Zenon DEF Scan, Position, Begin
  <2> QED BY <2>1, <2>2, Zenon
<1> QED BY <1>2, <1>3, <1>4 DEF ScanInv, Begin

(* A backend is read that ends no round-robin Pick.                        *)
LEMMA LookScan ==
  ASSUME ScanInv, NEW p \in Pickers, Look(p)
  PROVE  ScanInv'
<1> DEFINE r == picker[p]
           b == Position(r.start, r.at)
<1>1. /\ r.stage = "looking" /\ r.at \in 0 .. N - 1 /\ r.start \in 0 .. N - 1
      /\ r \in PickerType /\ Scan(r, steady[p]) /\ steady[p] \in SUBSET up /\ N \in Nat \ {0}
  BY PoolFacts DEF Look, ScanInv, PickerType, N
<1>2. b \in Backends
  BY <1>1, Positions, Zenon
<1>3. /\ IF algorithm = "round_robin" /\ b \in up
           THEN Chosen(p, b)
           ELSE /\ picker' = [picker EXCEPT ![p].at = r.at + 1,
                                            ![p].seen = IF b \in up THEN r.seen \cup {b} ELSE r.seen]
                /\ UNCHANGED served
      /\ UNCHANGED <<algorithm, up, next, currentWeights, conns, steady, flipped, released>>
  BY DEF Look, Position, N
<1>4. CASE algorithm = "round_robin" /\ b \in up
  <2>1. currentWeights' \in [Backends -> Int]
    BY <1>3 DEF ScanInv
  <2> HIDE DEF b, r
  <2> QED BY <1>2, <1>3, <1>4, <2>1, ChosenScan
<1>5. CASE ~(algorithm = "round_robin" /\ b \in up)
  <2> DEFINE s == [r EXCEPT !.at = r.at + 1, !.seen = IF b \in up THEN r.seen \cup {b} ELSE r.seen]
  <2>1. picker' = [picker EXCEPT ![p] = s]
    BY <1>3, <1>5, Zenon DEF ScanInv
  <2>2. /\ s \in PickerType /\ s.stage = "looking" /\ s.at = r.at + 1 /\ s.start = r.start
        /\ s.seen = IF b \in up THEN r.seen \cup {b} ELSE r.seen
    <3> HIDE DEF b
    <3>1. /\ r.at + 1 \in 0 .. N
          /\ (IF b \in up THEN r.seen \cup {b} ELSE r.seen) \in SUBSET Backends
      BY <1>1, <1>2 DEF PickerType
    <3> HIDE DEF r
    <3> QED BY <1>1, <3>1, Zenon DEF PickerType
  <2>3. ASSUME NEW i \in 0 .. r.at, Position(r.start, i) \in steady[p]
        PROVE  Position(r.start, i) \in s.seen
    <3>1. CASE i = r.at
      BY <1>1, <2>2, <2>3, <3>1
    <3>2. CASE i # r.at
      <4>1. i \in 0 .. r.at - 1
        BY <1>1, <3>2
      <4>2. Position(r.start, i) \in r.seen
        BY <1>1, <2>3, <4>1 DEF Scan
      <4> HIDE DEF b, r, s
      <4> QED BY <2>2, <4>2
    <3> QED BY <3>1, <3>2
  <2>4. algorithm = "round_robin" => s.seen = {}
    <3>1. algorithm = "round_robin" => r.seen = {}
      BY <1>1 DEF Scan
    <3> HIDE DEF b, r, s
    <3> QED BY <1>5, <2>2, <3>1
  <2>5. ~flipped => algorithm # "round_robin" /\ s.seen = 1 .. s.at
    <3> SUFFICES ASSUME ~flipped PROVE algorithm # "round_robin" /\ s.seen = 1 .. s.at
      OBVIOUS
    <3>1. b \in up
      BY <1>2, Zenon DEF ScanInv
    <3>2. algorithm # "round_robin" /\ r.seen = 1 .. r.at
      BY <1>1, <1>5, <3>1 DEF Scan
    <3>3. b = r.at + 1
      BY <1>1, <3>2 DEF Position
    <3> HIDE DEF b, r, s
    <3>4. s.seen = (1 .. r.at) \cup {r.at + 1} /\ s.at = r.at + 1
      BY <2>2, <3>1, <3>2, <3>3, Zenon
    <3> QED BY <1>1, <3>2, <3>4
  <2>6. s.at - 1 = r.at
    <3> HIDE DEF s, r
    <3> QED BY <1>1, <2>2
  <2> HIDE DEF s
  <2>7. picker' \in [Pickers -> PickerType]
    BY <2>1, <2>2, Zenon DEF ScanInv
  <2>8. ASSUME NEW q \in Pickers PROVE Scan(picker[q], steady[q])'
    <3>1. CASE q = p
      <4>1. picker'[q] = s /\ steady'[q] = steady[p]
        BY <1>3, <2>1, <3>1, Zenon DEF ScanInv
      <4>2. Scan(s, steady[p])
        BY <2>2, <2>3, <2>4, <2>5, <2>6 DEF Scan
      <4>3. UNCHANGED <<algorithm, flipped>>
        BY <1>3, Zenon
      <4> QED BY <4>1, <4>2, <4>3 DEF Scan, Position
    <3>2. CASE q # p
      <4>1. picker'[q] = picker[q] /\ steady'[q] = steady[q] /\ Scan(picker[q], steady[q])
        BY <1>3, <2>1, <3>2 DEF ScanInv
      <4> QED BY <1>3, <4>1 DEF Scan, Position
    <3> QED BY <3>1, <3>2
  <2> QED BY <1>3, <1>5, <2>7, <2>8 DEF ScanInv
<1> QED BY <1>4, <1>5

(* A Pick that fails has passed every backend: none of them stayed up.     *)
LEMMA UnluckyScan ==
  ASSUME ScanInv, NEW p \in Pickers, Unlucky(p)
  PROVE  ScanInv'
<1> DEFINE r == [Idle EXCEPT !.stage = "refused"]
<1>1. /\ picker[p].stage = "looking" /\ picker[p].at = N /\ picker[p].seen = {}
      /\ picker[p].start \in 0 .. N - 1 /\ Scan(picker[p], steady[p]) /\ steady[p] \in SUBSET up
      /\ up \in SUBSET Backends
  BY Zenon DEF Unlucky, LookedAtAll, ScanInv, PickerType, N
<1>2. steady[p] = {}
  <2>1. \A b \in Backends : b \notin steady[p]
    <3> TAKE b \in Backends
    <3>1. PICK i \in 0 .. N - 1 : Position(picker[p].start, i) = b
      BY <1>1, Positions, Zenon
    <3> QED BY <1>1, <3>1, Zenon DEF Scan
  <2> QED BY <1>1, <2>1
<1>3. r \in PickerType /\ r.stage = "refused" /\ picker' = [picker EXCEPT ![p] = r]
  BY IdleType, Zenon DEF Unlucky, Refused, Idle
<1>4. steady' = [steady EXCEPT ![p] = {}] /\ {} \in SUBSET up
  BY <1>2 DEF Unlucky, ScanInv
<1>5. /\ UNCHANGED <<algorithm, up, next, currentWeights, served, flipped, released>>
      /\ conns' \in [Backends -> Nat]
  BY DEF Unlucky, Refused, ScanInv
<1> HIDE DEF r
<1> QED BY <1>3, <1>4, <1>5, EndedScan, Zenon

(* The weights after a weighted Pick are integers.                         *)
LEMMA WeightsType ==
  ASSUME ScanInv, NEW S \in SUBSET Backends, NEW b \in S
  PROVE  [Raised(S) EXCEPT ![b] = @ - WeightOf(S)] \in [Backends -> Int]
<1>1. currentWeights \in [Backends -> Int] /\ \A c \in Backends : Weights[c] \in Int
  BY PoolFacts DEF ScanInv
<1>2. Raised(S) \in [Backends -> Int] /\ WeightOf(S) \in Int /\ b \in Backends
  BY <1>1, WeightOfType DEF Raised
<1> QED BY <1>2

(* The algorithms that choose once they have looked at all keep the        *)
(* invariant: what they choose was seen.                                   *)
LEMMA PickScan ==
  ASSUME ScanInv, NEW p \in Pickers,
         \/ PickWeighted(p) \/ PickLeast(p) \/ PickHashed(p) \/ PickSole(p)
  PROVE  ScanInv'
<1> DEFINE S == picker[p].seen
<1>1. /\ S \in SUBSET Backends /\ currentWeights \in [Backends -> Int]
      /\ conns \in [Backends -> Nat]
  BY Zenon DEF ScanInv, PickerType
<1>2. CASE PickWeighted(p)
  <2>1. Heaviest(S) \in S /\ Heaviest(S) \in Backends
    BY <1>1, <1>2, HeaviestWins, Zenon DEF PickWeighted
  <2>2. currentWeights' \in [Backends -> Int]
    <3>1. [Raised(S) EXCEPT ![Heaviest(S)] = @ - WeightOf(S)] \in [Backends -> Int]
      BY <1>1, <2>1, WeightsType, Zenon
    <3> QED BY <1>1, <1>2, <3>1, Zenon DEF PickWeighted
  <2>3. /\ Chosen(p, Heaviest(S))
        /\ UNCHANGED <<algorithm, up, next, conns, steady, flipped, released>>
    BY <1>2, Zenon DEF PickWeighted
  <2> QED BY <2>1, <2>2, <2>3, ChosenScan, Zenon
<1>3. CASE PickLeast(p)
  <2>1. Least(S) \in Backends
    BY <1>1, <1>3, LeastIsLeast, Zenon DEF PickLeast
  <2>2. /\ Chosen(p, Least(S))
        /\ UNCHANGED <<algorithm, up, next, currentWeights, conns, steady, flipped, released>>
    BY <1>3, Zenon DEF PickLeast
  <2> QED BY <1>1, <2>1, <2>2, ChosenScan, Zenon
<1>4. CASE PickHashed(p) \/ PickSole(p)
  <2>1. UNCHANGED <<algorithm, up, next, currentWeights, conns, steady, flipped, released>>
    BY <1>4, Zenon DEF PickHashed, PickSole
  <2>2. PICK b \in Backends : Chosen(p, b)
    BY <1>1, <1>4, ByWeightIs, Zenon DEF PickHashed, PickSole
  <2> QED BY <1>1, <2>1, <2>2, ChosenScan, Zenon
<1> QED BY <1>2, <1>3, <1>4

(* Random draws among the candidates it has seen.                          *)
LEMMA DrawScan ==
  ASSUME ScanInv, NEW p \in Pickers, Draw(p)
  PROVE  ScanInv'
<1>1. /\ algorithm = "random" /\ picker \in [Pickers -> PickerType]
      /\ UNCHANGED <<algorithm, up, next, currentWeights, conns, steady, served, flipped, released>>
  BY DEF Draw, ScanInv
<1>2. ASSUME NEW q \in Pickers
      PROVE  \/ picker'[q] = picker[q]
             \/ picker'[q] = [picker[q] EXCEPT !.stage = "drawing"]
             \/ picker'[q] = [picker[q] EXCEPT !.stage = "torn"]
  BY Zenon DEF Draw
<1>3. ASSUME NEW q \in Pickers PROVE picker'[q] \in PickerType /\ Scan(picker[q], steady[q])'
  <2>1. picker[q] \in PickerType /\ Scan(picker[q], steady[q])
    BY Zenon DEF ScanInv
  <2>2. CASE picker'[q] = picker[q]
    BY <1>1, <2>1, <2>2 DEF Scan, Position
  <2>3. ASSUME NEW s \in {"drawing", "torn"}, picker'[q] = [picker[q] EXCEPT !.stage = s]
        PROVE  picker'[q] \in PickerType /\ picker'[q].stage = s
    BY <2>1, <2>3 DEF PickerType
  <2>4. CASE picker'[q] # picker[q]
    BY <1>1, <1>2, <2>3, <2>4 DEF Scan
  <2> QED BY <2>2, <2>4
<1>4. picker' \in [Pickers -> PickerType]
  <2>1. picker' = [q \in Pickers |-> picker'[q]]
    BY DEF Draw
  <2> QED BY <1>3, <2>1
<1> QED BY <1>1, <1>3, <1>4 DEF ScanInv

(* Random maps what it has drawn to a candidate.                           *)
LEMMA DrawnScan ==
  ASSUME ScanInv, NEW p \in Pickers, Drawn(p)
  PROVE  ScanInv'
<1>1. /\ UNCHANGED <<algorithm, up, next, currentWeights, conns, steady, flipped, released>>
      /\ picker[p].seen \in SUBSET Backends /\ currentWeights \in [Backends -> Int]
      /\ conns \in [Backends -> Nat]
  BY Zenon DEF Drawn, ScanInv, PickerType
<1>2. ASSUME NEW b \in Backends, Chosen(p, b) PROVE ScanInv'
  BY <1>1, <1>2, ChosenScan, Zenon
<1>3. CASE \E t \in 0 .. WeightOf(picker[p].seen) - 1 : Chosen(p, ByWeight(t, picker[p].seen))
  BY <1>1, <1>2, <1>3, ByWeightIs
<1>4. CASE picker' = [picker EXCEPT ![p] = [Idle EXCEPT !.stage = "panicked"]] /\ UNCHANGED served
  <2> DEFINE r == [Idle EXCEPT !.stage = "panicked"]
  <2>1. r \in PickerType /\ r.stage = "panicked"
    BY IdleType, Zenon DEF Idle
  <2>2. steady' = [steady EXCEPT ![p] = steady[p]] /\ steady[p] \in SUBSET up
    BY <1>1 DEF ScanInv
  <2>3. picker' = [picker EXCEPT ![p] = r]
    BY <1>4, Zenon
  <2> HIDE DEF r
  <2> QED BY <1>1, <1>4, <2>1, <2>2, <2>3, EndedScan, Zenon
<1> QED BY <1>3, <1>4 DEF Drawn

(* A caller takes its backend and may Pick again.                          *)
LEMMA TakenScan ==
  ASSUME ScanInv, NEW p \in Pickers, Return(p) \/ Acquire(p)
  PROVE  ScanInv'
<1>1. /\ picker' = [picker EXCEPT ![p] = Idle] /\ steady' = [steady EXCEPT ![p] = {}]
      /\ UNCHANGED <<algorithm, up, next, currentWeights, served, flipped, released>>
  BY Zenon DEF Return, Acquire
<1>2. conns' \in [Backends -> Nat]
  <2>1. conns \in [Backends -> Nat]
    BY DEF ScanInv
  <2> QED BY <2>1 DEF Return, Acquire
<1>3. Idle \in PickerType /\ Idle.stage = "idle" /\ {} \in SUBSET up
  BY IdleType, Zenon DEF Idle
<1> QED BY <1>1, <1>2, <1>3, EndedScan, Zenon

(* A flag changes: the backend no longer counts as one that stayed.        *)
LEMMA FlagScan ==
  ASSUME ScanInv, NEW b \in Backends, Release(b) \/ SetFlag(b)
  PROVE  ScanInv'
<1>1. CASE Release(b)
  <2>1. conns' \in [Backends -> Nat]
    BY <1>1 DEF Release, ScanInv
  <2>2. ASSUME NEW q \in Pickers PROVE Scan(picker[q], steady[q])'
    BY <1>1, Zenon DEF Release, ScanInv, Scan, Position
  <2> QED BY <1>1, <2>1, <2>2, Zenon DEF ScanInv, Release
<1>2. CASE SetFlag(b)
  <2>1. /\ up' \in SUBSET Backends /\ flipped' = TRUE
        /\ \A q \in Pickers : steady'[q] = steady[q] \ {b}
        /\ UNCHANGED <<algorithm, picker>>
    BY <1>2 DEF SetFlag, ScanInv
  <2>2. steady' \in [Pickers -> SUBSET up']
    BY <1>2, Zenon DEF SetFlag, ScanInv
  <2>3. ASSUME NEW q \in Pickers PROVE Scan(picker[q], steady[q])'
    <3>1. Scan(picker[q], steady[q]) /\ steady'[q] \in SUBSET steady[q]
      BY <2>1, Zenon DEF ScanInv
    <3> QED BY <2>1, <3>1, Zenon DEF Scan, Position
  <2>4. served' \in [Backends -> Nat]
    BY <1>2 DEF SetFlag
  <2> QED BY <1>2, <2>1, <2>2, <2>3, <2>4, Zenon DEF ScanInv, SetFlag
<1> QED BY <1>1, <1>2, Zenon

(* The invariant at the start.                                             *)
LEMMA InitScan == Init => ScanInv
<1> SUFFICES ASSUME Init PROVE ScanInv
  OBVIOUS
<1>1. picker \in [Pickers -> PickerType] /\ \A p \in Pickers : picker[p].stage = "idle"
  BY IdleType, Zenon DEF Init, Idle
<1>2. \A p \in Pickers : Scan(picker[p], steady[p])
  BY <1>1 DEF Scan
<1>3. next \in 0 .. N - 1
  BY PoolFacts DEF Init
<1>4. /\ currentWeights \in [Backends -> Int] /\ conns \in [Backends -> Nat]
      /\ served \in [Backends -> Nat] /\ steady \in [Pickers -> SUBSET up]
  BY DEF Init
<1>5. algorithm \in Algorithms /\ up = Backends /\ flipped = FALSE /\ released = FALSE
  BY DEF Init
<1> QED BY <1>1, <1>2, <1>3, <1>4, <1>5, Zenon DEF ScanInv

(* Every step keeps the invariant of the scans.                            *)
LEMMA StepScan == ScanInv /\ [Next]_vars => ScanInv'
<1> SUFFICES ASSUME ScanInv, [Next]_vars PROVE ScanInv'
  OBVIOUS
<1>1. ASSUME NEW p \in Pickers, Pick(p) PROVE ScanInv'
  BY <1>1, BeginScan, LookScan, UnluckyScan, PickScan, DrawScan, DrawnScan, TakenScan, Zenon DEF Pick
<1>2. CASE UNCHANGED vars
  BY <1>2, Zenon DEF vars, ScanInv, Scan, Position
<1> QED BY <1>1, <1>2, FlagScan DEF Next

(* Which steps change what: all that the invariants below need to know of  *)
(* the others.                                                             *)
LEMMA StaysAsItIs ==
  [Next]_vars => algorithm' = algorithm /\ (flipped' = flipped \/ flipped' = TRUE)
<1> SUFFICES ASSUME [Next]_vars PROVE algorithm' = algorithm /\ (flipped' = flipped \/ flipped' = TRUE)
  BY Zenon
<1>1. ASSUME NEW p \in Pickers, Pick(p) PROVE algorithm' = algorithm /\ flipped' = flipped
  <2>1. CASE Begin(p) \/ Look(p) \/ Unlucky(p) \/ PickWeighted(p) \/ PickLeast(p)
    BY <2>1 DEF Begin, Look, Unlucky, PickWeighted, PickLeast
  <2>2. CASE PickHashed(p) \/ PickSole(p) \/ Draw(p) \/ Drawn(p) \/ Return(p) \/ Acquire(p)
    BY <2>2 DEF PickHashed, PickSole, Draw, Drawn, Return, Acquire
  <2> QED BY <1>1, <2>1, <2>2 DEF Pick
<1>2. CASE \E b \in Backends : Release(b) \/ SetFlag(b)
  BY <1>2 DEF Release, SetFlag
<1>3. CASE UNCHANGED vars
  BY <1>3 DEF vars
<1> QED BY <1>1, <1>2, <1>3, Zenon DEF Next

(* A Pick fails only if no backend was eligible all through the call,      *)
(* whatever the pool, the algorithm and the number of callers.             *)
THEOREM RefusalsAreTrue == Spec => []RefusalIsTrue
<1>1. ScanInv => RefusalIsTrue
  BY DEF ScanInv, Scan, RefusalIsTrue
<1> QED BY <1>1, InitScan, StepScan, PTL DEF Spec

=============================================================================
