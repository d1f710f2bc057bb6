---------------------------- MODULE ShareProofs -----------------------------
(***************************************************************************)
(* Proofs about the shares the backends get, for every list of weights and *)
(* every finite set of callers: the rotation of round_robin, the drift and *)
(* the cycle of weighted_round_robin and the race of least_conn each have  *)
(* an inductive invariant, and together they imply SharesKept.             *)
(***************************************************************************)
EXTENDS PickProofs

-----------------------------------------------------------------------------
(* The rotation of round_robin.                                            *)

(* Round-robin.  The Picks in progress that will serve b.                  *)
Waiting(b) == {p \in Pickers : picker[p].stage = "looking" /\ picker[p].start = b - 1}

(* With those, every backend has been given the same number of positions,  *)
(* and those before the counter one more; and the round that served counts *)
(* is no older than it must be.                                            *)
Rotation ==
  /\ \E b \in Backends : served[b] <= 1
  /\ \A b \in Backends :
       served[b] + Cardinality(Waiting(b))
         = served[N] + Cardinality(Waiting(N)) + IF b <= next THEN 1 ELSE 0

RotationInv == algorithm = "round_robin" /\ ~flipped => Rotation

(* The pickers on their way to a backend are finitely many.                *)
LEMMA WaitingFinite ==
  ASSUME NEW b
  PROVE  IsFiniteSet(Waiting(b)) /\ Cardinality(Waiting(b)) \in Nat
<1>1. IsFiniteSet(Waiting(b))
  BY WeightsAssumption, FS_Subset DEF Waiting
<1> QED BY <1>1, FS_CardinalityType

(* What can happen to a round-robin balancer while all backends are up: a  *)
(* Pick draws a position, a Pick serves the backend at its position, or    *)
(* nothing that matters here.                                              *)
LEMMA RotationSteps ==
  ASSUME ScanInv, [Next]_vars, algorithm = "round_robin", ~flipped'
  PROVE  /\ ~flipped
         /\ \/ \E p \in Pickers : Begin(p)
            \/ \E p \in Pickers : /\ picker[p].stage = "looking" /\ picker[p].start \in 0 .. N - 1
                                  /\ Chosen(p, picker[p].start + 1) /\ UNCHANGED next
            \/ UNCHANGED <<served, next>> /\ \A b : Waiting(b)' = Waiting(b)
<1>1. CASE UNCHANGED vars
  BY <1>1 DEF vars, Waiting
<1>2. CASE \E b \in Backends : Release(b) \/ SetFlag(b)
  BY <1>2, Zenon DEF Release, SetFlag
<1>3. ASSUME NEW p \in Pickers, Pick(p)
      PROVE  /\ ~flipped
             /\ \/ Begin(p)
                \/ /\ picker[p].stage = "looking" /\ picker[p].start \in 0 .. N - 1
                   /\ Chosen(p, picker[p].start + 1) /\ UNCHANGED next
                \/ UNCHANGED <<served, next>> /\ \A b : Waiting(b)' = Waiting(b)
  <2>1. /\ Scan(picker[p], steady[p]) /\ picker[p] \in PickerType
        /\ N \in Nat \ {0} /\ (~flipped => up = Backends)
    BY PoolFacts DEF ScanInv
  <2>2. CASE Begin(p)
    BY <2>2 DEF Begin
  <2>3. CASE Look(p)
    <3>1. /\ ~flipped /\ picker[p].stage = "looking" /\ UNCHANGED next
      BY <2>3 DEF Look
    <3>2. picker[p].at = 0 /\ picker[p].start \in 0 .. N - 1
      BY <2>1, <3>1 DEF Scan, PickerType
    <3>3. picker[p].start + 1 \in Backends
      BY <2>1, <3>2, PoolFacts
    <3>4. 1 + ((picker[p].start + 0) % N) = picker[p].start + 1
      BY <3>2, Positions DEF Position
    <3>5. Chosen(p, picker[p].start + 1)
      BY <2>1, <2>3, <3>1, <3>2, <3>3, <3>4 DEF Look, N
    <3> QED BY <3>1, <3>2, <3>5
  <2>4. CASE Unlucky(p)
    <3>1. ~flipped /\ picker[p].stage = "looking" /\ picker[p].at = N
      BY <2>4 DEF Unlucky, LookedAtAll, N
    <3> QED BY <2>1, <3>1 DEF Scan
  <2>5. CASE PickWeighted(p) \/ PickLeast(p) \/ PickHashed(p) \/ PickSole(p) \/ Draw(p) \/ Acquire(p)
    BY <2>5 DEF PickWeighted, PickLeast, PickHashed, PickSole, Draw, Acquire
  <2>6. CASE Drawn(p)
    BY <2>1, <2>6 DEF Drawn, Scan
  <2>7. CASE Return(p)
    <3>1. /\ picker' = [picker EXCEPT ![p] = Idle] /\ picker[p].stage # "looking"
          /\ UNCHANGED <<served, next, flipped>> /\ Idle.stage # "looking"
          /\ picker \in [Pickers -> PickerType]
      BY <2>7 DEF Return, Idle, ScanInv
    <3>2. \A b : Waiting(b)' = Waiting(b)
      BY <3>1 DEF Waiting
    <3> QED BY <3>1, <3>2
  <2> QED BY <1>3, <2>2, <2>3, <2>4, <2>5, <2>6, <2>7 DEF Pick
<1> QED BY <1>1, <1>2, <1>3 DEF Next

(* A Pick takes the next place in the rotation.                            *)
LEMMA RotationBegins ==
  ASSUME ScanInv, Rotation, NEW p \in Pickers, Begin(p), algorithm = "round_robin"
  PROVE  Rotation'
<1>1. /\ N \in Nat \ {0} /\ next \in 0 .. N - 1 /\ N \in Backends /\ UNCHANGED served
      /\ \A b \in Backends : b \in 1 .. N /\ served[b] \in Nat
  BY PoolFacts DEF ScanInv, Begin
<1>2. next' = IF next + 1 < N THEN next + 1 ELSE 0
  <2>1. next + 1 \in Nat /\ next + 1 < 2 * N
    BY <1>1
  <2>2. (next + 1) % N = IF next + 1 < N THEN next + 1 ELSE next + 1 - N
    BY <1>1, <2>1, Wraps
  <2> QED BY <1>1, <2>2 DEF Begin, N
<1>3. ASSUME NEW b \in Backends
      PROVE  Cardinality(Waiting(b)') = Cardinality(Waiting(b)) + IF b = next + 1 THEN 1 ELSE 0
  <2> DEFINE r == [Idle EXCEPT !.stage = "looking", !.start = next]
  <2>1. /\ picker' = [picker EXCEPT ![p] = r] /\ r.stage = "looking" /\ r.start = next
        /\ picker[p].stage # "looking" /\ picker \in [Pickers -> PickerType]
    BY DEF Begin, MayBegin, Idle, ScanInv
  <2> HIDE DEF r
  <2>2. p \notin Waiting(b) /\ IsFiniteSet(Waiting(b))
    BY <2>1, WaitingFinite DEF Waiting
  <2>3. CASE b = next + 1
    <3>1. Waiting(b)' = Waiting(b) \cup {p}
      BY <1>1, <2>1, <2>3 DEF Waiting
    <3>2. Cardinality(Waiting(b) \cup {p}) = Cardinality(Waiting(b)) + 1
      BY <2>2, FS_AddElement
    <3> QED BY <2>3, <3>1, <3>2, Zenon
  <2>4. CASE b # next + 1
    <3>1. Waiting(b)' = Waiting(b)
      BY <1>1, <2>1, <2>4 DEF Waiting
    <3> QED BY <2>4, <3>1, WaitingFinite
  <2> QED BY <2>3, <2>4
<1>4. \A b \in Backends : Cardinality(Waiting(b)) \in Nat
  BY WaitingFinite
<1>5. ASSUME NEW b \in Backends
      PROVE  served[b] + Cardinality(Waiting(b)')
               = served[N] + Cardinality(Waiting(N)') + IF b <= next' THEN 1 ELSE 0
  <2>1. served[b] + Cardinality(Waiting(b))
          = served[N] + Cardinality(Waiting(N)) + IF b <= next THEN 1 ELSE 0
    BY DEF Rotation
  <2> QED BY <1>1, <1>2, <1>3, <1>4, <2>1
<1>6. N' = N
  BY DEF N
<1>7. \A b \in Backends : served'[b] + Cardinality(Waiting(b)')
               = served'[N] + Cardinality(Waiting(N)') + IF b <= next' THEN 1 ELSE 0
  BY <1>1, <1>5
<1>8. \E b \in Backends : served'[b] <= 1
  BY <1>1 DEF Rotation
<1> QED BY <1>7, <1>8 DEF Rotation, Waiting

(* served, when rounds are counted.                                        *)
LEMMA RoundCount ==
  ASSUME ScanInv, algorithm = "round_robin", ~flipped, NEW b \in Backends, Count(b)
  PROVE  \E k \in 0 .. 1 :
           /\ \A c \in Backends : served'[c] = served[c] - k + IF c = b THEN 1 ELSE 0
           /\ k = 1 <=> RoundOver
<1>1. served \in [Backends -> Nat]
  BY DEF ScanInv
<1>2. CASE RoundOver
  <2>1. served' = [[c \in Backends |-> served[c] - 1] EXCEPT ![b] = @ + 1]
    BY <1>2 DEF Count
  <2>2. \A c \in Backends : served'[c] = served[c] - 1 + IF c = b THEN 1 ELSE 0
    BY <1>1, <2>1
  <2> QED BY <1>2, <2>2
<1>3. CASE ~RoundOver
  <2>1. served' = [served EXCEPT ![b] = @ + 1]
    BY <1>3 DEF Count
  <2>2. \A c \in Backends : served'[c] = served[c] - 0 + IF c = b THEN 1 ELSE 0
    BY <1>1, <2>1
  <2> QED BY <1>3, <2>2
<1> QED BY <1>2, <1>3

(* A Pick that takes the backend at its starting position serves its turn. *)
LEMMA RotationServes ==
  ASSUME ScanInv, Rotation, NEW p \in Pickers, algorithm = "round_robin", ~flipped,
         picker[p].stage = "looking", picker[p].start \in 0 .. N - 1,
         Chosen(p, picker[p].start + 1), UNCHANGED next
  PROVE  Rotation'
<1> DEFINE s == picker[p].start + 1
<1>1. /\ N \in Nat \ {0} /\ N \in Backends /\ s \in Backends
      /\ \A b \in Backends : b \in Int /\ served[b] \in Nat
  BY PoolFacts DEF ScanInv
<1>2. PICK k \in 0 .. 1 :
        /\ \A c \in Backends : served'[c] = served[c] - k + IF c = s THEN 1 ELSE 0
        /\ k = 1 <=> RoundOver
  <2>1. Count(s)
    BY DEF Chosen
  <2> HIDE DEF s
  <2> QED BY <1>1, <2>1, RoundCount
<1>3. ASSUME NEW b \in Backends
      PROVE  Cardinality(Waiting(b)') = Cardinality(Waiting(b)) - IF b = s THEN 1 ELSE 0
  <2> DEFINE r == [Idle EXCEPT !.stage = "chosen", !.got = s]
  <2>1. /\ picker' = [picker EXCEPT ![p] = r] /\ r.stage # "looking"
        /\ picker \in [Pickers -> PickerType]
    BY DEF Chosen, Idle, ScanInv
  <2> HIDE DEF r
  <2>2. CASE b = s
    <3>1. p \in Waiting(b) /\ Waiting(b)' = Waiting(b) \ {p}
      BY <1>1, <2>1, <2>2 DEF Waiting
    <3>2. Cardinality(Waiting(b) \ {p}) = Cardinality(Waiting(b)) - 1
      BY <3>1, WaitingFinite, FS_RemoveElement, Zenon
    <3> HIDE DEF s
    <3> QED BY <2>2, <3>1, <3>2
  <2>3. CASE b # s
    <3>1. Waiting(b)' = Waiting(b)
      BY <1>1, <2>1, <2>3 DEF Waiting
    <3> HIDE DEF s
    <3> QED BY <2>3, <3>1, WaitingFinite
  <2> QED BY <2>2, <2>3
<1>4. \A b \in Backends : Cardinality(Waiting(b)) \in Nat
  BY WaitingFinite
<1> HIDE DEF s
<1>5. \A b \in Backends : served'[b] + Cardinality(Waiting(b)')
               = served'[N] + Cardinality(Waiting(N)') + IF b <= next THEN 1 ELSE 0
  <2> TAKE b \in Backends
  <2>1. served[b] + Cardinality(Waiting(b))
          = served[N] + Cardinality(Waiting(N)) + IF b <= next THEN 1 ELSE 0
    BY DEF Rotation
  <2> QED BY <1>1, <1>2, <1>3, <1>4, <2>1
<1>6. \E b \in Backends : served'[b] <= 1
  <2>1. PICK b \in Backends : served[b] <= IF RoundOver THEN 1 ELSE 0
    BY <1>1 DEF Rotation, RoundOver
  <2>2. served'[b] <= 1
    BY <1>1, <1>2, <2>1
  <2> QED BY <2>2
<1> QED BY <1>5, <1>6 DEF Rotation, Waiting, N

(* The rotation's invariant at the start.                                  *)
LEMMA InitRotation == Init => RotationInv
<1> SUFFICES ASSUME Init, algorithm = "round_robin", ~flipped PROVE Rotation
  BY DEF RotationInv
<1>1. \A b : Waiting(b) = {}
  BY DEF Init, Idle, Waiting
<1>2. N \in Backends /\ \A b \in Backends : served[b] = 0 /\ ~(b <= next)
  BY PoolFacts DEF Init
<1> QED BY <1>1, <1>2, FS_EmptySet DEF Rotation

(* Every step keeps the rotation's invariant.                              *)
LEMMA StepRotation == ScanInv /\ RotationInv /\ [Next]_vars => RotationInv'
<1> SUFFICES ASSUME ScanInv, RotationInv, [Next]_vars, algorithm' = "round_robin", ~flipped'
             PROVE  Rotation'
  BY DEF RotationInv
<1>1. algorithm = "round_robin"
  BY StaysAsItIs
<1>2. ~flipped /\ Rotation
  BY <1>1, RotationSteps DEF RotationInv
<1>3. CASE UNCHANGED <<served, next>> /\ \A b : Waiting(b)' = Waiting(b)
  BY <1>2, <1>3 DEF Rotation, N
<1> QED BY <1>1, <1>2, <1>3, RotationSteps, RotationBegins, RotationServes

(* What Rotation says of the shares.                                       *)
LEMMA RotationEven ==
  ASSUME ScanInv, Rotation
  PROVE  /\ \A b, c \in Backends : served[b] - served[c] <= 1 + Cardinality(InStage("looking"))
         /\ \A b \in Backends : served[b] <= TotalWeight + Cardinality(Pickers)
<1>1. /\ N \in Backends /\ N \in Nat \ {0}
      /\ \A b \in Backends : b \in 1 .. N /\ served[b] \in Nat
  BY PoolFacts DEF ScanInv
<1>2. IsFiniteSet(Pickers) /\ InStage("looking") \in SUBSET Pickers
  BY WeightsAssumption DEF InStage
<1>3. /\ IsFiniteSet(InStage("looking")) /\ Cardinality(InStage("looking")) \in Nat
      /\ Cardinality(InStage("looking")) <= Cardinality(Pickers) /\ Cardinality(Pickers) \in Nat
  BY <1>2, FS_Subset, FS_CardinalityType
<1>4. \A b \in Backends : /\ Cardinality(Waiting(b)) \in Nat
                          /\ Cardinality(Waiting(b)) <= Cardinality(InStage("looking"))
  <2>1. \A b \in Backends : Waiting(b) \in SUBSET InStage("looking")
    BY DEF Waiting, InStage
  <2> QED BY <1>3, <2>1, FS_Subset, WaitingFinite
<1>5. ASSUME NEW b \in Backends, NEW c \in Backends
      PROVE  served[b] - served[c] <= 1 + Cardinality(InStage("looking"))
  <2>1. /\ served[b] + Cardinality(Waiting(b)) <= served[N] + Cardinality(Waiting(N)) + 1
        /\ served[c] + Cardinality(Waiting(c)) >= served[N] + Cardinality(Waiting(N))
    BY <1>1, <1>4 DEF Rotation
  <2> QED BY <1>1, <1>3, <1>4, <2>1
<1>6. ASSUME NEW b \in Backends PROVE served[b] <= TotalWeight + Cardinality(Pickers)
  <2>1. PICK c \in Backends : served[c] <= 1
    BY DEF Rotation
  <2>2. served[b] <= 2 + Cardinality(Pickers)
    BY <1>1, <1>3, <1>5, <2>1
  <2>3. TotalWeight \in Nat /\ N <= TotalWeight
    BY TotalWeightIs
  <2>4. CASE N >= 2
    BY <1>1, <1>3, <2>2, <2>3, <2>4
  <2>5. CASE N = 1
    <3>1. b = c
      BY <1>1, <2>5
    <3> QED BY <1>1, <1>3, <2>1, <2>3, <2>5, <3>1
  <2> QED BY <1>1, <2>4, <2>5
<1> QED BY <1>5, <1>6

-----------------------------------------------------------------------------
(* The drift and the cycle of weighted_round_robin.                        *)

(* Smooth weighted round-robin.  Any set of backends owes no more than the *)
(* largest weight, times its size, times the number of the others.  For a  *)
(* single backend this is the bound on its weight; for larger sets it is   *)
(* what makes the bound inductive, because a Pick compares its winner with *)
(* every other candidate.                                                  *)
Slack(k) == MaxWeight * (k * (N - k))

DriftInv ==
  /\ SumFunctionOnSet(currentWeights, Backends) = 0
  /\ \A A \in SUBSET Backends :
       SumFunctionOnSet(currentWeights, A) + Slack(Cardinality(A)) >= 0

(* The weights after a Pick among S that w wins.                           *)
Paid(S, w) == [Raised(S) EXCEPT ![w] = @ - WeightOf(S)]

(* The arithmetic of one weighted Pick: x is the sum over a set with the   *)
(* winner, y the winner's weight, c the sum over the candidates left out.  *)
LEMMA DriftArithmetic ==
  ASSUME NEW M \in Nat, NEW n \in Nat, NEW k \in Nat, NEW m \in Nat \ {0},
         NEW x \in Int, NEW y \in Int, NEW c \in Int, NEW u \in Nat, NEW v \in Nat,
         u <= M, v <= m * M,
         x >= y - M * ((k - 1) * (n - (k - 1))),
         x + c >= -(M * ((k + m) * (n - (k + m)))),
         c <= m * (y + u) - v
  PROVE  x - v + M * (k * (n - k)) >= 0
<1> DEFINE a == M * ((k - 1) * (n - (k - 1)))
           b == M * ((k + m) * (n - (k + m)))
           g == M * (k * (n - k))
           z == x - v + g
<1>1. a \in Int /\ b \in Int /\ g \in Int /\ z \in Int
  OBVIOUS
<1>2. (m + 1) * g = b + m * a + M * (m * (m + 1))
  OBVIOUS
<1>3. m * x >= m * y - m * a
  OBVIOUS
<1>4. x >= -b - m * y - m * u + v
  OBVIOUS
<1>5. (m + 1) * z = m * x + x - (m + 1) * v + (m + 1) * g
  OBVIOUS
<1>6. M * (m * (m + 1)) >= m * u + m * v
  <2>1. u + v <= M * (m + 1)
    OBVIOUS
  <2>2. m * (u + v) <= m * (M * (m + 1))
    BY <2>1
  <2> QED BY <2>2
<1> HIDE DEF a, b, g, z
<1>7. m * a \in Int /\ m * y \in Int /\ m * u \in Int /\ m * v \in Int /\ m * x \in Int
      /\ (m + 1) * v = m * v + v /\ M * (m * (m + 1)) \in Int
  BY <1>1
<1>8. (m + 1) * z >= 0
  BY <1>1, <1>2, <1>3, <1>4, <1>5, <1>6, <1>7
<1>9. z >= 0
  BY <1>1, <1>8
<1> QED BY <1>9 DEF z, g

(* What a Pick does to the sum of any set of backends.                     *)
LEMMA PaidSum ==
  ASSUME ScanInv, NEW S \in SUBSET Backends, NEW w \in S, NEW A \in SUBSET Backends
  PROVE  SumFunctionOnSet(Paid(S, w), A)
           = SumFunctionOnSet(currentWeights, A) + WeightOf(A \cap S)
               - IF w \in A THEN WeightOf(S) ELSE 0
<1>1. PICK g : g = [b \in Backends |-> IF b \in S THEN Weights[b] ELSE 0]
  BY Zenon
<1>2. \A b \in Backends : /\ g[b] \in Int /\ g[b] = IF b \in S THEN Weights[b] ELSE 0
                         /\ Raised(S)[b] \in Int /\ Raised(S)[b] = currentWeights[b] + g[b]
                         /\ currentWeights[b] \in Int /\ Weights[b] \in Int
  BY <1>1, PoolFacts DEF ScanInv, Raised
<1>3. IsFiniteSet(A) /\ IsFiniteSet(A \cap S) /\ IsFiniteSet(A \ S)
  BY PoolFacts, FS_Subset, Zenon
<1>4. SumFunctionOnSet(g, A) = WeightOf(A \cap S)
  <2>1. PICK X, Y : X = A \cap S /\ Y = A \ S
    BY Zenon
  <2>2. /\ A = X \cup Y /\ X \cap Y = {} /\ IsFiniteSet(X) /\ IsFiniteSet(Y)
        /\ X \in SUBSET Backends /\ Y \in SUBSET Backends
    BY <1>3, <2>1
  <2>3. SumFunctionOnSet(g, X \cup Y) = SumFunctionOnSet(g, X) + SumFunctionOnSet(g, Y)
    BY <1>2, <2>2, SumUnion, Zenon
  <2>4. SumFunctionOnSet(g, Y) = 0
    BY <1>2, <2>1, <2>2, SumZero
  <2>5. SumFunctionOnSet(g, X) = SumFunctionOnSet(Weights, X) /\ SumFunctionOnSet(g, X) \in Int
    BY <1>2, <2>1, <2>2, SumSame, SumInt, Zenon
  <2>6. SumFunctionOnSet(g, A) = SumFunctionOnSet(Weights, X)
    BY <2>2, <2>3, <2>4, <2>5
  <2> QED BY <2>1, <2>6 DEF WeightOf
<1>5. /\ SumFunctionOnSet(Raised(S), A) = SumFunctionOnSet(currentWeights, A) + SumFunctionOnSet(g, A)
      /\ SumFunctionOnSet(currentWeights, A) \in Int /\ SumFunctionOnSet(g, A) \in Int
  BY <1>2, <1>3, SumAdds, SumInt
<1>6. /\ WeightOf(S) \in Int
      /\ \A b \in Backends : /\ Paid(S, w)[b] \in Int
                            /\ Paid(S, w)[b] = Raised(S)[b] - IF b = w THEN WeightOf(S) ELSE 0
  BY <1>2, WeightOfType DEF Paid, Raised
<1>7. CASE w \in A
  <2>1. SumFunctionOnSet(Paid(S, w), A)
          = SumFunctionOnSet(Raised(S), A) + Paid(S, w)[w] - Raised(S)[w]
    <3>1. \A b \in A : /\ Raised(S)[b] \in Int /\ Paid(S, w)[b] \in Int
                       /\ b # w => Paid(S, w)[b] = Raised(S)[b]
      BY <1>2, <1>6
    <3> QED BY <1>3, <1>7, <3>1, SumUpdate
  <2>2. Paid(S, w)[w] = Raised(S)[w] - WeightOf(S) /\ Raised(S)[w] \in Int
    BY <1>2, <1>6
  <2> QED BY <1>4, <1>5, <1>6, <1>7, <2>1, <2>2
<1>8. CASE w \notin A
  <2>1. SumFunctionOnSet(Paid(S, w), A) = SumFunctionOnSet(Raised(S), A)
    <3>1. \A b \in A : Raised(S)[b] \in Int /\ Paid(S, w)[b] = Raised(S)[b]
      BY <1>2, <1>6, <1>8
    <3> QED BY <1>3, <3>1, SumSame
  <2> QED BY <1>4, <1>5, <1>8, <2>1
<1> QED BY <1>7, <1>8

(* A weighted Pick keeps every set's debt within its slack.                *)
LEMMA DriftStep ==
  ASSUME ScanInv, DriftInv, NEW S \in SUBSET Backends, NEW w \in S,
         \A c \in S : currentWeights[w] + Weights[w] >= currentWeights[c] + Weights[c],
         currentWeights' = Paid(S, w)
  PROVE  DriftInv'
<1>1. /\ N \in Nat \ {0} /\ MaxWeight \in Nat
      /\ \A b \in Backends : /\ currentWeights[b] \in Int /\ Weights[b] \in Nat
                            /\ Weights[b] <= MaxWeight
  BY PoolFacts, MaxWeightIs DEF ScanInv
<1>2. WeightOf(S) \in Nat
  BY WeightOfType, Zenon
<1>3. SumFunctionOnSet(currentWeights', Backends) = 0
  <2>1. Backends \cap S = S /\ w \in Backends
    OBVIOUS
  <2>2. WeightOf(Backends \cap S) = WeightOf(S)
    BY <2>1, Zenon
  <2>3. SumFunctionOnSet(Paid(S, w), Backends)
          = SumFunctionOnSet(currentWeights, Backends) + WeightOf(Backends \cap S) - WeightOf(S)
    BY <2>1, PaidSum, Zenon
  <2> QED BY <1>2, <2>2, <2>3 DEF DriftInv
<1>4. ASSUME NEW A \in SUBSET Backends
      PROVE  SumFunctionOnSet(currentWeights', A) + Slack(Cardinality(A)) >= 0
  <2> DEFINE k == Cardinality(A)
             x == SumFunctionOnSet(currentWeights, A)
  <2>1. /\ IsFiniteSet(A) /\ k \in Nat /\ x \in Int
        /\ x + Slack(k) >= 0 /\ Slack(k) \in Int
    <3>1. IsFiniteSet(A) /\ k \in Nat
      BY PoolFacts, FS_Subset, FS_CardinalityType, Zenon
    <3>2. x \in Int
      BY <1>1, <3>1, SumInt
    <3>3. Slack(k) \in Int
      <4> HIDE DEF k
      <4> QED BY <1>1, <3>1 DEF Slack
    <3> QED BY <3>1, <3>2, <3>3, Zenon DEF DriftInv
  <2>2. WeightOf(A \cap S) \in Nat
    BY WeightOfType
  <2>3. CASE w \notin A
    <3>1. SumFunctionOnSet(currentWeights', A) = x + WeightOf(A \cap S) - 0
      BY <2>3, PaidSum
    <3> HIDE DEF x, k
    <3> QED BY <2>1, <2>2, <3>1 DEF k
  <2>4. CASE w \in A
    <3>1. PICK C : C = S \ A
      BY Zenon
    <3> DEFINE m == Cardinality(C)
               v == WeightOf(C)
    <3>2. /\ C \in SUBSET Backends /\ C \in SUBSET S /\ A \cap C = {} /\ A \cup C \in SUBSET Backends
          /\ IsFiniteSet(C) /\ m \in Nat /\ v \in Nat
      BY <3>1, WeightOfType, FS_CardinalityType
    <3>3. WeightOf(S) = WeightOf(A \cap S) + v
      <4>1. IsFiniteSet(S) /\ \A b \in S : Weights[b] \in Nat
        BY <1>1, WeightOfType
      <4>2. A \cap S \in SUBSET S /\ S \ (A \cap S) = C
        BY <3>1
      <4>3. SumFunctionOnSet(Weights, S)
              = SumFunctionOnSet(Weights, A \cap S) + SumFunctionOnSet(Weights, S \ (A \cap S))
        BY <4>1, <4>2, SumPart
      <4> QED BY <4>2, <4>3 DEF WeightOf
    <3>4. SumFunctionOnSet(currentWeights', A) = x - v
      <4>1. SumFunctionOnSet(currentWeights', A) = x + WeightOf(A \cap S) - WeightOf(S)
        BY <2>4, PaidSum
      <4> HIDE DEF x, v
      <4> QED BY <2>1, <2>2, <3>2, <3>3, <4>1
    <3>5. CASE C = {}
      <4>1. v = 0
        BY <3>5, SumEmpty DEF WeightOf
      <4> HIDE DEF x, v, k
      <4>2. SumFunctionOnSet(currentWeights', A) + Slack(k) >= 0
        BY <2>1, <3>4, <4>1
      <4> QED BY <4>2, Zenon DEF k
    <3>6. CASE C # {}
      <4> DEFINE y == currentWeights[w]
                 u == Weights[w]
                 c == SumFunctionOnSet(currentWeights, C)
      <4>1. m \in Nat \ {0} /\ c \in Int /\ y \in Int /\ u \in Nat /\ u <= MaxWeight
        <5>1. m # 0
          BY <3>2, <3>6, FS_EmptySet
        <5>2. c \in Int
          BY <1>1, <3>2, SumInt, Zenon
        <5> QED BY <1>1, <3>2, <5>1, <5>2, Zenon
      <4>2. v <= m * MaxWeight
        <5>1. PICK zero : zero = [b \in Backends |-> 0]
          BY Zenon
        <5>2. SumFunctionOnSet(zero, C) = 0
          BY <3>2, <5>1, SumZero, Zenon
        <5>3. SumFunctionOnSet(Weights, C) <= Cardinality(C) * MaxWeight - SumFunctionOnSet(zero, C)
          <6>1. \A b \in C : Weights[b] \in Int /\ zero[b] \in Int /\ Weights[b] <= MaxWeight - zero[b]
            BY <1>1, <3>2, <5>1
          <6> QED BY <1>1, <3>2, <6>1, SumBelow
        <5>4. Cardinality(C) * MaxWeight \in Int
          BY <1>1, <3>2
        <5> QED BY <5>2, <5>3, <5>4 DEF WeightOf
      <4>3. x >= y - MaxWeight * ((k - 1) * (N - (k - 1)))
        <5>1. x = y + SumFunctionOnSet(currentWeights, A \ {w})
          BY <1>1, <2>1, <2>4, SumTakeOut
        <5>2. Cardinality(A \ {w}) = k - 1 /\ IsFiniteSet(A \ {w})
          BY <2>1, <2>4, FS_RemoveElement, Zenon
        <5>3. SumFunctionOnSet(currentWeights, A \ {w}) + Slack(Cardinality(A \ {w})) >= 0
          BY Zenon DEF DriftInv
        <5>4. SumFunctionOnSet(currentWeights, A \ {w}) \in Int
          BY <1>1, <5>2, SumInt, Zenon
        <5>5. Slack(Cardinality(A \ {w})) = MaxWeight * ((k - 1) * (N - (k - 1)))
          BY <5>2, Zenon DEF Slack
        <5>6. MaxWeight * ((k - 1) * (N - (k - 1))) \in Int
          BY <1>1, <2>1
        <5> HIDE DEF x, y, k
        <5> QED BY <2>1, <4>1, <5>1, <5>3, <5>4, <5>5, <5>6
      <4>4. x + c >= -(MaxWeight * ((k + m) * (N - (k + m))))
        <5>1. SumFunctionOnSet(currentWeights, A \cup C) = x + c
          BY <1>1, <2>1, <3>2, SumUnion, Zenon
        <5>2. Cardinality(A \cup C) = k + m
          <6>1. Cardinality(A \cap C) = 0
            BY <3>2, FS_EmptySet, Zenon
          <6>2. Cardinality(A \cup C) = Cardinality(A) + Cardinality(C) - Cardinality(A \cap C)
            BY <2>1, <3>2, FS_Union
          <6> QED BY <2>1, <3>2, <6>1, <6>2
        <5>3. SumFunctionOnSet(currentWeights, A \cup C) + Slack(Cardinality(A \cup C)) >= 0
          BY <3>2, Zenon DEF DriftInv
        <5>4. Slack(Cardinality(A \cup C)) = MaxWeight * ((k + m) * (N - (k + m)))
          BY <5>2, Zenon DEF Slack
        <5>5. MaxWeight * ((k + m) * (N - (k + m))) \in Int
          BY <1>1, <2>1, <4>1
        <5> HIDE DEF x, c, k, m
        <5> QED BY <2>1, <4>1, <5>1, <5>3, <5>4, <5>5
      <4>5. c <= m * (y + u) - v
        <5>1. \A b \in C : /\ currentWeights[b] \in Int /\ Weights[b] \in Int
                           /\ currentWeights[b] <= (y + u) - Weights[b]
          BY <1>1, <3>2, <4>1
        <5>2. y + u \in Int
          BY <4>1
        <5> QED BY <3>2, <5>1, <5>2, SumBelow, Zenon DEF WeightOf
      <4> HIDE DEF x, y, c, u, v, k, m
      <4>6. x - v + MaxWeight * (k * (N - k)) >= 0
        BY <1>1, <2>1, <3>2, <4>1, <4>2, <4>3, <4>4, <4>5, DriftArithmetic, Zenon
      <4>7. SumFunctionOnSet(currentWeights', A) + Slack(k) >= 0
        BY <3>4, <4>6, Zenon DEF Slack
      <4> QED BY <4>7 DEF k
    <3> QED BY <3>5, <3>6
  <2> QED BY <2>3, <2>4
<1> QED BY <1>3, <1>4 DEF DriftInv, Slack, N

(* What PickWeighted does to the weights, in these terms.                  *)
LEMMA WeightedPick ==
  ASSUME ScanInv, NEW p \in Pickers, PickWeighted(p)
  PROVE  LET S == picker[p].seen
             w == Heaviest(S)
         IN /\ S \in SUBSET Backends /\ w \in S
            /\ \A c \in S : currentWeights[w] + Weights[w] >= currentWeights[c] + Weights[c]
            /\ currentWeights' = Paid(S, w)
            /\ Chosen(p, w)
            /\ algorithm = "weighted_round_robin" /\ flipped' = flipped
            /\ ~flipped => S = Backends
<1> DEFINE S == picker[p].seen
           w == Heaviest(S)
<1>1. /\ S \in SUBSET Backends /\ S # {} /\ currentWeights \in [Backends -> Int]
      /\ Scan(picker[p], steady[p])
      /\ picker[p].stage = "looking" /\ picker[p].at = N
  BY Zenon DEF ScanInv, PickerType, PickWeighted, LookedAtAll, N
<1>2. /\ w \in S
      /\ \A c \in S : currentWeights[w] + Weights[w] >= currentWeights[c] + Weights[c]
  BY <1>1, HeaviestWins, Zenon
<1>3. /\ Chosen(p, w) /\ algorithm = "weighted_round_robin" /\ flipped' = flipped
      /\ currentWeights' = IF Cardinality(S) = 1 THEN currentWeights ELSE Paid(S, w)
  BY DEF PickWeighted, Paid
<1> HIDE DEF w, S
<1>4. ASSUME Cardinality(S) = 1 PROVE Paid(S, w) = currentWeights
  <2>1. S = {w}
    <3>1. IsFiniteSet(S)
      BY <1>1, WeightOfType, Zenon
    <3>2. IsFiniteSet(S \ {w}) /\ Cardinality(S \ {w}) = 0
      BY <1>2, <1>4, <3>1, FS_RemoveElement
    <3>3. S \ {w} = {}
      BY <3>2, FS_EmptySet
    <3> QED BY <1>2, <3>3, Zenon
  <2>2. WeightOf(S) = Weights[w]
    <3>1. WeightOf(S) = Weights[w] + WeightOf(S \ {w})
      BY <1>1, <1>2, WeightOfType
    <3>2. WeightOf(S \ {w}) = 0
      <4>1. S \ {w} = {}
        BY <2>1
      <4> QED BY <4>1, SumEmpty DEF WeightOf
    <3>3. Weights[w] \in Int
      BY <1>1, <1>2, PoolFacts
    <3> QED BY <3>1, <3>2, <3>3
  <2>3. \A b \in Backends : currentWeights[b] \in Int /\ Weights[b] \in Int
    BY <1>1, PoolFacts
  <2>4. \A b \in Backends : Paid(S, w)[b] = currentWeights[b]
    BY <1>1, <1>2, <2>1, <2>2, <2>3 DEF Paid, Raised
  <2>5. Paid(S, w) = [b \in Backends |-> Paid(S, w)[b]]
    BY DEF Paid, Raised
  <2> QED BY <1>1, <2>4, <2>5, Zenon
<1>5. currentWeights' = Paid(S, w)
  BY <1>3, <1>4
<1>6. ~flipped => S = Backends
  <2>1. ~flipped => S = 1 .. N
    BY <1>1, <1>3 DEF Scan, S
  <2> QED BY <2>1, Zenon DEF Backends, N
<1> QED BY <1>1, <1>2, <1>3, <1>5, <1>6, Zenon DEF w, S

(* The drift's invariant at the start.                                     *)
LEMMA InitDrift == Init => DriftInv
<1> SUFFICES ASSUME Init PROVE DriftInv
  BY Zenon
<1>1. ASSUME NEW A \in SUBSET Backends
      PROVE  /\ SumFunctionOnSet(currentWeights, A) = 0
             /\ Slack(Cardinality(A)) \in Nat
  <2>1. IsFiniteSet(A) /\ Cardinality(A) \in Nat /\ Cardinality(A) <= N /\ N \in Nat
    BY PoolFacts, FS_Subset, FS_CardinalityType, Zenon
  <2>2. \A b \in A : currentWeights[b] = 0
    BY DEF Init
  <2>3. MaxWeight \in Nat
    BY MaxWeightIs
  <2>4. Cardinality(A) * (N - Cardinality(A)) \in Nat
    BY <2>1
  <2> QED BY <2>1, <2>2, <2>3, <2>4, SumZero DEF Slack
<1>2. Backends \in SUBSET Backends
  OBVIOUS
<1> QED BY <1>1, <1>2 DEF DriftInv

(* Every step keeps the drift's invariant.                                 *)
LEMMA StepDrift == ScanInv /\ DriftInv /\ [Next]_vars => DriftInv'
<1> SUFFICES ASSUME ScanInv, DriftInv, [Next]_vars PROVE DriftInv'
  OBVIOUS
<1>1. (\E p \in Pickers : PickWeighted(p)) \/ UNCHANGED currentWeights
  BY Zenon DEF Next, Pick, Begin, Look, Unlucky, PickLeast, PickHashed, PickSole, Draw, Drawn, Return,
         Acquire, Release, SetFlag, vars
<1>2. CASE UNCHANGED currentWeights
  BY <1>2 DEF DriftInv, Slack, N
<1>3. ASSUME NEW p \in Pickers, PickWeighted(p) PROVE DriftInv'
  BY <1>3, WeightedPick, DriftStep, Zenon
<1> QED BY <1>1, <1>2, <1>3

(* No single weight leaves the range.                                      *)
LEMMA DriftBounds ==
  ASSUME ScanInv, DriftInv
  PROVE  currentWeights \in [Backends -> -Drift .. Drift] /\ Drift \in Nat
<1>1. /\ N \in Nat \ {0} /\ MaxWeight \in Nat /\ IsFiniteSet(Backends) /\ Cardinality(Backends) = N
      /\ currentWeights \in [Backends -> Int]
  BY PoolFacts, MaxWeightIs, Zenon DEF ScanInv
<1>2. Drift = MaxWeight * (N - 1) /\ Drift \in Nat
  BY <1>1 DEF Drift, N
<1>3. Slack(1) = Drift /\ Slack(N - 1) = Drift
  BY <1>1, <1>2 DEF Slack
<1>4. ASSUME NEW b \in Backends PROVE currentWeights[b] \in -Drift .. Drift
  <2>1. PICK A, B : A = {b} /\ B = Backends \ {b}
    BY Zenon
  <2>2. /\ A \in SUBSET Backends /\ B \in SUBSET Backends
        /\ Cardinality(A) = 1 /\ Cardinality(B) = N - 1 /\ IsFiniteSet(A) /\ IsFiniteSet(B)
    BY <1>1, <2>1, FS_Singleton, FS_RemoveElement, Zenon
  <2>3. /\ SumFunctionOnSet(currentWeights, A) + Drift >= 0
        /\ SumFunctionOnSet(currentWeights, B) + Drift >= 0
    BY <1>3, <2>2 DEF DriftInv
  <2>4. /\ SumFunctionOnSet(currentWeights, Backends)
             = currentWeights[b] + SumFunctionOnSet(currentWeights, B)
        /\ SumFunctionOnSet(currentWeights, Backends) = 0
    BY <1>1, <2>1, SumTakeOut DEF DriftInv
  <2>5. SumFunctionOnSet(currentWeights, A) = currentWeights[b]
    <3>1. SumFunctionOnSet(currentWeights, A)
            = currentWeights[b] + SumFunctionOnSet(currentWeights, A \ {b})
      BY <1>1, <2>1, <2>2, SumTakeOut
    <3>2. SumFunctionOnSet(currentWeights, A \ {b}) = 0
      <4>1. A \ {b} = {}
        BY <2>1
      <4> QED BY <4>1, SumEmpty
    <3> QED BY <1>1, <3>1, <3>2
  <2>6. SumFunctionOnSet(currentWeights, B) \in Int /\ currentWeights[b] \in Int
    BY <1>1, <2>2, SumInt
  <2> QED BY <1>2, <2>3, <2>4, <2>5, <2>6
<1> QED BY <1>1, <1>2, <1>4

-----------------------------------------------------------------------------
(* A cycle of smooth weighted round-robin while all backends are up: what  *)
(* a backend's weight is off by is exactly what it was served too much or  *)
(* too little, and none is a full pick ahead.                              *)
Cycle ==
  LET n == SumFunctionOnSet(served, Backends) IN
  /\ n <= TotalWeight
  /\ \A b \in Backends : /\ currentWeights[b] = n * Weights[b] - served[b] * TotalWeight
                         /\ currentWeights[b] > -TotalWeight

CycleInv == algorithm = "weighted_round_robin" /\ ~flipped => Cycle

(* The sums in the properties are sums over the pool.                      *)
LEMMA SumsOfFunctions ==
  ASSUME ScanInv
  PROVE  /\ SumFunction(served) = SumFunctionOnSet(served, Backends)
         /\ SumFunction(currentWeights) = SumFunctionOnSet(currentWeights, Backends)
         /\ SumFunction(conns) = SumFunctionOnSet(conns, Backends)
<1>1. DOMAIN served = Backends /\ DOMAIN currentWeights = Backends /\ DOMAIN conns = Backends
  BY DEF ScanInv
<1> QED BY <1>1, SumOfFunction

(* After TotalWeight picks every backend has had its weight.               *)
LEMMA CycleEnds ==
  ASSUME ScanInv, Cycle, SumFunctionOnSet(served, Backends) = TotalWeight
  PROVE  \A b \in Backends : served[b] = Weights[b] /\ currentWeights[b] = 0
<1>1. /\ TotalWeight \in Nat \ {0} /\ IsFiniteSet(Backends)
      /\ \A b \in Backends : served[b] \in Nat /\ Weights[b] \in Nat /\ currentWeights[b] \in Int
  BY TotalWeightIs, PoolFacts DEF ScanInv
<1>2. ASSUME NEW b \in Backends PROVE served[b] <= Weights[b]
  <2>1. TotalWeight * Weights[b] - served[b] * TotalWeight > -TotalWeight
    BY Zenon DEF Cycle
  <2>2. TotalWeight * (Weights[b] - served[b] + 1) > 0
    BY <1>1, <2>1
  <2>3. Weights[b] - served[b] + 1 > 0
    BY <1>1, <2>2
  <2> QED BY <1>1, <2>3
<1>3. PICK d : d = [b \in Backends |-> Weights[b] - served[b]]
  BY Zenon
<1>4. \A b \in Backends : d[b] \in Nat /\ d[b] \in Int /\ Weights[b] = served[b] + d[b]
  BY <1>1, <1>2, <1>3
<1>5. SumFunctionOnSet(Weights, Backends)
        = SumFunctionOnSet(served, Backends) + SumFunctionOnSet(d, Backends)
  BY <1>1, <1>4, SumAdds
<1>6. SumFunctionOnSet(d, Backends) \in Nat /\ \A b \in Backends : d[b] <= SumFunctionOnSet(d, Backends)
  BY <1>1, <1>4, SumNat, Zenon
<1>7. SumFunctionOnSet(d, Backends) = 0
  BY <1>1, <1>5, <1>6 DEF TotalWeight, WeightOf
<1>8. ASSUME NEW b \in Backends PROVE served[b] = Weights[b] /\ currentWeights[b] = 0
  <2>1. d[b] = 0
    BY <1>4, <1>6, <1>7
  <2>2. served[b] = Weights[b]
    BY <1>1, <1>4, <2>1
  <2>3. currentWeights[b] = TotalWeight * Weights[b] - served[b] * TotalWeight
    BY Zenon DEF Cycle
  <2> QED BY <1>1, <2>2, <2>3
<1> QED BY <1>8

(* A weighted Pick keeps the weights and the picks of the cycle in step.   *)
LEMMA CyclePick ==
  ASSUME ScanInv, DriftInv, Cycle, algorithm = "weighted_round_robin", ~flipped,
         NEW w \in Backends,
         \A c \in Backends : currentWeights[w] + Weights[w] >= currentWeights[c] + Weights[c],
         currentWeights' = Paid(Backends, w), Count(w)
  PROVE  Cycle'
<1> DEFINE n == SumFunctionOnSet(served, Backends)
           T == TotalWeight
<1>1. /\ T \in Nat \ {0} /\ IsFiniteSet(Backends) /\ n \in Nat /\ n <= T
      /\ \A b \in Backends : served[b] \in Nat /\ Weights[b] \in Nat /\ currentWeights[b] \in Int
  <2>1. /\ T \in Nat \ {0} /\ IsFiniteSet(Backends)
        /\ \A b \in Backends : served[b] \in Nat /\ Weights[b] \in Nat /\ currentWeights[b] \in Int
    BY TotalWeightIs, PoolFacts, Zenon DEF ScanInv
  <2>2. n \in Nat
    BY <2>1, SumNat, Zenon
  <2> QED BY <2>1, <2>2 DEF Cycle
<1>2. \A b \in Backends : currentWeights'[b] = currentWeights[b] + Weights[b] - IF b = w THEN T ELSE 0
  <2>1. WeightOf(Backends) = T /\ T \in Int
    BY <1>1 DEF TotalWeight
  <2> HIDE DEF T
  <2> QED BY <1>1, <2>1 DEF Paid, Raised
<1>3. PICK old \in [Backends -> Nat] :
        /\ served' = [old EXCEPT ![w] = @ + 1]
        /\ SumFunctionOnSet(old, Backends) \in Nat /\ SumFunctionOnSet(old, Backends) < T
        /\ \A b \in Backends : currentWeights[b] = SumFunctionOnSet(old, Backends) * Weights[b] - old[b] * T
  <2>1. CASE n = T
    <3>1. served' = [[c \in Backends |-> 0] EXCEPT ![w] = @ + 1]
      BY <2>1, SumsOfFunctions, Zenon DEF Count, CycleOver
    <3>2. PICK old : old = [c \in Backends |-> 0]
      BY Zenon
    <3>3. old \in [Backends -> Nat] /\ \A b \in Backends : old[b] = 0
      BY <3>2, Zenon
    <3>4. SumFunctionOnSet(old, Backends) = 0
      BY <1>1, <3>3, SumZero, Zenon
    <3>5. \A b \in Backends : currentWeights[b] = 0
      BY <2>1, CycleEnds
    <3>6. \A b \in Backends : currentWeights[b] = SumFunctionOnSet(old, Backends) * Weights[b] - old[b] * T
      <4> HIDE DEF T
      <4> TAKE b \in Backends
      <4>1. 0 * Weights[b] - 0 * T = 0
        BY <1>1
      <4>2. currentWeights[b] = 0 /\ old[b] = 0
        BY <3>3, <3>5, Zenon
      <4> QED BY <3>4, <4>1, <4>2
    <3>7. SumFunctionOnSet(old, Backends) \in Nat /\ SumFunctionOnSet(old, Backends) < T
      <4> HIDE DEF T
      <4> QED BY <1>1, <3>4
    <3> QED BY <3>1, <3>2, <3>3, <3>6, <3>7, Zenon
  <2>2. CASE n # T
    <3>1. served' = [served EXCEPT ![w] = @ + 1]
      BY <2>2, SumsOfFunctions, Zenon DEF Count, CycleOver
    <3>2. n \in Nat /\ n < T
      <4> HIDE DEF n, T
      <4> QED BY <1>1, <2>2
    <3>3. served \in [Backends -> Nat]
      BY Zenon DEF ScanInv
    <3> QED BY <3>1, <3>2, <3>3, Zenon DEF Cycle
  <2> QED BY <2>1, <2>2, Zenon
<1>4. PICK m \in Nat : m = SumFunctionOnSet(old, Backends)
  BY <1>3, Zenon
<1>5. \A b \in Backends : /\ old[b] \in Nat /\ served'[b] \in Nat
                         /\ served'[b] = old[b] + IF b = w THEN 1 ELSE 0
  BY <1>3
<1>6. SumFunctionOnSet(served', Backends) = m + 1
  <2>1. \A b \in Backends : old[b] \in Int /\ served'[b] \in Int /\ (b # w => served'[b] = old[b])
    BY <1>5
  <2>2. SumFunctionOnSet(served', Backends) = SumFunctionOnSet(old, Backends) + served'[w] - old[w]
    BY <1>1, <2>1, SumUpdate, Zenon
  <2>3. served'[w] = old[w] + 1 /\ old[w] \in Nat
    BY <1>5, Zenon
  <2> QED BY <1>4, <2>2, <2>3
<1>7. currentWeights[w] + Weights[w] > 0
  <2>1. PICK zero, k : zero = [b \in Backends |-> 0] /\ k = currentWeights[w] + Weights[w]
    BY Zenon
  <2>2. PICK r : r = [b \in Backends |-> currentWeights[b] + Weights[b]]
    BY Zenon
  <2>3. SumFunctionOnSet(zero, Backends) = 0
    BY <1>1, <2>1, SumZero
  <2>4. \A b \in Backends : /\ r[b] \in Int /\ r[b] = currentWeights[b] + Weights[b]
                           /\ zero[b] \in Int /\ r[b] <= k - zero[b]
                           /\ currentWeights[b] \in Int /\ Weights[b] \in Int
    BY <1>1, <2>1, <2>2
  <2>5. SumFunctionOnSet(r, Backends)
          = SumFunctionOnSet(currentWeights, Backends) + SumFunctionOnSet(Weights, Backends)
    BY <1>1, <2>4, SumAdds
  <2>6. SumFunctionOnSet(r, Backends) = T
    <3> HIDE DEF T
    <3> QED BY <1>1, <2>5 DEF DriftInv, T, TotalWeight, WeightOf
  <2>7. k \in Int
    BY <1>1, <2>1
  <2>8. SumFunctionOnSet(r, Backends) <= Cardinality(Backends) * k - SumFunctionOnSet(zero, Backends)
    BY <1>1, <2>4, <2>7, SumBelow, Zenon
  <2>9. Cardinality(Backends) \in Nat
    BY PoolFacts, Zenon
  <2>10. Cardinality(Backends) * k > 0
    <3>1. Cardinality(Backends) * k \in Int
      BY <2>7, <2>9
    <3> HIDE DEF T
    <3> QED BY <1>1, <2>3, <2>6, <2>8, <3>1
  <2>11. k > 0
    BY <2>7, <2>9, <2>10
  <2> QED BY <2>1, <2>11
<1> HIDE DEF T, n
<1>8. ASSUME NEW b \in Backends
      PROVE  /\ currentWeights'[b] = (m + 1) * Weights[b] - served'[b] * T
             /\ currentWeights'[b] > -T
  <2>1. currentWeights[b] = m * Weights[b] - old[b] * T /\ currentWeights[b] > -T
    BY <1>3, <1>4, Zenon DEF Cycle, T
  <2>2. (m + 1) * Weights[b] = m * Weights[b] + Weights[b] /\ m * Weights[b] \in Int
    <3>1. m \in Int /\ Weights[b] \in Int
      BY <1>1
    <3> QED BY <3>1
  <2>3. CASE b = w
    <3>1. (old[b] + 1) * T = old[b] * T + T /\ old[b] * T \in Int
      BY <1>1, <1>5
    <3>2. served'[b] = old[b] + 1
      BY <1>5, <2>3, Zenon
    <3>3. served'[b] * T = old[b] * T + T
      BY <3>1, <3>2, Zenon
    <3>4. currentWeights'[b] = currentWeights[b] + Weights[b] - T
      BY <1>2, <2>3, Zenon
    <3> QED BY <1>1, <1>7, <2>1, <2>2, <2>3, <3>1, <3>3, <3>4
  <2>4. CASE b # w
    <3>1. served'[b] = old[b] /\ old[b] * T \in Int
      BY <1>1, <1>5, <2>4
    <3>2. currentWeights'[b] = currentWeights[b] + Weights[b]
      BY <1>1, <1>2, <2>4
    <3> QED BY <1>1, <2>1, <2>2, <3>1, <3>2
  <2> QED BY <2>3, <2>4, Zenon
<1>9. m + 1 <= T
  BY <1>1, <1>3, <1>4
<1>10. TotalWeight' = TotalWeight
  BY Zenon DEF TotalWeight, WeightOf
<1> QED BY <1>6, <1>8, <1>9, <1>10, Zenon DEF Cycle, T

(* The cycle's invariant at the start.                                     *)
LEMMA InitCycle == Init => CycleInv
<1> SUFFICES ASSUME Init PROVE Cycle
  BY Zenon DEF CycleInv
<1>1. /\ \A b \in Backends : served[b] = 0 /\ currentWeights[b] = 0 /\ Weights[b] \in Nat
      /\ IsFiniteSet(Backends) /\ TotalWeight \in Nat \ {0}
  BY PoolFacts, TotalWeightIs, Zenon DEF Init
<1>2. SumFunctionOnSet(served, Backends) = 0
  BY <1>1, SumZero, Zenon
<1>3. \A b \in Backends : 0 = 0 * Weights[b] - 0 * TotalWeight /\ 0 > -TotalWeight
  BY <1>1
<1>4. ASSUME NEW b \in Backends
      PROVE  /\ currentWeights[b] = 0 * Weights[b] - served[b] * TotalWeight
             /\ currentWeights[b] > -TotalWeight
  <2>1. served[b] = 0 /\ currentWeights[b] = 0
    BY <1>1
  <2> QED BY <1>3, <2>1
<1>5. 0 <= TotalWeight
  BY <1>1
<1> QED BY <1>2, <1>4, <1>5 DEF Cycle

(* Every step keeps the cycle's invariant.                                 *)
LEMMA StepCycle == ScanInv /\ DriftInv /\ CycleInv /\ [Next]_vars => CycleInv'
<1> SUFFICES ASSUME ScanInv, DriftInv, CycleInv, [Next]_vars,
                    algorithm' = "weighted_round_robin", ~flipped'
             PROVE  Cycle'
  BY DEF CycleInv
<1>1. algorithm = "weighted_round_robin" /\ ~flipped
  BY StaysAsItIs
<1>2. Cycle
  BY <1>1, Zenon DEF CycleInv
<1>3. ASSUME NEW p \in Pickers, PickWeighted(p) PROVE Cycle'
  <2> DEFINE w == Heaviest(picker[p].seen)
  <2>1. /\ picker[p].seen = Backends /\ w \in picker[p].seen
        /\ \A c \in picker[p].seen : currentWeights[w] + Weights[w] >= currentWeights[c] + Weights[c]
        /\ currentWeights' = Paid(picker[p].seen, w) /\ Chosen(p, w)
    BY <1>1, <1>3, WeightedPick
  <2>2. Count(w)
    BY <2>1, Zenon DEF Chosen
  <2> HIDE DEF w
  <2>3. /\ w \in Backends /\ currentWeights' = Paid(Backends, w)
        /\ \A c \in Backends : currentWeights[w] + Weights[w] >= currentWeights[c] + Weights[c]
    BY <2>1, Zenon
  <2> QED BY <1>1, <1>2, <2>2, <2>3, CyclePick, Zenon
<1>4. CASE UNCHANGED <<currentWeights, served>>
  BY <1>2, <1>4 DEF Cycle, TotalWeight, WeightOf
<1>5. (\E p \in Pickers : PickWeighted(p)) \/ UNCHANGED <<currentWeights, served>>
  <2>1. ASSUME NEW p \in Pickers, Pick(p) PROVE PickWeighted(p) \/ UNCHANGED <<currentWeights, served>>
    <3>1. Scan(picker[p], steady[p])
      BY Zenon DEF ScanInv
    <3> QED BY <1>1, <2>1, <3>1 DEF Pick, Begin, Look, Unlucky, Refused, PickLeast, PickHashed,
              PickSole, Draw, Drawn, Return, Acquire, Scan
  <2>2. CASE \E b \in Backends : Release(b) \/ SetFlag(b)
    BY <1>1, <2>2 DEF Release, SetFlag
  <2>3. CASE UNCHANGED vars
    BY <2>3 DEF vars
  <2> QED BY <2>1, <2>2, <2>3, Zenon DEF Next
<1> QED BY <1>3, <1>4, <1>5

-----------------------------------------------------------------------------
(* least_conn.  The connections held and the Picks under way are within    *)
(* the bound; and a backend's connections with those about to be acquired  *)
(* exceed no other's by more than the number of callers, because it had    *)
(* the fewest when it was chosen last.                                     *)
ChosenFor(b) == {p \in Pickers : picker[p].stage = "chosen" /\ picker[p].got = b}
Busy == Pickers \ InStage("idle")

Race ==
  \A b, c \in Backends :
    conns[b] + Cardinality(ChosenFor(b)) <= conns[c] + Cardinality(Pickers)

LeastInv ==
  /\ algorithm = "least_conn" =>
       /\ SumFunctionOnSet(conns, Backends) + Cardinality(Busy) <= MaxConns
       /\ ~flipped /\ ~released => Race
  /\ algorithm # "least_conn" => \A b \in Backends : conns[b] = 0

(* Sets of pickers are finite.                                             *)
LEMMA PickerSets ==
  /\ IsFiniteSet(Busy) /\ Cardinality(Busy) \in Nat
  /\ Cardinality(Pickers) \in Nat
  /\ \A b : /\ IsFiniteSet(ChosenFor(b)) /\ Cardinality(ChosenFor(b)) \in Nat
            /\ Cardinality(ChosenFor(b)) <= Cardinality(Pickers)
<1>1. IsFiniteSet(Pickers) /\ Busy \in SUBSET Pickers /\ \A b : ChosenFor(b) \in SUBSET Pickers
  BY WeightsAssumption DEF Busy, ChosenFor
<1> QED BY <1>1, FS_Subset, FS_CardinalityType, Zenon

(* The invariant of least_conn at the start.                               *)
LEMMA InitLeast == Init => LeastInv
<1> SUFFICES ASSUME Init PROVE LeastInv
  OBVIOUS
<1>1. \A b \in Backends : conns[b] = 0
  BY DEF Init
<1>2. SumFunctionOnSet(conns, Backends) = 0
  BY <1>1, PoolFacts, SumZero, Zenon
<1>3. Busy = {} /\ \A b : ChosenFor(b) = {}
  BY Zenon DEF Init, Idle, Busy, InStage, ChosenFor
<1>4. Cardinality(Busy) = 0 /\ \A b : Cardinality(ChosenFor(b)) = 0
  BY <1>3, FS_EmptySet, Zenon
<1>5. SumFunctionOnSet(conns, Backends) + Cardinality(Busy) <= MaxConns
  BY <1>2, <1>4, WeightsAssumption
<1>6. Race
  BY <1>1, <1>4, PickerSets DEF Race
<1> QED BY <1>1, <1>5, <1>6 DEF LeastInv

(* The steps of a least_conn balancer.                                     *)
LEMMA LeastBegins ==
  ASSUME ScanInv, LeastInv, algorithm = "least_conn", NEW p \in Pickers, Begin(p)
  PROVE  LeastInv'
<1> DEFINE r == [Idle EXCEPT !.stage = "looking", !.start = next]
<1>1. /\ picker' = [picker EXCEPT ![p] = r] /\ r.stage = "looking" /\ picker[p].stage = "idle"
      /\ picker \in [Pickers -> PickerType]
      /\ UNCHANGED <<algorithm, conns, flipped, released>>
      /\ SumFunction(conns) + Cardinality(Pickers \ InStage("idle")) < MaxConns
  BY Zenon DEF Begin, MayBegin, Idle, ScanInv
<1> HIDE DEF r
<1>2. Busy' = Busy \cup {p} /\ p \notin Busy
  BY <1>1, Zenon DEF Busy, InStage
<1>3. Cardinality(Busy') = Cardinality(Busy) + 1
  BY <1>2, PickerSets, FS_AddElement, Zenon
<1>4. SumFunctionOnSet(conns, Backends) \in Nat
  BY PoolFacts, SumNat, Zenon DEF ScanInv
<1>5. SumFunctionOnSet(conns, Backends) + Cardinality(Busy) < MaxConns
  BY <1>1, SumsOfFunctions, Zenon DEF Busy
<1>6. \A b : ChosenFor(b)' = ChosenFor(b)
  BY <1>1, Zenon DEF ChosenFor
<1>7. SumFunctionOnSet(conns', Backends) + Cardinality(Busy') <= MaxConns
  BY <1>1, <1>3, <1>4, <1>5, PickerSets, WeightsAssumption
<1> QED BY <1>1, <1>6, <1>7, Zenon DEF LeastInv, Race

(* Reading a flag changes nothing in the race.                             *)
LEMMA LeastLooks ==
  ASSUME ScanInv, LeastInv, algorithm = "least_conn", NEW p \in Pickers, Look(p) \/ Unlucky(p)
  PROVE  LeastInv'
<1>1. PICK r : /\ picker' = [picker EXCEPT ![p] = r] /\ r.stage \in {"looking", "refused"}
  <2>1. CASE Look(p)
    <3> DEFINE b == 1 + picker[p].at
               r == [picker[p] EXCEPT !.at = @ + 1, !.seen = IF b \in up THEN @ \cup {b} ELSE @]
    <3>1. picker' = [picker EXCEPT ![p] = r] /\ r.stage = "looking"
      BY <2>1, Zenon DEF Look, ScanInv, PickerType
    <3> QED BY <3>1, Zenon
  <2>2. CASE Unlucky(p)
    <3> DEFINE r == [Idle EXCEPT !.stage = "refused"]
    <3>1. picker' = [picker EXCEPT ![p] = r] /\ r.stage = "refused"
      BY <2>2 DEF Unlucky, Refused, Idle
    <3> QED BY <3>1, Zenon
  <2> QED BY <2>1, <2>2, Zenon
<1>2. /\ picker[p].stage = "looking" /\ picker \in [Pickers -> PickerType]
      /\ UNCHANGED <<algorithm, conns, flipped, released>>
  BY DEF Look, Unlucky, LookedAtAll, ScanInv
<1>3. Busy' = Busy
  BY <1>1, <1>2, Zenon DEF Busy, InStage
<1>4. \A b : ChosenFor(b)' = ChosenFor(b)
  BY <1>1, <1>2, Zenon DEF ChosenFor
<1> QED BY <1>2, <1>3, <1>4, Zenon DEF LeastInv, Race

(* A choice of the least loaded backend is never above the others by more  *)
(* than the callers still on their way.                                    *)
LEMMA LeastPicks ==
  ASSUME ScanInv, LeastInv, algorithm = "least_conn", NEW p \in Pickers, PickLeast(p)
  PROVE  LeastInv'
<1> DEFINE S == picker[p].seen
           w == Least(S)
           r == [Idle EXCEPT !.stage = "chosen", !.got = w]
<1>1. /\ picker' = [picker EXCEPT ![p] = r] /\ r.stage = "chosen" /\ r.got = w
      /\ picker[p].stage = "looking" /\ picker \in [Pickers -> PickerType] /\ picker[p].at = N
      /\ UNCHANGED <<algorithm, conns, flipped, released>>
      /\ S \in SUBSET Backends /\ S # {} /\ conns \in [Backends -> Nat]
      /\ Scan(picker[p], steady[p])
  BY DEF PickLeast, LookedAtAll, Chosen, Idle, ScanInv, PickerType, N
<1>2. w \in S /\ \A c \in S : conns[w] <= conns[c]
  BY <1>1, LeastIsLeast, Zenon
<1>3. ~flipped => S = Backends
  <2>1. ~flipped => S = 1 .. N
    BY <1>1, Zenon DEF Scan
  <2> QED BY <2>1 DEF Backends, N
<1> HIDE DEF r, w, S
<1>4. Busy' = Busy
  BY <1>1, Zenon DEF Busy, InStage
<1>5. \A b : b # w => ChosenFor(b)' = ChosenFor(b)
  BY <1>1, Zenon DEF ChosenFor
<1>6. ASSUME ~flipped, ~released PROVE Race'
  <2>1. ASSUME NEW b \in Backends, NEW c \in Backends
        PROVE  conns'[b] + Cardinality(ChosenFor(b)') <= conns'[c] + Cardinality(Pickers)
    <3>1. CASE b = w
      <4>1. conns[b] <= conns[c] /\ conns[b] \in Nat /\ conns[c] \in Nat
        BY <1>1, <1>2, <1>3, <1>6, <3>1, Zenon
      <4>2. ChosenFor(b)' \in SUBSET Pickers /\ IsFiniteSet(Pickers)
        BY WeightsAssumption, Zenon DEF ChosenFor
      <4>3. /\ Cardinality(ChosenFor(b)') <= Cardinality(Pickers)
            /\ Cardinality(ChosenFor(b)') \in Nat /\ Cardinality(Pickers) \in Nat
        BY <4>2, FS_Subset, FS_CardinalityType, Zenon
      <4> QED BY <1>1, <4>1, <4>3
    <3>2. CASE b # w
      BY <1>1, <1>5, <1>6, <3>2 DEF LeastInv, Race
    <3> QED BY <3>1, <3>2, Zenon
  <2> QED BY <2>1 DEF Race
<1> QED BY <1>1, <1>4, <1>6, Zenon DEF LeastInv

(* Acquiring turns a choice into a connection.                             *)
LEMMA LeastEnds ==
  ASSUME ScanInv, LeastInv, algorithm = "least_conn", NEW p \in Pickers, Return(p) \/ Acquire(p)
  PROVE  LeastInv'
<1>1. /\ picker' = [picker EXCEPT ![p] = Idle] /\ picker[p].stage # "idle" /\ Idle.stage = "idle"
      /\ picker \in [Pickers -> PickerType] /\ conns \in [Backends -> Nat]
      /\ UNCHANGED <<algorithm, flipped, released>>
  BY Zenon DEF Return, Acquire, Idle, ScanInv
<1>2. Busy' = Busy \ {p} /\ p \in Busy
  BY <1>1, Zenon DEF Busy, InStage
<1>3. Cardinality(Busy') = Cardinality(Busy) - 1
  BY <1>2, PickerSets, FS_RemoveElement, Zenon
<1>4. SumFunctionOnSet(conns, Backends) \in Nat /\ IsFiniteSet(Backends)
  BY <1>1, PoolFacts, SumNat, Zenon
<1>5. CASE Return(p)
  <2>1. conns' = conns /\ \A b : ChosenFor(b)' = ChosenFor(b)
    BY <1>1, <1>5, Zenon DEF Return, ChosenFor
  <2>2. SumFunctionOnSet(conns', Backends) + Cardinality(Busy') <= MaxConns
    BY <1>3, <1>4, <2>1, PickerSets, WeightsAssumption DEF LeastInv
  <2> QED BY <1>1, <2>1, <2>2, Zenon DEF LeastInv, Race
<1>6. CASE Acquire(p)
  <2>0. PICK w : w = picker[p].got
    BY Zenon
  <2>1. /\ w \in Backends /\ conns' = [conns EXCEPT ![w] = @ + 1] /\ picker[p].stage = "chosen"
    BY <1>6, <2>0, Zenon DEF Acquire, ScanInv, Scan
  <2>2. /\ \A b \in Backends : b # w => ChosenFor(b)' = ChosenFor(b)
        /\ ChosenFor(w)' = ChosenFor(w) \ {p} /\ p \in ChosenFor(w)
    BY <1>1, <2>0, <2>1, Zenon DEF ChosenFor
  <2>3. /\ Cardinality(ChosenFor(w)') = Cardinality(ChosenFor(w)) - 1
    BY <2>2, PickerSets, FS_RemoveElement, Zenon
  <2>4. \A b \in Backends : /\ conns[b] \in Nat /\ conns'[b] \in Nat
                           /\ conns'[b] = conns[b] + IF b = w THEN 1 ELSE 0
    BY <1>1, <2>1
  <2>5. SumFunctionOnSet(conns', Backends) = SumFunctionOnSet(conns, Backends) + 1
    <3>1. \A b \in Backends : conns[b] \in Int /\ conns'[b] \in Int /\ (b # w => conns'[b] = conns[b])
      BY <2>4
    <3>2. w \in Backends
      BY <2>1, Zenon
    <3>3. SumFunctionOnSet(conns', Backends) = SumFunctionOnSet(conns, Backends) + conns'[w] - conns[w]
      BY <1>4, <3>1, <3>2, SumUpdate, Zenon
    <3> QED BY <1>4, <2>4, <3>2, <3>3
  <2>6. SumFunctionOnSet(conns', Backends) + Cardinality(Busy') <= MaxConns
    BY <1>3, <1>4, <2>5, PickerSets, WeightsAssumption DEF LeastInv
  <2>7. ASSUME ~flipped, ~released PROVE Race'
    <3>1. ASSUME NEW b \in Backends, NEW c \in Backends
          PROVE  conns'[b] + Cardinality(ChosenFor(b)') <= conns'[c] + Cardinality(Pickers)
      <4>1. conns[b] + Cardinality(ChosenFor(b)) <= conns[c] + Cardinality(Pickers)
        BY <2>7, Zenon DEF LeastInv, Race
      <4>2. conns'[b] + Cardinality(ChosenFor(b)') = conns[b] + Cardinality(ChosenFor(b))
        <5>1. Cardinality(ChosenFor(b)') = Cardinality(ChosenFor(b)) - IF b = w THEN 1 ELSE 0
          BY <2>2, <2>3, PickerSets
        <5>2. conns'[b] = conns[b] + IF b = w THEN 1 ELSE 0
          BY <2>4, Zenon
        <5> QED BY <2>4, <5>1, <5>2, PickerSets
      <4>3. conns[c] <= conns'[c]
        BY <2>4
      <4> QED BY <2>4, <4>1, <4>2, <4>3, PickerSets
    <3> QED BY <3>1, Zenon DEF Race
  <2> QED BY <1>1, <2>6, <2>7, Zenon DEF LeastInv
<1> QED BY <1>5, <1>6, Zenon

(* Every step keeps the invariant of least_conn.                           *)
LEMMA StepLeast == ScanInv /\ LeastInv /\ [Next]_vars => LeastInv'
<1> SUFFICES ASSUME ScanInv, LeastInv, [Next]_vars PROVE LeastInv'
  OBVIOUS
<1>1. algorithm' = algorithm
  BY StaysAsItIs, Zenon
<1>2. CASE UNCHANGED vars
  BY <1>2 DEF vars, LeastInv, Race, Busy, InStage, ChosenFor
<1>3. CASE algorithm # "least_conn"
  <2>1. conns' = conns
    BY <1>2, <1>3, Zenon DEF Next, Pick, Begin, Look, Unlucky, PickWeighted, PickLeast, PickHashed,
       PickSole, Draw, Drawn, Return, Acquire, Release, SetFlag, vars
  <2> QED BY <1>1, <1>3, <2>1, Zenon DEF LeastInv
<1>4. ASSUME NEW b \in Backends, Release(b) PROVE LeastInv'
  <2>1. /\ UNCHANGED <<algorithm, picker>> /\ released' = TRUE /\ algorithm = "least_conn"
        /\ conns[b] > 0 /\ conns' = [conns EXCEPT ![b] = @ - 1] /\ conns \in [Backends -> Nat]
    BY <1>4, Zenon DEF Release, ScanInv
  <2>2. \A c \in Backends : conns[c] \in Int /\ conns'[c] \in Int /\ (c # b => conns'[c] = conns[c])
    BY <2>1
  <2>3. SumFunctionOnSet(conns', Backends) = SumFunctionOnSet(conns, Backends) + conns'[b] - conns[b]
    <3>1. IsFiniteSet(Backends)
      BY PoolFacts, Zenon
    <3> QED BY <2>2, <3>1, SumUpdate, Zenon
  <2>4. conns'[b] = conns[b] - 1 /\ conns[b] \in Nat /\ SumFunctionOnSet(conns, Backends) \in Nat
    BY <2>1, PoolFacts, SumNat, Zenon
  <2>5. Busy' = Busy
    BY <2>1, Zenon DEF Busy, InStage
  <2>6. SumFunctionOnSet(conns', Backends) + Cardinality(Busy') <= MaxConns
    BY <2>1, <2>3, <2>4, <2>5, PickerSets, WeightsAssumption DEF LeastInv
  <2> QED BY <2>1, <2>6, Zenon DEF LeastInv
<1>5. ASSUME NEW b \in Backends, SetFlag(b) PROVE LeastInv'
  BY <1>5, Zenon DEF SetFlag, LeastInv, Busy, InStage
<1>6. ASSUME algorithm = "least_conn", NEW p \in Pickers, Pick(p) PROVE LeastInv'
  <2>1. Scan(picker[p], steady[p])
    BY DEF ScanInv
  <2>2. \/ Begin(p) \/ Look(p) \/ Unlucky(p) \/ PickLeast(p) \/ Return(p) \/ Acquire(p)
    BY <1>6, <2>1, Zenon DEF Pick, PickWeighted, PickHashed, PickSole, Draw, Drawn, Scan
  <2> QED BY <1>6, <2>2, LeastBegins, LeastLooks, LeastPicks, LeastEnds
<1> QED BY <1>2, <1>3, <1>4, <1>5, <1>6 DEF Next

-----------------------------------------------------------------------------
(* The shares together.                                                    *)

(* Nothing is counted once a flag has changed, nor for the algorithms that *)
(* have no rotation.                                                       *)
CountInv ==
  flipped \/ algorithm \notin {"round_robin", "weighted_round_robin"} =>
    \A b \in Backends : served[b] = 0

(* Every step keeps the counts at 0 where they mean nothing.               *)
LEMMA StepCount == CountInv /\ [Next]_vars => CountInv'
<1> SUFFICES ASSUME CountInv, [Next]_vars,
                    flipped' \/ algorithm' \notin {"round_robin", "weighted_round_robin"}
             PROVE  \A b \in Backends : served'[b] = 0
  BY DEF CountInv
<1>1. algorithm' = algorithm
  BY StaysAsItIs, Zenon
<1>2. ASSUME NEW p \in Pickers, Pick(p), flipped' = flipped PROVE served' = served
  <2>1. ASSUME NEW b, Chosen(p, b) PROVE served' = served
    BY <1>1, <1>2, <2>1, Zenon DEF Chosen, Count
  <2>2. CASE Begin(p) \/ Look(p) \/ Unlucky(p)
    BY <2>1, <2>2, Zenon DEF Begin, Look, Unlucky, Refused
  <2>3. CASE PickWeighted(p) \/ PickLeast(p) \/ PickHashed(p) \/ PickSole(p)
    BY <2>1, <2>3 DEF PickWeighted, PickLeast, PickHashed, PickSole
  <2>4. CASE Draw(p) \/ Drawn(p) \/ Return(p) \/ Acquire(p)
    BY <2>1, <2>4, Zenon DEF Draw, Drawn, Return, Acquire
  <2> QED BY <1>2, <2>2, <2>3, <2>4 DEF Pick
<1>3. ASSUME NEW p \in Pickers, Pick(p) PROVE flipped' = flipped
  <2>1. CASE Begin(p) \/ Look(p) \/ Unlucky(p) \/ PickWeighted(p) \/ PickLeast(p)
    BY <2>1, Zenon DEF Begin, Look, Unlucky, PickWeighted, PickLeast
  <2>2. CASE PickHashed(p) \/ PickSole(p) \/ Draw(p) \/ Drawn(p) \/ Return(p) \/ Acquire(p)
    BY <2>2, Zenon DEF PickHashed, PickSole, Draw, Drawn, Return, Acquire
  <2> QED BY <1>3, <2>1, <2>2, Zenon DEF Pick
<1>4. CASE \E b \in Backends : SetFlag(b)
  BY <1>4, Zenon DEF SetFlag
<1>5. CASE \E b \in Backends : Release(b)
  BY <1>1, <1>5, Zenon DEF Release, CountInv
<1>6. CASE UNCHANGED vars
  BY <1>6, Zenon DEF vars, CountInv
<1> QED BY <1>1, <1>2, <1>3, <1>4, <1>5, <1>6, Zenon DEF Next, CountInv

BalancerInv == ScanInv /\ RotationInv /\ DriftInv /\ CycleInv /\ LeastInv /\ CountInv

(* The invariant gives every variable its type, with the tight bounds.     *)
LEMMA InvTypeOK == BalancerInv => TypeOK
<1> SUFFICES ASSUME BalancerInv PROVE TypeOK
  BY Zenon
<1> USE DEF BalancerInv
<1>1. currentWeights \in [Backends -> -Drift .. Drift]
  BY DriftBounds, Zenon
<1>2. /\ IsFiniteSet(Backends) /\ TotalWeight \in Nat /\ Cardinality(Pickers) \in Nat
      /\ MaxConns \in Nat /\ conns \in [Backends -> Nat] /\ served \in [Backends -> Nat]
  BY PoolFacts, TotalWeightIs, PickerSets, WeightsAssumption DEF ScanInv
<1>3. ASSUME NEW b \in Backends PROVE conns[b] <= MaxConns
  <2>1. CASE algorithm = "least_conn"
    <3>1. SumFunctionOnSet(conns, Backends) \in Nat /\ conns[b] <= SumFunctionOnSet(conns, Backends)
      BY <1>2, SumNat
    <3>2. SumFunctionOnSet(conns, Backends) + Cardinality(Busy) <= MaxConns
      BY <2>1, Zenon DEF LeastInv
    <3> QED BY <1>2, <3>1, <3>2, PickerSets
  <2>2. CASE algorithm # "least_conn"
    BY <1>2, <2>2 DEF LeastInv
  <2> QED BY <2>1, <2>2, Zenon
<1>4. ASSUME NEW b \in Backends PROVE served[b] <= TotalWeight + Cardinality(Pickers)
  <2>1. CASE algorithm = "round_robin" /\ ~flipped
    BY <2>1, RotationEven, Zenon DEF RotationInv
  <2>2. CASE algorithm = "weighted_round_robin" /\ ~flipped
    <3>1. SumFunctionOnSet(served, Backends) \in Nat /\ served[b] <= SumFunctionOnSet(served, Backends)
      BY <1>2, SumNat, Zenon
    <3>2. SumFunctionOnSet(served, Backends) <= TotalWeight
      BY <2>2, Zenon DEF CycleInv, Cycle
    <3> QED BY <1>2, <3>1, <3>2
  <2>3. CASE flipped \/ algorithm \notin {"round_robin", "weighted_round_robin"}
    BY <1>2, <2>3 DEF CountInv
  <2> QED BY <2>1, <2>2, <2>3
<1>5. conns \in [Backends -> 0 .. MaxConns]
  BY <1>2, <1>3
<1>6. served \in [Backends -> 0 .. TotalWeight + Cardinality(Pickers)]
  BY <1>2, <1>4
<1>7. steady \in [Pickers -> SUBSET Backends]
  BY DEF ScanInv
<1> QED BY <1>1, <1>5, <1>6, <1>7 DEF ScanInv, PickerType, TypeOK, N

(* The invariant implies every share.                                      *)
LEMMA InvShares == BalancerInv => SharesKept
<1> SUFFICES ASSUME BalancerInv PROVE SharesKept
  OBVIOUS
<1> USE DEF BalancerInv
<1>1. RoundRobinEven
  BY RotationEven DEF RotationInv, RoundRobinEven
<1>2. WeightConserved
  BY SumsOfFunctions, Zenon DEF DriftInv, WeightConserved
<1>3. WeightedShare
  <2> SUFFICES ASSUME algorithm = "weighted_round_robin", ~flipped PROVE WeightedShare
    BY Zenon DEF WeightedShare
  <2> DEFINE n == SumFunctionOnSet(served, Backends)
  <2>1. Cycle /\ SumFunction(served) = n
    BY SumsOfFunctions, Zenon DEF CycleInv
  <2>2. ASSUME CycleOver, NEW b \in Backends PROVE served[b] = Weights[b]
    BY <2>1, <2>2, CycleEnds, Zenon DEF CycleOver
  <2>3. ASSUME NEW b \in Backends
        PROVE  LET off == served[b] * TotalWeight - n * Weights[b]
               IN -Drift <= off /\ off < TotalWeight
    <3>1. /\ currentWeights[b] = n * Weights[b] - served[b] * TotalWeight
          /\ currentWeights[b] > -TotalWeight
      BY <2>1 DEF Cycle
    <3>2. currentWeights[b] \in -Drift .. Drift /\ Drift \in Nat
      BY DriftBounds, Zenon
    <3>3. n \in Nat /\ served[b] \in Nat /\ Weights[b] \in Nat /\ TotalWeight \in Nat
      BY PoolFacts, TotalWeightIs, SumNat, Zenon DEF ScanInv
    <3> HIDE DEF n
    <3>4. n * Weights[b] \in Int /\ served[b] * TotalWeight \in Int
      BY <3>3
    <3> QED BY <3>1, <3>2, <3>3, <3>4
  <2> HIDE DEF n
  <2> QED BY <2>1, <2>2, <2>3, Zenon DEF WeightedShare
<1>4. LeastWithinRace
  <2> SUFFICES ASSUME algorithm = "least_conn", ~flipped, ~released, NEW b \in Backends, NEW c \in Backends
               PROVE  conns[b] - conns[c] <= Cardinality(Pickers)
    BY DEF LeastWithinRace
  <2>1. conns[b] + Cardinality(ChosenFor(b)) <= conns[c] + Cardinality(Pickers)
    BY Zenon DEF LeastInv, Race
  <2>2. conns[b] \in Nat /\ conns[c] \in Nat
    BY DEF ScanInv
  <2> QED BY <2>1, <2>2, PickerSets
<1>5. SharesMatchWeights
  <2> SUFFICES ASSUME NEW p \in Pickers, NEW b \in Backends
               PROVE  LET S == picker[p].seen
                      IN Cardinality({t \in 0 .. WeightOf(S) - 1 : ByWeight(t, S) = b})
                           = IF b \in S THEN Weights[b] ELSE 0
    BY DEF SharesMatchWeights, InStage
  <2>1. picker[p].seen \in SUBSET Backends
    BY DEF ScanInv, PickerType
  <2> QED BY <2>1, SharesAreWeights, Zenon
<1> QED BY <1>1, <1>2, <1>3, <1>4, <1>5, InvTypeOK DEF SharesKept

(* Every algorithm gives every backend its share, for every pool, every    *)
(* number of callers and every interleaving of their Picks with changes of *)
(* the flags.                                                              *)
THEOREM SharesAreKept == Spec => []SharesKept
<1>1. Init => BalancerInv
  <2>1. Init => CountInv
    BY Zenon DEF Init, CountInv
  <2> QED BY <2>1, InitScan, InitRotation, InitDrift, InitCycle, InitLeast DEF BalancerInv
<1>2. BalancerInv /\ [Next]_vars => BalancerInv'
  BY StepScan, StepRotation, StepDrift, StepCycle, StepLeast, StepCount DEF BalancerInv
<1> QED BY <1>1, <1>2, InvShares, PTL DEF Spec

=============================================================================
