----------------------------- MODULE SumProofs ------------------------------
(***************************************************************************)
(* What the community modules' SumFunctionOnSet computes. It is defined by *)
(* a recursive function on subsets; that there is such a function, and     *)
(* only one, is proved by refuting a smallest set for which it is not so.  *)
(* The proofs about the balancers and about the requests of a listener     *)
(* rest on it.                                                             *)
(***************************************************************************)
EXTENDS Integers, FiniteSets, Functions, FiniteSetTheorems, TLAPS

(* Among the subsets of a finite set with some property there is a         *)
(* smallest. This is how the inductions below are made: a smallest         *)
(* counterexample is refuted.                                              *)
LEMMA MinimalSet ==
  ASSUME NEW S, IsFiniteSet(S), NEW F, F \subseteq SUBSET S, F # {}
  PROVE  \E T \in F : \A U \in F : U \subseteq T => U = T
<1>1. IsWellFoundedOn(StrictSubsetOrdering(S), SUBSET S)
  BY FS_StrictSubsetOrderingWellFounded, FS_FiniteSubsetsOfFinite, Zenon
<1>2. PICK T \in F : \A U \in F : ~(<<U, T>> \in StrictSubsetOrdering(S))
  BY <1>1, WFMin
<1> QED BY <1>2, Zenon DEF StrictSubsetOrdering

Some(s) == CHOOSE x \in s : TRUE

IsSum(g, f, S) ==
  g = [s \in SUBSET S |-> IF s = {} THEN 0 ELSE f[Some(s)] + g[s \ {Some(s)}]]

(* The community modules' sum is the fold that IsSum describes.            *)
LEMMA SumIs ==
  ASSUME NEW f, NEW S
  PROVE SumFunctionOnSet(f, S) = (CHOOSE g : IsSum(g, f, S))[S]
BY DEF SumFunctionOnSet, FoldFunctionOnSet, MapThenFoldSet, IsSum, Some

(* What is chosen from a set is in it.                                     *)
LEMMA SomeIn == \A s : s # {} => Some(s) \in s
  BY DEF Some

(* There is one such fold.                                                 *)
LEMMA SumUnique ==
  ASSUME NEW f, NEW S, IsFiniteSet(S), NEW g, NEW h, IsSum(g, f, S), IsSum(h, f, S)
  PROVE  g = h
<1> DEFINE Differ == {T \in SUBSET S : g[T] # h[T]}
<1>1. \A s \in SUBSET S : /\ g[s] = IF s = {} THEN 0 ELSE f[Some(s)] + g[s \ {Some(s)}]
                         /\ h[s] = IF s = {} THEN 0 ELSE f[Some(s)] + h[s \ {Some(s)}]
  BY Zenon DEF IsSum
<1>2. ASSUME Differ # {} PROVE FALSE
  <2>0. Differ \subseteq SUBSET S
    OBVIOUS
  <2>1. PICK T \in Differ : \A U \in Differ : U \subseteq T => U = T
    <3> HIDE DEF Differ
    <3> QED BY <1>2, <2>0, MinimalSet
  <2>2. T # {}
    BY <1>1, <2>1
  <2>3. T \ {Some(T)} \notin Differ
    BY <2>1, <2>2, SomeIn
  <2> QED BY <1>1, <2>1, <2>2, <2>3
<1>3. \A s \in SUBSET S : g[s] = h[s]
  BY <1>2
<1>4. g = [s \in SUBSET S |-> g[s]] /\ h = [s \in SUBSET S |-> h[s]]
  BY Zenon DEF IsSum
<1> QED BY <1>3, <1>4, Zenon

(* The fold over a set contains the folds over its subsets.                *)
LEMMA SumRestricts ==
  ASSUME NEW f, NEW S, NEW g, IsSum(g, f, S), NEW T \in SUBSET S
  PROVE  IsSum([s \in SUBSET T |-> g[s]], f, T)
<1> DEFINE h == [s \in SUBSET T |-> g[s]]
<1>1. \A s \in SUBSET T : g[s] = IF s = {} THEN 0 ELSE f[Some(s)] + g[s \ {Some(s)}]
  BY Zenon DEF IsSum
<1>2. \A s \in SUBSET T : h[s \ {Some(s)}] = g[s \ {Some(s)}]
  OBVIOUS
<1>3. h = [s \in SUBSET T |-> IF s = {} THEN 0 ELSE f[Some(s)] + h[s \ {Some(s)}]]
  BY <1>1, <1>2
<1> QED BY <1>3, Zenon DEF IsSum

Sum(f, S) == (CHOOSE g : IsSum(g, f, S))[S]

(* The fold's equation, where there is a fold.                             *)
LEMMA SumStep ==
  ASSUME NEW f, NEW S, IsFiniteSet(S), \E g : IsSum(g, f, S)
  PROVE  Sum(f, S) = IF S = {} THEN 0 ELSE f[Some(S)] + Sum(f, S \ {Some(S)})
<1> DEFINE g == CHOOSE e : IsSum(e, f, S)
           T == S \ {Some(S)}
           h == CHOOSE e : IsSum(e, f, T)
<1>1. IsSum(g, f, S)
  OBVIOUS
<1>2. IsSum([s \in SUBSET T |-> g[s]], f, T)
  BY <1>1, SumRestricts, Zenon
<1>3. IsSum(h, f, T)
  BY <1>2, Zenon
<1>4. IsFiniteSet(T)
  BY FS_RemoveElement
<1>5. h = [s \in SUBSET T |-> g[s]]
  <2> HIDE DEF h, T, g
  <2> QED BY <1>2, <1>3, <1>4, SumUnique, Zenon
<1>6. h[T] = g[T]
  BY <1>5, Zenon
<1>7. g[S] = IF S = {} THEN 0 ELSE f[Some(S)] + g[T]
  BY <1>1, Zenon DEF IsSum
<1> QED BY <1>6, <1>7 DEF Sum

(* There always is one, for a finite set.                                  *)
LEMMA SumExists ==
  ASSUME NEW f, NEW S, IsFiniteSet(S)
  PROVE  \E g : IsSum(g, f, S)
<1> DEFINE Bad == {T \in SUBSET S : ~ \E g : IsSum(g, f, T)}
<1> SUFFICES ASSUME Bad # {} PROVE FALSE
  OBVIOUS
<1>0. Bad \subseteq SUBSET S
  OBVIOUS
<1>1. PICK T \in Bad : \A U \in Bad : U \subseteq T => U = T
  <2> HIDE DEF Bad
  <2> QED BY <1>0, MinimalSet
<1>2. \A U \in SUBSET T : U # T => IsFiniteSet(U) /\ \E g : IsSum(g, f, U)
  BY <1>1, FS_Subset, Zenon
<1> DEFINE h == [s \in SUBSET T |-> IF s = {} THEN 0 ELSE f[Some(s)] + Sum(f, s \ {Some(s)})]
<1>3. \A U \in SUBSET T : U # T => h[U] = Sum(f, U)
  BY <1>2, SumStep
<1>4. \A s \in SUBSET T : s # {} => s \ {Some(s)} \in SUBSET T /\ s \ {Some(s)} # T
  BY SomeIn
<1>5. h = [s \in SUBSET T |-> IF s = {} THEN 0 ELSE f[Some(s)] + h[s \ {Some(s)}]]
  BY <1>3, <1>4, Zenon
<1> QED BY <1>1, <1>5, Zenon DEF IsSum

(* The equation of the library's operator.                                 *)
LEMMA SumEquation ==
  ASSUME NEW f, NEW S, IsFiniteSet(S)
  PROVE  /\ SumFunctionOnSet(f, {}) = 0
         /\ S # {} => SumFunctionOnSet(f, S) = f[Some(S)] + SumFunctionOnSet(f, S \ {Some(S)})
<1>1. \A T : SumFunctionOnSet(f, T) = Sum(f, T)
  BY SumIs DEF Sum
<1>2. \A T : IsFiniteSet(T) =>
        Sum(f, T) = IF T = {} THEN 0 ELSE f[Some(T)] + Sum(f, T \ {Some(T)})
  BY SumStep, SumExists
<1> QED BY <1>1, <1>2, FS_EmptySet

(* The sum over nothing is 0.                                              *)
LEMMA SumEmpty == \A f : SumFunctionOnSet(f, {}) = 0
  BY SumEquation, FS_EmptySet

(* Sums of integers are integers. *)
LEMMA SumInt ==
  ASSUME NEW f, NEW S, IsFiniteSet(S), \A x \in S : f[x] \in Int
  PROVE  SumFunctionOnSet(f, S) \in Int
<1> DEFINE Bad == {T \in SUBSET S : SumFunctionOnSet(f, T) \notin Int}
<1>1. Bad \subseteq SUBSET S
  OBVIOUS
<1>2. ASSUME Bad # {} PROVE FALSE
  <2>1. PICK T \in Bad : \A U \in Bad : U \subseteq T => U = T
    <3> HIDE DEF Bad
    <3> QED BY <1>1, <1>2, MinimalSet
  <2>2. T # {} /\ IsFiniteSet(T) /\ T \in SUBSET S
    <3>1. T \in SUBSET S /\ SumFunctionOnSet(f, T) \notin Int
      BY <2>1
    <3>2. T # {}
      BY <3>1, SumEmpty
    <3> QED BY <3>1, <3>2, FS_Subset
  <2>3. Some(T) \in T
    BY <2>2, SomeIn
  <2>4. SumFunctionOnSet(f, T \ {Some(T)}) \in Int
    BY <2>1, <2>3
  <2>5. SumFunctionOnSet(f, T) = f[Some(T)] + SumFunctionOnSet(f, T \ {Some(T)})
    BY <2>2, SumEquation
  <2> QED BY <2>1, <2>2, <2>3, <2>4, <2>5
<1> QED BY <1>2

(* Any element may be taken out first. *)
LEMMA SumTakeOut ==
  ASSUME NEW f, NEW S, IsFiniteSet(S), \A x \in S : f[x] \in Int, NEW y \in S
  PROVE  SumFunctionOnSet(f, S) = f[y] + SumFunctionOnSet(f, S \ {y})
<1> DEFINE Good(T) == \A x \in T : SumFunctionOnSet(f, T) = f[x] + SumFunctionOnSet(f, T \ {x})
           Bad == {T \in SUBSET S : ~Good(T)}
<1>1. Bad \subseteq SUBSET S
  OBVIOUS
<1>2. ASSUME Bad # {} PROVE FALSE
  <2>1. PICK T \in Bad : \A U \in Bad : U \subseteq T => U = T
    <3> HIDE DEF Bad
    <3> QED BY <1>1, <1>2, MinimalSet
  <2>2. T # {} /\ IsFiniteSet(T) /\ T \in SUBSET S
    BY <2>1, FS_Subset
  <2> DEFINE p == Some(T)
  <2>3. p \in T
    BY <2>2, SomeIn
  <2>4. SumFunctionOnSet(f, T) = f[p] + SumFunctionOnSet(f, T \ {p})
    BY <2>2, SumEquation
  <2> HIDE DEF p
  <2>5. ASSUME NEW x \in T PROVE SumFunctionOnSet(f, T) = f[x] + SumFunctionOnSet(f, T \ {x})
    <3>1. CASE x = p
      BY <2>4, <3>1
    <3>2. CASE x # p
      <4> DEFINE R == (T \ {p}) \ {x}
      <4>1. Good(T \ {p}) /\ Good(T \ {x})
        <5>1. T \ {p} \notin Bad /\ T \ {x} \notin Bad
          BY <2>1, <2>3
        <5> QED BY <2>2, <5>1, Zenon
      <4>2. x \in T \ {p} /\ p \in T \ {x} /\ (T \ {x}) \ {p} = R
        BY <2>3, <3>2
      <4>3. SumFunctionOnSet(f, T \ {p}) = f[x] + SumFunctionOnSet(f, R)
        BY <4>1, <4>2, Zenon
      <4>4. SumFunctionOnSet(f, T \ {x}) = f[p] + SumFunctionOnSet(f, R)
        BY <4>1, <4>2
      <4>5. IsFiniteSet(R) /\ R \in SUBSET S
        BY <2>2, FS_RemoveElement, Zenon
      <4>6. SumFunctionOnSet(f, R) \in Int
        <5> HIDE DEF R
        <5> QED BY <4>5, SumInt
      <4>7. f[x] \in Int /\ f[p] \in Int
        BY <2>2, <2>3
      <4> HIDE DEF R
      <4> QED BY <2>4, <4>3, <4>4, <4>6, <4>7
    <3> QED BY <3>1, <3>2
  <2> QED BY <2>1, <2>5
<1>3. Good(S)
  BY <1>2
<1> QED BY <1>3

(* Adding two functions. *)
LEMMA SumAdds ==
  ASSUME NEW f, NEW g, NEW h, NEW S, IsFiniteSet(S),
         \A x \in S : f[x] \in Int /\ g[x] \in Int /\ h[x] = f[x] + g[x]
  PROVE  SumFunctionOnSet(h, S) = SumFunctionOnSet(f, S) + SumFunctionOnSet(g, S)
<1> DEFINE Good(T) == SumFunctionOnSet(h, T) = SumFunctionOnSet(f, T) + SumFunctionOnSet(g, T)
           Bad == {T \in SUBSET S : ~Good(T)}
<1>1. Bad \subseteq SUBSET S
  OBVIOUS
<1>2. ASSUME Bad # {} PROVE FALSE
  <2>1. PICK T \in Bad : \A U \in Bad : U \subseteq T => U = T
    <3> HIDE DEF Bad
    <3> QED BY <1>1, <1>2, MinimalSet
  <2>2. IsFiniteSet(T) /\ T \in SUBSET S
    BY <2>1, FS_Subset
  <2>3. CASE T = {}
    BY <2>1, <2>3, SumEmpty
  <2>4. ASSUME NEW x \in T PROVE FALSE
    <3>1. Good(T \ {x})
      BY <2>1, <2>2
    <3>2. /\ SumFunctionOnSet(f, T) = f[x] + SumFunctionOnSet(f, T \ {x})
          /\ SumFunctionOnSet(g, T) = g[x] + SumFunctionOnSet(g, T \ {x})
          /\ SumFunctionOnSet(h, T) = h[x] + SumFunctionOnSet(h, T \ {x})
      BY <2>2, SumTakeOut
    <3>3. /\ SumFunctionOnSet(f, T \ {x}) \in Int
          /\ SumFunctionOnSet(g, T \ {x}) \in Int
      BY <2>2, SumInt, FS_RemoveElement
    <3>4. f[x] \in Int /\ g[x] \in Int /\ h[x] = f[x] + g[x]
      BY <2>2
    <3>5. Good(T)
      BY <3>1, <3>2, <3>3, <3>4
    <3> QED BY <2>1, <3>5
  <2> QED BY <2>3, <2>4
<1> QED BY <1>2

(* A sum depends on the values in the set only.                            *)
LEMMA SumZero ==
  ASSUME NEW z, NEW S, IsFiniteSet(S), \A x \in S : z[x] = 0
  PROVE  SumFunctionOnSet(z, S) = 0
<1>1. SumFunctionOnSet(z, S) \in Int
  BY SumInt
<1>2. SumFunctionOnSet(z, S) = SumFunctionOnSet(z, S) + SumFunctionOnSet(z, S)
  BY SumAdds
<1>3. \A n \in Int : n = n + n => n = 0
  OBVIOUS
<1> QED BY <1>1, <1>2, <1>3, Zenon

(* A sum depends on the values in the set only.                            *)
LEMMA SumSame ==
  ASSUME NEW f, NEW g, NEW S, IsFiniteSet(S), \A x \in S : f[x] \in Int /\ g[x] = f[x]
  PROVE  SumFunctionOnSet(g, S) = SumFunctionOnSet(f, S)
<1>1. PICK zero : zero = [x \in S |-> 0]
  BY Zenon
<1>2. SumFunctionOnSet(zero, S) = 0
  BY <1>1, SumZero
<1>3. SumFunctionOnSet(g, S) = SumFunctionOnSet(f, S) + SumFunctionOnSet(zero, S)
  BY <1>1, SumAdds
<1>4. SumFunctionOnSet(f, S) \in Int
  BY SumInt
<1> QED BY <1>2, <1>3, <1>4

(* A sum changes by what one element changes by.                           *)
LEMMA SumUpdate ==
  ASSUME NEW f, NEW g, NEW S, IsFiniteSet(S), NEW y \in S,
         \A x \in S : f[x] \in Int /\ g[x] \in Int, \A x \in S : x # y => g[x] = f[x]
  PROVE  SumFunctionOnSet(g, S) = SumFunctionOnSet(f, S) + g[y] - f[y]
<1>1. /\ SumFunctionOnSet(f, S) = f[y] + SumFunctionOnSet(f, S \ {y})
      /\ SumFunctionOnSet(g, S) = g[y] + SumFunctionOnSet(g, S \ {y})
  BY SumTakeOut
<1>2. IsFiniteSet(S \ {y})
  BY FS_RemoveElement
<1>3. SumFunctionOnSet(g, S \ {y}) = SumFunctionOnSet(f, S \ {y})
  BY <1>2, SumSame
<1>4. SumFunctionOnSet(f, S \ {y}) \in Int
  BY <1>2, SumInt
<1> QED BY <1>1, <1>3, <1>4

(* A sum of natural numbers is none smaller than any part of it.           *)
LEMMA SumNat ==
  ASSUME NEW f, NEW S, IsFiniteSet(S), \A x \in S : f[x] \in Nat
  PROVE  /\ SumFunctionOnSet(f, S) \in Nat
         /\ \A x \in S : f[x] <= SumFunctionOnSet(f, S)
<1> DEFINE Bad == {T \in SUBSET S : SumFunctionOnSet(f, T) \notin Nat}
<1>1. Bad \subseteq SUBSET S
  OBVIOUS
<1>2. ASSUME Bad # {} PROVE FALSE
  <2>1. PICK T \in Bad : \A U \in Bad : U \subseteq T => U = T
    <3> HIDE DEF Bad
    <3> QED BY <1>1, <1>2, MinimalSet
  <2>2. T \in SUBSET S /\ SumFunctionOnSet(f, T) \notin Nat
    BY <2>1
  <2>3. T # {} /\ IsFiniteSet(T)
    <3>1. T # {}
      BY <2>2, SumEmpty
    <3> QED BY <2>2, <3>1, FS_Subset
  <2>4. PICK x \in T : TRUE
    BY <2>3
  <2>5. SumFunctionOnSet(f, T \ {x}) \in Nat
    BY <2>1, <2>4
  <2>6. SumFunctionOnSet(f, T) = f[x] + SumFunctionOnSet(f, T \ {x})
    BY <2>2, <2>3, <2>4, SumTakeOut
  <2> QED BY <2>2, <2>4, <2>5, <2>6
<1>3. \A T \in SUBSET S : SumFunctionOnSet(f, T) \in Nat
  BY <1>2
<1>4. ASSUME NEW x \in S PROVE f[x] <= SumFunctionOnSet(f, S)
  <2>1. SumFunctionOnSet(f, S) = f[x] + SumFunctionOnSet(f, S \ {x})
    BY SumTakeOut
  <2>2. SumFunctionOnSet(f, S \ {x}) \in Nat
    BY <1>3
  <2> QED BY <2>1, <2>2
<1> QED BY <1>3, <1>4

(* The sum of a function is the sum over its domain.                       *)
LEMMA SumOfFunction == \A f : SumFunction(f) = SumFunctionOnSet(f, DOMAIN f)
  BY Zenon DEF SumFunction, SumFunctionOnSet, FoldFunction, FoldFunctionOnSet

(* Two disjoint sets.                                                      *)
LEMMA SumUnion ==
  ASSUME NEW f, NEW A, NEW C, IsFiniteSet(A), IsFiniteSet(C), A \cap C = {},
         \A x \in A \cup C : f[x] \in Int
  PROVE  SumFunctionOnSet(f, A \cup C) = SumFunctionOnSet(f, A) + SumFunctionOnSet(f, C)
<1> DEFINE Good(T) == SumFunctionOnSet(f, A \cup T) = SumFunctionOnSet(f, A) + SumFunctionOnSet(f, T)
           Bad == {T \in SUBSET C : ~Good(T)}
<1>1. Bad \subseteq SUBSET C
  OBVIOUS
<1>2. ASSUME Bad # {} PROVE FALSE
  <2>1. PICK T \in Bad : \A U \in Bad : U \subseteq T => U = T
    <3> HIDE DEF Bad
    <3> QED BY <1>1, <1>2, MinimalSet
  <2>2. T \in SUBSET C /\ ~Good(T)
    BY <2>1
  <2>3. IsFiniteSet(T) /\ SumFunctionOnSet(f, A) \in Int
    BY <2>2, FS_Subset, SumInt
  <2>4. CASE T = {}
    <3>1. SumFunctionOnSet(f, A \cup T) = SumFunctionOnSet(f, A)
      <4>1. A \cup T = A
        BY <2>4
      <4> QED BY <4>1, Zenon
    <3>2. SumFunctionOnSet(f, T) = 0
      BY <2>4, SumEmpty
    <3> HIDE DEF Bad
    <3> QED BY <2>2, <2>3, <3>1, <3>2
  <2>5. ASSUME NEW x \in T PROVE FALSE
    <3>1. Good(T \ {x})
      BY <2>1, <2>2
    <3>2. (A \cup T) \ {x} = A \cup (T \ {x})
      BY <2>2
    <3>3. SumFunctionOnSet(f, T) = f[x] + SumFunctionOnSet(f, T \ {x})
      BY <2>2, <2>3, SumTakeOut
    <3>4. SumFunctionOnSet(f, A \cup T) = f[x] + SumFunctionOnSet(f, A \cup (T \ {x}))
      <4>1. IsFiniteSet(A \cup T) /\ x \in A \cup T
        BY <2>3, FS_Union, Zenon
      <4>2. \A y \in A \cup T : f[y] \in Int
        BY <2>2
      <4> QED BY <3>2, <4>1, <4>2, SumTakeOut
    <3>5. SumFunctionOnSet(f, T \ {x}) \in Int /\ f[x] \in Int
      BY <2>2, <2>3, FS_RemoveElement, SumInt
    <3>6. Good(T)
      <4> HIDE DEF Bad
      <4> QED BY <2>3, <3>1, <3>3, <3>4, <3>5
    <3> QED BY <2>2, <3>6
  <2> QED BY <2>4, <2>5
<1>3. Good(C)
  BY <1>2
<1> QED BY <1>3

(* A part of a sum of natural numbers.                                     *)
LEMMA SumPart ==
  ASSUME NEW f, NEW S, IsFiniteSet(S), \A x \in S : f[x] \in Nat, NEW A \in SUBSET S
  PROVE  /\ SumFunctionOnSet(f, A) \in Nat
         /\ SumFunctionOnSet(f, S) = SumFunctionOnSet(f, A) + SumFunctionOnSet(f, S \ A)
         /\ SumFunctionOnSet(f, A) <= SumFunctionOnSet(f, S)
<1>1. PICK C : C = S \ A
  BY Zenon
<1>2. IsFiniteSet(A) /\ IsFiniteSet(C) /\ A \cap C = {} /\ S = A \cup C
  BY <1>1, FS_Subset, FS_Difference
<1>3. SumFunctionOnSet(f, A) \in Nat /\ SumFunctionOnSet(f, C) \in Nat
  BY <1>2, SumNat
<1>4. SumFunctionOnSet(f, S) = SumFunctionOnSet(f, A) + SumFunctionOnSet(f, C)
  BY <1>2, SumUnion
<1> QED BY <1>1, <1>3, <1>4

(* If every f[x] is at most k - g[x], the sum is at most that many k less  *)
(* the sum of the g[x].                                                    *)
LEMMA SumBelow ==
  ASSUME NEW f, NEW g, NEW C, IsFiniteSet(C), NEW k \in Int,
         \A x \in C : f[x] \in Int /\ g[x] \in Int /\ f[x] <= k - g[x]
  PROVE  SumFunctionOnSet(f, C) <= Cardinality(C) * k - SumFunctionOnSet(g, C)
<1> DEFINE Good(T) == SumFunctionOnSet(f, T) <= Cardinality(T) * k - SumFunctionOnSet(g, T)
           Bad == {T \in SUBSET C : ~Good(T)}
<1>1. Bad \subseteq SUBSET C
  OBVIOUS
<1>2. ASSUME Bad # {} PROVE FALSE
  <2>1. PICK T \in Bad : \A U \in Bad : U \subseteq T => U = T
    <3> HIDE DEF Bad
    <3> QED BY <1>1, <1>2, MinimalSet
  <2>2. T \in SUBSET C /\ ~Good(T)
    BY <2>1
  <2>3. IsFiniteSet(T) /\ Cardinality(T) \in Nat
    BY <2>2, FS_Subset, FS_CardinalityType
  <2>4. CASE T = {}
    <3>1. Cardinality(T) = 0
      BY <2>4, FS_EmptySet
    <3>2. SumFunctionOnSet(f, T) = 0 /\ SumFunctionOnSet(g, T) = 0
      BY <2>4, SumEmpty
    <3> HIDE DEF Bad
    <3> QED BY <2>2, <3>1, <3>2
  <2>5. ASSUME NEW x \in T PROVE FALSE
    <3>1. Good(T \ {x})
      BY <2>1, <2>2
    <3>2. /\ SumFunctionOnSet(f, T) = f[x] + SumFunctionOnSet(f, T \ {x})
          /\ SumFunctionOnSet(g, T) = g[x] + SumFunctionOnSet(g, T \ {x})
      BY <2>2, <2>3, SumTakeOut
    <3>3. /\ SumFunctionOnSet(f, T \ {x}) \in Int
          /\ SumFunctionOnSet(g, T \ {x}) \in Int
          /\ f[x] \in Int /\ g[x] \in Int /\ f[x] <= k - g[x]
      BY <2>2, <2>3, FS_RemoveElement, SumInt
    <3>4. Cardinality(T \ {x}) = Cardinality(T) - 1
      BY <2>3, FS_RemoveElement, Zenon
    <3>5. (Cardinality(T) - 1) * k = Cardinality(T) * k - k
      BY <2>3
    <3>6. Good(T)
      <4> HIDE DEF Bad
      <4> DEFINE n == Cardinality(T) * k
      <4>1. n \in Int
        BY <2>3
      <4> HIDE DEF n
      <4>2. SumFunctionOnSet(f, T \ {x}) <= n - k - SumFunctionOnSet(g, T \ {x})
        BY <3>1, <3>4, <3>5 DEF n
      <4>3. SumFunctionOnSet(f, T) <= n - SumFunctionOnSet(g, T)
        BY <3>2, <3>3, <4>1, <4>2
      <4> QED BY <4>3 DEF n
    <3> QED BY <2>2, <3>6
  <2> QED BY <2>4, <2>5
<1>3. Good(C)
  BY <1>2
<1> QED BY <1>3

(* A finite set that is not empty has a best element, for any relation     *)
(* that is total and transitive on it.                                     *)
LEMMA BestExists ==
  ASSUME NEW S, IsFiniteSet(S), S # {}, NEW R,
         \A a, b \in S : a # b => <<a, b>> \in R \/ <<b, a>> \in R,
         \A a, b, c \in S : <<a, b>> \in R /\ <<b, c>> \in R => <<a, c>> \in R
  PROVE  \E b \in S : \A c \in S \ {b} : <<b, c>> \in R
<1> DEFINE Good(T) == T # {} => \E b \in T : \A c \in T \ {b} : <<b, c>> \in R
           Bad == {T \in SUBSET S : ~Good(T)}
<1>1. Bad \subseteq SUBSET S
  OBVIOUS
<1>2. ASSUME Bad # {} PROVE FALSE
  <2>1. PICK T \in Bad : \A U \in Bad : U \subseteq T => U = T
    <3> HIDE DEF Bad
    <3> QED BY <1>1, <1>2, MinimalSet
  <2>2. T \in SUBSET S /\ ~Good(T)
    BY <2>1
  <2>3. PICK x \in T : TRUE
    BY <2>2
  <2>4. Good(T \ {x})
    <3>1. T \ {x} \notin Bad
      <4> HIDE DEF Bad
      <4> QED BY <2>1, <2>3
    <3>2. T \ {x} \in SUBSET S
      BY <2>2
    <3> HIDE DEF Good
    <3> QED BY <3>1, <3>2
  <2>5. CASE T \ {x} = {}
    BY <2>2, <2>3, <2>5
  <2>6. CASE T \ {x} # {}
    <3>1. PICK b \in T \ {x} : \A c \in (T \ {x}) \ {b} : <<b, c>> \in R
      BY <2>4, <2>6, Zenon
    <3>2. CASE <<b, x>> \in R
      BY <2>2, <3>1, <3>2, Zenon
    <3>3. CASE <<x, b>> \in R
      BY <2>2, <2>3, <3>1, <3>3, Zenon
    <3> QED BY <2>2, <2>3, <3>1, <3>2, <3>3
  <2> QED BY <2>5, <2>6
<1>3. Good(S)
  BY <1>2
<1> QED BY <1>3

=============================================================================
