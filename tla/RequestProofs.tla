--------------------------- MODULE RequestProofs ----------------------------
(***************************************************************************)
(* Proofs about what decides over a request to a backend and what is       *)
(* counted while it lasts: the circuit breaker, for every threshold,       *)
(* duration, probe limit and finite set of requests; the health checker's  *)
(* hysteresis, for every pair of thresholds and every set of backends; and *)
(* the accounts of an HTTP listener, for every finite set of connections,  *)
(* backends and balancers, any limits and any retry ratio.                 *)
(*                                                                         *)
(* The three components are independent, and no statement is about more    *)
(* than one of them.                                                       *)
(***************************************************************************)
EXTENDS Breaker, HealthChecker, HTTPRequests, SumProofs

-----------------------------------------------------------------------------
(* The circuit breaker.                                                    *)

(* The inductive invariant.  The counters mean something only in one state *)
(* each: failures are counted while closed, probes while half-open.        *)
IInv ==
  /\ TypeOK
  /\ FlagMirrorsState
  /\ ProbesAccounted
  /\ state = "closed" => consecutiveFail < FailureThreshold
  /\ state # "closed" => consecutiveFail = 0
  /\ state # "halfopen" => halfOpenProbes = 0

Probing == {r \in Requests : req[r] = "probe"}
Earlier == {r \in Requests : req[r] \in {"normal", "stale"}}

(* Letting one more request through as a probe adds one to the probes in   *)
(* flight (Allow in the half-open state and on leaving the open state).    *)
LEMMA OneMoreProbe ==
  ASSUME TypeOK, NEW r \in Requests, req[r] = "idle",
         req' = [req EXCEPT ![r] = "probe"]
  PROVE  Cardinality(Probing') = Cardinality(Probing) + 1
<1>1. Probing' = Probing \cup {r} /\ r \notin Probing
  BY DEF Probing, TypeOK
<1>2. IsFiniteSet(Probing)
  BY BreakerAssumption, FS_Subset DEF Probing
<1> QED BY <1>1, <1>2, FS_AddElement, Zenon

(* Once the breaker leaves half-open no request counts as its probe: the   *)
(* probes join the earlier requests, without the one that decided.         *)
LEMMA RetiredHasNoProbe ==
  ASSUME TypeOK, NEW r \in Requests, req' = Retired(r)
  PROVE  /\ Probing' = {} /\ req' \in [Requests -> ReqKinds]
         /\ Earlier' = (Earlier \cup Probing) \ {r}
  BY DEF Retired, TypeOK, ReqKinds, Probing, Earlier

(* While the breaker is not half-open there is no probe, so a request that *)
(* finishes was an earlier one.                                            *)
LEMMA FinishedWasEarlier ==
  ASSUME IInv, state # "halfopen", NEW r \in Requests, InFlight(r), req' = Finished(r)
  PROVE  /\ Probing = {} /\ Probing' = {} /\ req' \in [Requests -> ReqKinds]
         /\ r \in Earlier /\ Earlier' = Earlier \ {r}
<1>1. req \in [Requests -> ReqKinds] /\ Probing = {}
  BY DEF IInv, TypeOK, ProbesAccounted, Probing
<1>2. req[r] \in {"normal", "stale"}
  BY <1>1 DEF Probing, InFlight, ReqKinds
<1> QED BY <1>1, <1>2 DEF Finished, Probing, Earlier, ReqKinds

(* What a request has observed stays in its type.                          *)
LEMMA ResultType ==
  ASSUME TypeOK, NEW r \in Requests, Answered(r) \/ result' = Reported(r) \/ UNCHANGED result
  PROVE  result' \in [Requests -> Results]
<1>1. result \in [Requests -> Results]
  BY DEF TypeOK
<1>2. CASE Answered(r)
  <2>1. (IF up THEN "success" ELSE "failure") \in Results
    BY Zenon DEF Results
  <2> QED BY <1>1, <1>2, <2>1, Zenon DEF Answered
<1>3. CASE result' = Reported(r)
  BY <1>1, <1>3, Zenon DEF Reported, Results
<1> QED BY <1>1, <1>2, <1>3, Zenon

(* The invariant at the start.                                             *)
LEMMA InitInv == Init => IInv
<1> SUFFICES ASSUME Init PROVE IInv
  OBVIOUS
<1>1. TypeOK
  <2>1. circuitOpen \in BOOLEAN /\ up \in BOOLEAN
    BY Zenon DEF Init
  <2> QED BY <2>1, BreakerAssumption DEF Init, TypeOK, States, ReqKinds, Results
<1>2. ProbesAccounted
  BY DEF Init, ProbesAccounted
<1> QED BY <1>1, <1>2, BreakerAssumption DEF Init, IInv, FlagMirrorsState

(* RecordSuccess keeps the invariant.                                      *)
LEMMA SuccessInv ==
  ASSUME IInv, NEW r \in Requests, RecordSuccess(r)
  PROVE  IInv'
<1> USE BreakerAssumption
<1>0. result' \in [Requests -> Results]
  BY ResultType, Zenon DEF RecordSuccess, IInv
<1>1. CASE state = "halfopen"
  <2>1. req' = Retired(r) /\ state' = "closed"
    BY <1>1 DEF RecordSuccess
  <2>2. Probing' = {} /\ req' \in [Requests -> ReqKinds]
    BY <2>1, RetiredHasNoProbe, Zenon DEF IInv
  <2>3. circuitOpen' = FALSE /\ circuitOpen' \in BOOLEAN /\ (circuitOpen' <=> FALSE)
    BY <1>1, Zenon DEF RecordSuccess
  <2> QED BY <1>0, <1>1, <2>1, <2>2, <2>3
      DEF RecordSuccess, IInv, TypeOK, States, FlagMirrorsState, ProbesAccounted, Probing
<1>2. CASE state # "halfopen"
  <2>1. req' = Finished(r) /\ InFlight(r)
    BY <1>2 DEF RecordSuccess
  <2>2. Probing' = {} /\ req' \in [Requests -> ReqKinds]
    BY <1>2, <2>1, FinishedWasEarlier, Zenon
  <2> QED BY <1>0, <1>2, <2>2
      DEF RecordSuccess, breaker, IInv, TypeOK, States, FlagMirrorsState, ProbesAccounted, Probing
<1> QED BY <1>1, <1>2

(* RecordFailure keeps the invariant.                                      *)
LEMMA FailureInv ==
  ASSUME IInv, NEW r \in Requests, RecordFailure(r)
  PROVE  IInv'
<1> USE BreakerAssumption
<1>0. result' \in [Requests -> Results]
  BY ResultType, Zenon DEF RecordFailure, IInv
<1>1. CASE state = "halfopen"
  <2>1. req' = Retired(r)
    BY <1>1 DEF RecordFailure
  <2>2. Probing' = {} /\ req' \in [Requests -> ReqKinds]
    BY <2>1, RetiredHasNoProbe, Zenon DEF IInv
  <2>3. circuitOpen' = TRUE /\ circuitOpen' \in BOOLEAN
    BY <1>1 DEF RecordFailure, openCircuit
  <2> QED BY <1>0, <1>1, <2>2, <2>3
      DEF RecordFailure, openCircuit, IInv, TypeOK, States, FlagMirrorsState, ProbesAccounted, Probing
<1>2. CASE state # "halfopen"
  <2>1. req' = Finished(r) /\ InFlight(r)
    BY <1>2 DEF RecordFailure
  <2>2. Probing' = {} /\ req' \in [Requests -> ReqKinds]
    BY <1>2, <2>1, FinishedWasEarlier, Zenon
  <2>3. (circuitOpen' = TRUE /\ circuitOpen' \in BOOLEAN /\ state' = "open") \/ UNCHANGED <<circuitOpen, state>>
    BY <1>2, Zenon DEF RecordFailure, openCircuit, breaker
  <2>4. circuitOpen' \in BOOLEAN /\ FlagMirrorsState'
    BY <2>3 DEF FlagMirrorsState, IInv, TypeOK
  <2> QED BY <1>0, <1>2, <2>2, <2>4
      DEF RecordFailure, openCircuit, breaker, IInv, TypeOK, States, ProbesAccounted,
          Probing
<1> QED BY <1>1, <1>2

(* Allow keeps the invariant.                                              *)
LEMMA AllowInv ==
  ASSUME IInv, NEW r \in Requests, Allow(r)
  PROVE  IInv'
<1> USE BreakerAssumption
<1>1. CASE state = "closed"
  <2>1. Probing' = {} /\ req' \in [Requests -> ReqKinds]
    BY <1>1 DEF Allow, Probing, IInv, TypeOK, ProbesAccounted, ReqKinds
  <2> QED BY <1>1, <2>1
      DEF Allow, breaker, IInv, TypeOK, FlagMirrorsState, ProbesAccounted, Probing
<1>2. CASE state # "closed"
  <2>1. req' = [req EXCEPT ![r] = "probe"] /\ req[r] = "idle"
    BY <1>2 DEF Allow, InFlight
  <2>2. Cardinality(Probing') = Cardinality(Probing) + 1
    BY <2>1, OneMoreProbe, Zenon DEF IInv
  <2>3. Cardinality(Probing) = halfOpenProbes
    BY <1>2, FS_EmptySet DEF IInv, ProbesAccounted, Probing, TypeOK, States
  <2>4. state' = "halfopen" /\ halfOpenProbes' = halfOpenProbes + 1
    BY <1>2 DEF Allow, IInv, TypeOK, States
  <2>5. ProbesAccounted'
    BY <2>2, <2>3, <2>4 DEF ProbesAccounted, Probing
  <2>6. req' \in [Requests -> ReqKinds]
    BY <2>1 DEF IInv, TypeOK, ReqKinds
  <2>7. circuitOpen' \in BOOLEAN /\ FlagMirrorsState'
    <3>1. (circuitOpen' = FALSE /\ circuitOpen' \in BOOLEAN) \/ (state = "halfopen" /\ circuitOpen' = circuitOpen)
      BY <1>2, Zenon DEF Allow
    <3> QED BY <2>4, <3>1 DEF FlagMirrorsState, IInv, TypeOK
  <2> QED BY <1>2, <2>4, <2>5, <2>6, <2>7
      DEF Allow, IInv, TypeOK, States
<1> QED BY <1>1, <1>2

(* So do the answers, the clock, a reader of the state and the backend.    *)
LEMMA OtherInv ==
  ASSUME IInv, (\E r \in Requests : Answered(r)) \/ State \/ Tick \/ BackendFlips \/ UNCHANGED vars
  PROVE  IInv'
<1> USE BreakerAssumption
<1>1. CASE State
  <2>1. Probing' = {} /\ Cardinality({}) = 0
    BY <1>1, FS_EmptySet DEF State, Probing, IInv, ProbesAccounted
  <2> QED BY <1>1, <2>1, Zenon
      DEF State, IInv, TypeOK, States, FlagMirrorsState, ProbesAccounted, Probing
<1>2. CASE Tick
  BY <1>2 DEF Tick, IInv, TypeOK, FlagMirrorsState, ProbesAccounted
<1>3. CASE BackendFlips
  BY <1>3 DEF BackendFlips, breaker, IInv, TypeOK, FlagMirrorsState, ProbesAccounted
<1>4. CASE UNCHANGED vars
  BY <1>4 DEF vars, IInv, TypeOK, FlagMirrorsState, ProbesAccounted
<1>5. ASSUME NEW r \in Requests, Answered(r) PROVE IInv'
  <2>1. result' \in [Requests -> Results]
    BY <1>5, ResultType, Zenon DEF IInv
  <2> QED BY <1>5, <2>1, Zenon DEF Answered, breaker, IInv, TypeOK, FlagMirrorsState, ProbesAccounted
<1> QED BY <1>1, <1>2, <1>3, <1>4, <1>5

(* Every step keeps the invariant.                                         *)
LEMMA StepInv == IInv /\ [Next]_vars => IInv'
  BY SuccessInv, FailureInv, AllowInv, OtherInv DEF Next

(* The breaker's invariant holds in every state: its variables stay in     *)
(* their types, the flag the balancers read agrees with the state under    *)
(* the mutex, and the probe counter is the number of undecided probes.     *)
THEOREM BreakerInvariant == Spec => [](TypeOK /\ BreakerAccounts)
<1>1. IInv => TypeOK /\ BreakerAccounts
  BY DEF IInv, BreakerAccounts
<1> QED BY InitInv, StepInv, <1>1, PTL DEF Spec

-----------------------------------------------------------------------------
(* The breaker and the machine of its documents.                           *)

(* The documented machine's variables, as the breaker has them.            *)
phases == <<state, consecutiveFail, age, Probing, Earlier>>

(* A request let through is an earlier one later, the probe that ends a    *)
(* cool-down, or one more probe within the bound.                          *)
LEMMA AllowIsDocumented ==
  ASSUME IInv, NEW r \in Requests, Allow(r)
  PROVE  Phases!LetThrough(r) \/ Phases!CoolDown \/ Phases!Probe(r)
<1>0. req \in [Requests -> ReqKinds] /\ req[r] = "idle" /\ r \notin Probing \cup Earlier
  BY DEF IInv, TypeOK, Allow, InFlight, Probing, Earlier
<1>1. CASE state = "closed"
  <2>1. Earlier' = Earlier \cup {r} /\ Probing' = Probing
    BY <1>0, <1>1 DEF Allow, Probing, Earlier
  <2> QED BY <1>0, <1>1, <2>1 DEF Phases!LetThrough, Allow, breaker, Probing, Earlier
<1>2. CASE state # "closed"
  <2>1. Probing' = Probing \cup {r} /\ Earlier' = Earlier
    BY <1>0, <1>2 DEF Allow, Probing, Earlier
  <2>2. CASE state = "open"
    <3>1. Probing' = {r}
      BY <2>1, <2>2 DEF IInv, ProbesAccounted, Probing
    <3>2. /\ age >= OpenDuration /\ state' = "halfopen" /\ UNCHANGED <<consecutiveFail, age>>
      BY <2>2 DEF Allow
    <3> QED BY <1>0, <2>1, <2>2, <3>1, <3>2, Zenon DEF Phases!CoolDown, Probing, Earlier
  <2>3. CASE state = "halfopen"
    <3>1. Cardinality(Probing) < HalfOpenMaxProbes
      BY <2>3 DEF Allow, IInv, ProbesAccounted, Probing
    <3>2. UNCHANGED <<state, consecutiveFail, age>>
      BY <2>3 DEF Allow
    <3>3. Phases!Cardinality(Probing) = Cardinality(Probing)
      BY Zenon DEF Phases!Cardinality, Cardinality, Phases!IsFiniteSet, IsFiniteSet
    <3> QED BY <1>0, <2>1, <2>3, <3>1, <3>2, <3>3, Zenon DEF Phases!Probe, Probing, Earlier
  <2> QED BY <1>2, <2>2, <2>3 DEF IInv, TypeOK, States
<1> QED BY <1>1, <1>2

(* An outcome reported while half-open decides the episode: settled by a   *)
(* probe, or overtaken by an earlier request.                              *)
LEMMA DecisionIsDocumented ==
  ASSUME IInv, NEW r \in Requests, InFlight(r), state = "halfopen", req' = Retired(r),
         consecutiveFail' = 0,
         \/ state' = "closed" /\ age' = age
         \/ state' = "open" /\ age' = 0
  PROVE  Phases!Settle(r) \/ Phases!Overtake(r)
<1>1. Probing' = {} /\ Earlier' = (Earlier \cup Probing) \ {r}
  BY RetiredHasNoProbe, Zenon DEF IInv
<1>2. r \in Probing \/ r \in Earlier
  BY DEF IInv, TypeOK, ReqKinds, InFlight, Probing, Earlier
<1>3. Phases!Decided(r)
  BY <1>1, Zenon DEF Phases!Decided, Probing, Earlier
<1> QED BY <1>2, <1>3, Zenon DEF Phases!Settle, Phases!Overtake, Probing, Earlier

(* An outcome reported while closed counts, with its threshold; while open *)
(* it is ignored.                                                          *)
LEMMA OutcomeIsDocumented ==
  ASSUME IInv, NEW r \in Requests, RecordSuccess(r) \/ RecordFailure(r)
  PROVE  \/ Phases!Succeed(r) \/ Phases!Fail(r) \/ Phases!Trip(r) \/ Phases!Ignore(r)
         \/ Phases!Settle(r) \/ Phases!Overtake(r)
<1>0. InFlight(r)
  BY DEF RecordSuccess, RecordFailure
<1>1. CASE state = "halfopen"
  <2>1. req' = Retired(r) /\ consecutiveFail' = 0
        /\ ((state' = "closed" /\ age' = age) \/ (state' = "open" /\ age' = 0))
    BY <1>1 DEF RecordSuccess, RecordFailure, openCircuit
  <2> QED BY <1>0, <1>1, <2>1, DecisionIsDocumented
<1>2. CASE state # "halfopen"
  <2>1. req' = Finished(r)
    BY <1>2 DEF RecordSuccess, RecordFailure
  <2>2. Probing' = Probing /\ r \in Earlier /\ Earlier' = Earlier \ {r}
    BY <1>0, <1>2, <2>1, FinishedWasEarlier, Zenon
  <2>3. CASE state = "closed" /\ RecordSuccess(r)
    BY <2>2, <2>3 DEF RecordSuccess, Phases!Succeed, Probing, Earlier
  <2>4. CASE state = "closed" /\ RecordFailure(r)
    <3>1. consecutiveFail + 1 < FailureThreshold \/ consecutiveFail + 1 = FailureThreshold
      BY <2>4, BreakerAssumption DEF IInv, TypeOK
    <3>2. CASE consecutiveFail + 1 < FailureThreshold
      <4>1. consecutiveFail' = consecutiveFail + 1 /\ UNCHANGED <<state, age>>
        BY <2>4, <3>2, BreakerAssumption DEF RecordFailure, IInv, TypeOK
      <4> QED BY <2>2, <2>4, <3>2, <4>1, Zenon DEF Phases!Fail, Probing, Earlier
    <3>3. CASE consecutiveFail + 1 = FailureThreshold
      <4>1. state' = "open" /\ consecutiveFail' = 0 /\ age' = 0
        BY <2>4, <3>3, BreakerAssumption DEF RecordFailure, openCircuit, IInv, TypeOK
      <4> QED BY <2>2, <2>4, <3>3, <4>1, Zenon DEF Phases!Trip, Probing, Earlier
    <3> QED BY <3>1, <3>2, <3>3
  <2>5. CASE state = "open"
    <3>1. UNCHANGED <<state, consecutiveFail, age>>
      BY <2>5 DEF RecordSuccess, RecordFailure, breaker
    <3> QED BY <2>2, <2>5, <3>1, Zenon DEF Phases!Ignore, Probing, Earlier
  <2> QED BY <1>2, <2>3, <2>4, <2>5 DEF IInv, TypeOK, States
<1> QED BY <1>1, <1>2

(* Every step of the breaker is a step of the documented machine, with its *)
(* threshold, its cool-down and its bound on probes, or a half-open        *)
(* episode decided by an earlier request, for every setting and any number *)
(* of requests.                                                            *)
THEOREM BreakerRefinesPhases == Spec => ImplementsPhases
<1>1. Init => Phases!Init
  BY Zenon DEF Init, Phases!Init
<1>2. IInv /\ [Next]_vars => [Phases!Next]_(Phases!phases)
  <2> SUFFICES ASSUME IInv, [Next]_vars
               PROVE  Phases!Next \/ UNCHANGED phases
    BY Zenon DEF Phases!phases, phases, Probing, Earlier
  <2>1. ASSUME NEW r \in Requests, Allow(r)
        PROVE  Phases!Next
    BY <2>1, AllowIsDocumented, Zenon DEF Phases!Next
  <2>2. ASSUME NEW r \in Requests, RecordSuccess(r) \/ RecordFailure(r)
        PROVE  Phases!Next
    BY <2>2, OutcomeIsDocumented, Zenon DEF Phases!Next
  <2>3. CASE State
    <3>1. Probing' = {} /\ Earlier' = Earlier
      BY <2>3 DEF State, IInv, ProbesAccounted, Probing, Earlier
    <3>2. Phases!CoolDown
      BY <2>3, <3>1, Zenon DEF State, Phases!CoolDown, Probing, Earlier
    <3> QED BY <3>2, Zenon DEF Phases!Next
  <2>4. CASE Tick
    <3>1. Probing' = Probing /\ Earlier' = Earlier
      BY <2>4 DEF Tick, Probing, Earlier
    <3>2. Phases!Wait
      BY <2>4, <3>1, Zenon DEF Tick, Phases!Wait, Probing, Earlier
    <3> QED BY <3>2, Zenon DEF Phases!Next
  <2>5. CASE (\E r \in Requests : Answered(r)) \/ BackendFlips \/ UNCHANGED vars
    BY <2>5, Zenon DEF Answered, BackendFlips, breaker, vars, phases, Probing, Earlier
  <2> QED BY <2>1, <2>2, <2>3, <2>4, <2>5 DEF Next
<1> QED BY InitInv, StepInv, <1>1, <1>2, PTL DEF Spec, ImplementsPhases, Phases!Spec

-----------------------------------------------------------------------------
(* The health checker.                                                     *)

(* The inductive invariant: the counter that decides the next transition   *)
(* of a backend is the length of the unbroken run of probes that counts    *)
(* towards it, and is below its threshold.  The other counter may hold     *)
(* left-overs (ReportFailure does not clear consecutiveFailure).           *)
Counting(b) ==
  /\ ~healthy[b] => okRun[b] = consecutiveSuccess[b] /\ okRun[b] < HealthyThreshold
  /\ healthy[b] => failRun[b] = consecutiveFailure[b] /\ failRun[b] < UnhealthyThreshold

CheckerInv == CheckerTypeOK /\ \A b \in Targets : Counting(b)

Counters(b) == <<healthy[b], consecutiveSuccess[b], consecutiveFailure[b], okRun[b], failRun[b]>>

(* Every backend begins healthy, with nothing counted.                     *)
LEMMA InitChecker == CheckerInit => CheckerInv
<1> SUFFICES ASSUME CheckerInit PROVE CheckerInv
  OBVIOUS
<1>1. /\ healthy \in [Targets -> BOOLEAN] /\ report \in [Targets -> BOOLEAN]
      /\ cancelled \in BOOLEAN /\ alive \in [Targets -> BOOLEAN]
  BY Zenon DEF CheckerInit
<1>2. CheckerTypeOK
  BY <1>1, HealthAssumption DEF CheckerInit, CheckerTypeOK, ProbeStates
<1>3. \A b \in Targets : healthy[b] /\ failRun[b] = 0 /\ consecutiveFailure[b] = 0
  BY DEF CheckerInit
<1> QED BY <1>2, <1>3, HealthAssumption DEF CheckerInv, Counting

(* A backend whose counters a step leaves alone keeps counting.            *)
LEMMA UntouchedCounts ==
  ASSUME NEW b \in Targets, Counting(b), UNCHANGED Counters(b)
  PROVE  Counting(b)'
  BY DEF Counting, Counters

(* A counter stays within its cap.                                         *)
LEMMA BumpType == \A n \in 0 .. CounterCap : Bump(n) \in 0 .. CounterCap
  BY HealthAssumption DEF Bump

(* runCheck applies a probe that succeeded.                                *)
LEMMA ApplySuccessInv ==
  ASSUME CheckerInv, NEW b \in Targets, ApplySuccess(b)
  PROVE  CheckerInv'
<1> USE HealthAssumption DEF CheckerInv
<1>1. CheckerTypeOK'
  <2>1. healthy' \in [Targets -> BOOLEAN]
    BY DEF ApplySuccess, CheckerTypeOK
  <2>2. Bump(consecutiveSuccess[b]) \in 0 .. CounterCap /\ Bump(okRun[b]) \in 0 .. CounterCap
    BY BumpType DEF CheckerTypeOK
  <2>3. consecutiveSuccess' \in [Targets -> 0 .. CounterCap]
    BY <2>2 DEF ApplySuccess, CheckerTypeOK
  <2>4. okRun' \in [Targets -> 0 .. CounterCap] /\ failRun' \in [Targets -> 0 .. CounterCap]
    BY <2>2 DEF ApplySuccess, CheckerTypeOK
  <2>5. consecutiveFailure' \in [Targets -> 0 .. CounterCap] /\ probe' \in [Targets -> ProbeStates]
    BY DEF ApplySuccess, CheckerTypeOK, ProbeStates
  <2> QED BY <2>1, <2>3, <2>4, <2>5 DEF ApplySuccess, CheckerTypeOK
<1>2. Counting(b)'
  <2>1. CASE healthy[b]
    <3>1. healthy'[b] = TRUE /\ consecutiveFailure'[b] = 0 /\ failRun'[b] = 0
      BY <2>1 DEF ApplySuccess, CheckerTypeOK
    <3> QED BY <3>1 DEF Counting
  <2>2. CASE ~healthy[b] /\ Bump(consecutiveSuccess[b]) >= HealthyThreshold
    <3>1. healthy'[b] = TRUE /\ consecutiveFailure'[b] = 0 /\ failRun'[b] = 0
      BY <2>2, Zenon DEF ApplySuccess, CheckerTypeOK
    <3> QED BY <3>1 DEF Counting
  <2>3. CASE ~healthy[b] /\ ~(Bump(consecutiveSuccess[b]) >= HealthyThreshold)
    <3>1. /\ ~healthy'[b]
          /\ consecutiveSuccess'[b] = Bump(consecutiveSuccess[b])
          /\ okRun'[b] = Bump(okRun[b])
      BY <2>3 DEF ApplySuccess, CheckerTypeOK
    <3> QED BY <2>3, <3>1, BumpType DEF Counting, CheckerTypeOK
  <2> QED BY <2>1, <2>2, <2>3
<1>3. \A c \in Targets \ {b} : Counting(c)'
  <2>1. \A c \in Targets \ {b} : UNCHANGED Counters(c)
    BY DEF ApplySuccess, CheckerTypeOK, Counters
  <2> QED BY <2>1, UntouchedCounts, Zenon
<1> QED BY <1>1, <1>2, <1>3, Zenon

(* runCheck applies a probe that failed.                                   *)
LEMMA ApplyFailureInv ==
  ASSUME CheckerInv, NEW b \in Targets, ApplyFailure(b)
  PROVE  CheckerInv'
<1> USE HealthAssumption DEF CheckerInv
<1>1. CheckerTypeOK'
  <2>1. healthy' \in [Targets -> BOOLEAN]
    BY DEF ApplyFailure, CheckerTypeOK
  <2>2. Bump(consecutiveFailure[b]) \in 0 .. CounterCap /\ Bump(failRun[b]) \in 0 .. CounterCap
    BY BumpType, Zenon DEF CheckerTypeOK
  <2>3. consecutiveFailure' \in [Targets -> 0 .. CounterCap]
    BY <2>2 DEF ApplyFailure, CheckerTypeOK
  <2>4. okRun' \in [Targets -> 0 .. CounterCap] /\ failRun' \in [Targets -> 0 .. CounterCap]
    BY <2>2 DEF ApplyFailure, CheckerTypeOK
  <2>5. consecutiveSuccess' \in [Targets -> 0 .. CounterCap] /\ probe' \in [Targets -> ProbeStates]
    BY DEF ApplyFailure, CheckerTypeOK, ProbeStates
  <2> QED BY <2>1, <2>3, <2>4, <2>5 DEF ApplyFailure, CheckerTypeOK
<1>2. Counting(b)'
  <2>1. CASE ~healthy[b]
    <3>1. ~healthy'[b] /\ consecutiveSuccess'[b] = 0 /\ okRun'[b] = 0
      BY <2>1 DEF ApplyFailure, CheckerTypeOK
    <3> QED BY <3>1 DEF Counting
  <2>2. CASE healthy[b] /\ Bump(consecutiveFailure[b]) >= UnhealthyThreshold
    <3>1. ~healthy'[b] /\ consecutiveSuccess'[b] = 0 /\ okRun'[b] = 0
      BY <2>2, Zenon DEF ApplyFailure, CheckerTypeOK
    <3> QED BY <3>1 DEF Counting
  <2>3. CASE healthy[b] /\ ~(Bump(consecutiveFailure[b]) >= UnhealthyThreshold)
    <3>1. /\ healthy'[b] = TRUE
          /\ consecutiveFailure'[b] = Bump(consecutiveFailure[b])
          /\ failRun'[b] = Bump(failRun[b])
      BY <2>3 DEF ApplyFailure, CheckerTypeOK
    <3> QED BY <2>3, <3>1, BumpType DEF Counting, CheckerTypeOK
  <2> QED BY <2>1, <2>2, <2>3
<1>3. \A c \in Targets \ {b} : Counting(c)'
  <2>1. \A c \in Targets \ {b} : UNCHANGED Counters(c)
    BY DEF ApplyFailure, CheckerTypeOK, Counters
  <2> QED BY <2>1, UntouchedCounts, Zenon
<1> QED BY <1>1, <1>2, <1>3, Zenon

(* A client's failed dial takes the backend out and clears its successes.  *)
LEMMA ReportFailureInv ==
  ASSUME CheckerInv, NEW b \in Targets, ReportFailure(b)
  PROVE  CheckerInv'
<1> USE HealthAssumption DEF CheckerInv
<1>1. CheckerTypeOK'
  <2>1. report' \in [Targets -> BOOLEAN] /\ healthy' \in [Targets -> BOOLEAN]
    BY Zenon DEF ReportFailure, CheckerTypeOK
  <2>2. /\ consecutiveSuccess' \in [Targets -> 0 .. CounterCap]
        /\ okRun' \in [Targets -> 0 .. CounterCap] /\ failRun' \in [Targets -> 0 .. CounterCap]
    BY DEF ReportFailure, CheckerTypeOK, history
  <2> QED BY <2>1, <2>2 DEF ReportFailure, CheckerTypeOK
<1>2. Counting(b)'
  <2>1. CASE healthy[b]
    <3>1. ~healthy'[b] /\ consecutiveSuccess'[b] = 0 /\ okRun'[b] = 0
      BY <2>1 DEF ReportFailure, CheckerTypeOK
    <3> QED BY <3>1 DEF Counting
  <2>2. CASE ~healthy[b]
    BY <2>2, UntouchedCounts DEF ReportFailure, history, Counters
  <2> QED BY <2>1, <2>2
<1>3. \A c \in Targets \ {b} : Counting(c)'
  <2>1. \A c \in Targets \ {b} : UNCHANGED Counters(c)
    BY DEF ReportFailure, CheckerTypeOK, Counters, history
  <2> QED BY <2>1, UntouchedCounts, Zenon
<1> QED BY <1>1, <1>2, <1>3, Zenon

(* The other steps leave the flags and the counters alone.                 *)
LEMMA OtherChecks ==
  ASSUME CheckerInv,
         \/ \E b \in Targets : \/ TickerFires(b) \/ ContextDone(b) \/ checkTCP(b)
                                \/ ClientDialFails(b) \/ AliveFlips(b)
         \/ Stop
         \/ UNCHANGED checkerVars
  PROVE  CheckerInv' /\ UNCHANGED healthy
<1>1. UNCHANGED <<health, history>>
  BY DEF TickerFires, ContextDone, checkTCP, ClientDialFails, AliveFlips, Stop, checkerVars, health, history
<1>2. /\ probe' \in [Targets -> ProbeStates] /\ report' \in [Targets -> BOOLEAN]
      /\ cancelled' \in BOOLEAN /\ alive' \in [Targets -> BOOLEAN]
  BY Zenon DEF CheckerInv, CheckerTypeOK, ProbeStates, TickerFires, ContextDone, checkTCP, ClientDialFails,
         AliveFlips, Stop, checkerVars
<1>3. CheckerTypeOK'
  BY <1>1, <1>2 DEF CheckerInv, CheckerTypeOK, health, history
<1> QED BY <1>1, <1>3, UntouchedCounts, Zenon DEF CheckerInv, health, history, Counters

(* Every step of the checker keeps the invariant.                          *)
LEMMA StepChecker == CheckerInv /\ [CheckerNext]_checkerVars => CheckerInv'
  BY ApplySuccessInv, ApplyFailureInv, ReportFailureInv, OtherChecks DEF CheckerNext, Prober

(* Every variable of the checker stays in its type: the counters never     *)
(* leave 0 .. CounterCap, whatever the order of probes and reports.        *)
THEOREM CheckerTypes == CheckerSpec => []CheckerTypeOK
<1>1. CheckerInit => CheckerInv
  BY InitChecker
<1>2. CheckerInv /\ [CheckerNext]_checkerVars => CheckerInv'
  BY StepChecker
<1>3. CheckerInv => CheckerTypeOK
  BY DEF CheckerInv
<1> QED BY <1>1, <1>2, <1>3, PTL DEF CheckerSpec

(* A backend turns healthy only after HealthyThreshold successful probes   *)
(* in a row, applied by runCheck while it was unhealthy.                   *)
LEMMA StepRecovery == CheckerInv /\ [CheckerNext]_checkerVars => \A b \in Targets : RecoveryEarned(b)
<1> DEFINE Earned == \A b \in Targets : ~healthy[b] /\ healthy'[b] => okRun'[b] >= HealthyThreshold
<1>1. CheckerInv /\ [CheckerNext]_checkerVars => Earned
  <2> SUFFICES ASSUME CheckerInv, [CheckerNext]_checkerVars PROVE Earned
    OBVIOUS
  <2>1. ASSUME NEW c \in Targets, ApplySuccess(c)  PROVE Earned
    <3>1. \A b \in Targets \ {c} : healthy'[b] = healthy[b]
      BY <2>1 DEF ApplySuccess, CheckerInv, CheckerTypeOK
    <3>2. CASE ~healthy[c] /\ healthy'[c]
      <4>1. Bump(consecutiveSuccess[c]) >= HealthyThreshold
        BY <2>1, <3>2, Zenon DEF ApplySuccess, CheckerInv, CheckerTypeOK
      <4>2. okRun'[c] = Bump(okRun[c]) /\ okRun[c] = consecutiveSuccess[c]
        BY <2>1, <3>2, Zenon DEF ApplySuccess, CheckerInv, CheckerTypeOK, Counting
      <4> QED BY <3>1, <4>1, <4>2, Zenon
    <3> QED BY <3>1, <3>2, Zenon
  <2>2. ASSUME NEW c \in Targets, ApplyFailure(c)  PROVE Earned
    BY <2>2, Zenon DEF ApplyFailure, CheckerInv, CheckerTypeOK
  <2>3. ASSUME NEW c \in Targets, ReportFailure(c)  PROVE Earned
    BY <2>3 DEF ReportFailure, CheckerInv, CheckerTypeOK
  <2>4. CASE UNCHANGED healthy
    BY <2>4
  <2> QED BY <2>1, <2>2, <2>3, <2>4, OtherChecks, Zenon DEF CheckerNext, Prober
<1> QED BY <1>1, Zenon DEF RecoveryEarned

(* Probing takes a backend out only after UnhealthyThreshold failed probes *)
(* in a row, applied by runCheck while it was healthy; otherwise it was a  *)
(* client's failed dial, through ReportFailure.                            *)
LEMMA StepRemoval == CheckerInv /\ [CheckerNext]_checkerVars => \A b \in Targets : RemovalEarned(b)
<1> DEFINE Earned == \A b \in Targets :
                       healthy[b] /\ ~healthy'[b] =>
                         \/ failRun'[b] >= UnhealthyThreshold
                         \/ report[b] /\ ~report'[b]
<1>1. CheckerInv /\ [CheckerNext]_checkerVars => Earned
  <2> SUFFICES ASSUME CheckerInv, [CheckerNext]_checkerVars PROVE Earned
    OBVIOUS
  <2>1. ASSUME NEW c \in Targets, ApplyFailure(c)  PROVE Earned
    <3>1. \A b \in Targets \ {c} : healthy'[b] = healthy[b]
      BY <2>1, Zenon DEF ApplyFailure, CheckerInv, CheckerTypeOK
    <3>2. CASE healthy[c] /\ ~healthy'[c]
      <4>1. Bump(consecutiveFailure[c]) >= UnhealthyThreshold
        BY <2>1, <3>2, Zenon DEF ApplyFailure, CheckerInv, CheckerTypeOK
      <4>2. failRun'[c] = Bump(failRun[c]) /\ failRun[c] = consecutiveFailure[c]
        BY <2>1, <3>2, Zenon DEF ApplyFailure, CheckerInv, CheckerTypeOK, Counting
      <4> QED BY <3>1, <4>1, <4>2, Zenon
    <3> QED BY <3>1, <3>2, Zenon
  <2>2. ASSUME NEW c \in Targets, ApplySuccess(c)  PROVE Earned
    BY <2>2, Zenon DEF ApplySuccess, CheckerInv, CheckerTypeOK
  <2>3. ASSUME NEW c \in Targets, ReportFailure(c)  PROVE Earned
    <3>1. \A b \in Targets \ {c} : healthy'[b] = healthy[b]
      BY <2>3, Zenon DEF ReportFailure, CheckerInv, CheckerTypeOK
    <3>2. report[c] /\ ~report'[c]
      BY <2>3 DEF ReportFailure, CheckerInv, CheckerTypeOK
    <3> QED BY <3>1, <3>2, Zenon
  <2>4. CASE UNCHANGED healthy
    BY <2>4
  <2> QED BY <2>1, <2>2, <2>3, <2>4, OtherChecks, Zenon DEF CheckerNext, Prober
<1> QED BY <1>1, Zenon DEF RemovalEarned

(* Every change of the flag that Pick reads has been earned, in any order  *)
(* of probe results and client reports.                                    *)
THEOREM ChangesEarned == CheckerSpec => ChangesAreEarned
<1>1. CheckerInit => CheckerInv
  BY InitChecker
<1>2. CheckerInv /\ [CheckerNext]_checkerVars => CheckerInv'
  BY StepChecker
<1>3. CheckerInv /\ [CheckerNext]_checkerVars
        => [\A b \in Targets : RecoveryEarned(b) /\ RemovalEarned(b)]_checkerVars
  BY StepRecovery, StepRemoval
<1> QED BY <1>1, <1>2, <1>3, PTL DEF CheckerSpec, ChangesAreEarned

-----------------------------------------------------------------------------
(* The accounts of an HTTP listener.                                       *)

(* The requests that hold a backend through one balancer, and the open     *)
(* connections.                                                            *)
Holders(g, b) == HeldBy(g) \cap At(b)
Open == {c \in HTTPConns : httpConn[c] = "open"}

(* What the stage of a request says about its record.  A failed attempt is *)
(* counted before the budget is asked, so that of n attempts made at most  *)
(* n - 1 were asked for, and a request whose window has not run out is in  *)
(* its first attempt, or has failed once and not asked yet.                *)
Handling(c) ==
  LET r == request[c] IN
  /\ r.stage \in {"buffering", "retrying"} => retries
  /\ r.stage # "none" => r.gen \in Gens
  /\ r.stage \in InFlightStages \cup {"retrying"} => r.backend \in Backends
  /\ r.stage \in {"none", "directing", "buffering"} => r.attempt = 0 /\ r.failed = 0 /\ r.asked = 0
  /\ r.stage = "sending" => r.attempt < MaxAttempts /\ r.failed <= r.attempt /\ r.asked <= r.attempt
  /\ r.stage = "retrying" => r.failed <= r.attempt /\ r.asked < r.attempt
  /\ r.stage \in {"sending", "streaming"} /\ ~r.renewed => r.attempt = 0
  /\ r.stage = "retrying" /\ ~r.renewed => r.failed = 1 /\ r.asked = 0

Exact ==
  \A b \in Backends :
    /\ \A g \in Gens : count[g][b] = Cardinality(Holders(g, b))
    /\ gauge[b] <= Cardinality(At(b))
    /\ b \notin cleaned => gauge[b] = Cardinality(At(b))

Covered == \A g \in Gens : SumFunctionOnSet(count[g], Backends) >= Cardinality(HeldBy(g))

RequestInv ==
  /\ HTTPTypeOK
  /\ next # NoUpdate => lb + 1 \in Gens
  /\ httpSem = Cardinality(Open)
  /\ \A c \in HTTPConns : Handling(c)
  /\ drifted => retries
  /\ ~drifted => Exact
  /\ Covered

(* The sum of a function is the sum over its domain.                       *)
LEMMA SumOfAll == \A f : SumFunction(f) = SumFunctionOnSet(f, DOMAIN f)
  BY DEF SumFunction

(* The sets that are counted are finite.                                   *)
LEMMA LoadSets ==
  /\ IsFiniteSet(Open) /\ Cardinality(Open) \in Nat
  /\ \A l : IsFiniteSet(HeldBy(l)) /\ Cardinality(HeldBy(l)) \in Nat
  /\ \A b : IsFiniteSet(At(b)) /\ Cardinality(At(b)) \in Nat
  /\ \A l, b : IsFiniteSet(Holders(l, b)) /\ Cardinality(Holders(l, b)) \in Nat
<1>1. \A S : S \subseteq HTTPConns => IsFiniteSet(S) /\ Cardinality(S) \in Nat
  BY FS_Subset, FS_CardinalityType, HTTPAssumption
<1>2. /\ Open \subseteq HTTPConns
      /\ \A l : HeldBy(l) \subseteq HTTPConns
      /\ \A b : At(b) \subseteq HTTPConns
      /\ \A l, b : Holders(l, b) \subseteq HTTPConns
  BY Zenon DEF Open, HeldBy, At, Holders, Underway
<1> QED BY <1>1, <1>2, Zenon

(* A request that ends, or waits to be retried, is one less.               *)
LEMMA Leaves ==
  ASSUME NEW c \in HTTPConns, request[c].stage \in InFlightStages,
         request'[c].stage \notin InFlightStages, \A d \in HTTPConns \ {c} : request'[d] = request[d]
  PROVE  /\ \A l : Cardinality(HeldBy(l)') = Cardinality(HeldBy(l)) - (IF request[c].gen = l THEN 1 ELSE 0)
         /\ \A b : Cardinality(At(b)') = Cardinality(At(b)) - (IF request[c].backend = b THEN 1 ELSE 0)
         /\ \A l, b : Cardinality(Holders(l, b)')
              = Cardinality(Holders(l, b)) - (IF request[c].gen = l /\ request[c].backend = b THEN 1 ELSE 0)
<1>1. /\ \A l : HeldBy(l)' = HeldBy(l) \ {c} /\ (c \in HeldBy(l) <=> request[c].gen = l)
      /\ \A b : At(b)' = At(b) \ {c} /\ (c \in At(b) <=> request[c].backend = b)
      /\ \A l, b : Holders(l, b)' = Holders(l, b) \ {c}
                   /\ (c \in Holders(l, b) <=> request[c].gen = l /\ request[c].backend = b)
  <2>1. \A l : HeldBy(l)' = HeldBy(l) \ {c} /\ (c \in HeldBy(l) <=> request[c].gen = l)
    BY DEF HeldBy, Underway
  <2>2. \A b : At(b)' = At(b) \ {c} /\ (c \in At(b) <=> request[c].backend = b)
    BY DEF At, Underway
  <2>3. \A l, b : Holders(l, b)' = Holders(l, b) \ {c}
                   /\ (c \in Holders(l, b) <=> request[c].gen = l /\ request[c].backend = b)
    BY DEF HeldBy, At, Holders, Underway
  <2> QED BY <2>1, <2>2, <2>3, Zenon
<1>2. \A S : IsFiniteSet(S) => Cardinality(S \ {c}) = Cardinality(S) - (IF c \in S THEN 1 ELSE 0)
  <2> SUFFICES ASSUME NEW S, IsFiniteSet(S)
               PROVE  Cardinality(S \ {c}) = Cardinality(S) - (IF c \in S THEN 1 ELSE 0)
    BY Zenon
  <2>1. Cardinality(S) \in Nat
    BY FS_CardinalityType, Zenon
  <2>2. CASE c \in S
    <3>1. Cardinality(S \ {c}) = Cardinality(S) - 1
      BY <2>2, FS_RemoveElement, Zenon
    <3> QED BY <2>2, <3>1, Zenon
  <2>3. CASE c \notin S
    <3>1. S \ {c} = S
      BY <2>3, Zenon
    <3>2. Cardinality(S) - 0 = Cardinality(S)
      BY <2>1
    <3> QED BY <2>3, <3>1, <3>2, Zenon
  <2> QED BY <2>2, <2>3, Zenon
<1> QED BY <1>1, <1>2, LoadSets, Zenon

(* A request that is sent is one more.                                     *)
LEMMA Enters ==
  ASSUME NEW c \in HTTPConns, request[c].stage \notin InFlightStages,
         request'[c].stage \in InFlightStages, \A d \in HTTPConns \ {c} : request'[d] = request[d]
  PROVE  /\ \A l : Cardinality(HeldBy(l)') = Cardinality(HeldBy(l)) + (IF request'[c].gen = l THEN 1 ELSE 0)
         /\ \A b : Cardinality(At(b)') = Cardinality(At(b)) + (IF request'[c].backend = b THEN 1 ELSE 0)
         /\ \A l, b : Cardinality(Holders(l, b)')
              = Cardinality(Holders(l, b)) + (IF request'[c].gen = l /\ request'[c].backend = b THEN 1 ELSE 0)
<1>1. /\ \A l : c \notin HeldBy(l) /\ HeldBy(l)' = HeldBy(l) \cup (IF request'[c].gen = l THEN {c} ELSE {})
      /\ \A b : c \notin At(b) /\ At(b)' = At(b) \cup (IF request'[c].backend = b THEN {c} ELSE {})
      /\ \A l, b : c \notin Holders(l, b)
                   /\ Holders(l, b)' = Holders(l, b)
                        \cup (IF request'[c].gen = l /\ request'[c].backend = b THEN {c} ELSE {})
  <2>1. \A l : c \notin HeldBy(l) /\ HeldBy(l)' = HeldBy(l) \cup (IF request'[c].gen = l THEN {c} ELSE {})
    BY Zenon DEF HeldBy, Underway
  <2>2. \A b : c \notin At(b) /\ At(b)' = At(b) \cup (IF request'[c].backend = b THEN {c} ELSE {})
    BY Zenon DEF At, Underway
  <2>3. \A l, b : c \notin Holders(l, b)
                  /\ Holders(l, b)' = Holders(l, b)
                       \cup (IF request'[c].gen = l /\ request'[c].backend = b THEN {c} ELSE {})
    BY DEF HeldBy, At, Holders, Underway
  <2> QED BY <2>1, <2>2, <2>3, Zenon
<1>2. \A S : IsFiniteSet(S) /\ c \notin S => Cardinality(S \cup {c}) = Cardinality(S) + 1
  BY FS_AddElement, Zenon
<1>3. \A S : S \cup {} = S
  BY Zenon
<1>4. \A S : IsFiniteSet(S) => Cardinality(S) \in Nat
  BY FS_CardinalityType, Zenon
<1>5. ASSUME NEW S, NEW P \in BOOLEAN, IsFiniteSet(S), c \notin S
      PROVE  Cardinality(S \cup (IF P THEN {c} ELSE {})) = Cardinality(S) + (IF P THEN 1 ELSE 0)
  <2>1. CASE P BY <1>2, <1>5, <2>1, Zenon
  <2>2. CASE ~P BY <1>3, <1>4, <1>5, <2>2
  <2> QED BY <2>1, <2>2
<1> QED BY <1>1, <1>5, LoadSets, Zenon

(* Otherwise nothing changes.                                              *)
LEMMA Remains ==
  ASSUME \A c \in HTTPConns : \/ request'[c] = request[c]
                          \/ /\ request[c].stage \notin InFlightStages /\ request'[c].stage \notin InFlightStages
                          \/ /\ request[c].stage \in InFlightStages /\ request'[c].stage \in InFlightStages
                             /\ request'[c].gen = request[c].gen /\ request'[c].backend = request[c].backend
  PROVE  /\ \A l : HeldBy(l)' = HeldBy(l)
         /\ \A b : At(b)' = At(b)
         /\ \A l, b : Holders(l, b)' = Holders(l, b)
  BY Zenon DEF HeldBy, At, Holders, Underway

(* LeastConnections.Acquire adds one to the balancer's total.              *)
LEMMA AcquireSum ==
  ASSUME HTTPTypeOK, NEW l \in Gens, NEW b \in Backends, Acquire(l, b)
  PROVE  /\ count' \in [Gens -> [Backends -> Nat]]
         /\ \A k \in Gens, x \in Backends : count'[k][x] = count[k][x] + (IF k = l /\ x = b THEN 1 ELSE 0)
         /\ \A k \in Gens : SumFunctionOnSet(count'[k], Backends)
              = SumFunctionOnSet(count[k], Backends) + (IF k = l THEN 1 ELSE 0)
<1>1. /\ count \in [Gens -> [Backends -> Nat]]
      /\ count' = [count EXCEPT ![l] = [count[l] EXCEPT ![b] = count[l][b] + 1]]
  BY Zenon DEF HTTPTypeOK, PoolTypeOK, Acquire
<1>2. count[l][b] + 1 \in Nat
  BY <1>1
<1>3. count' \in [Gens -> [Backends -> Nat]]
  BY <1>1, <1>2, Zenon
<1>4. \A k \in Gens, x \in Backends : count'[k][x] = count[k][x] + (IF k = l /\ x = b THEN 1 ELSE 0)
  BY <1>1
<1>5. ASSUME NEW k \in Gens
      PROVE  SumFunctionOnSet(count'[k], Backends) = SumFunctionOnSet(count[k], Backends) + (IF k = l THEN 1 ELSE 0)
  <2>1. PICK f : f = count[k]
    BY Zenon
  <2>2. PICK g : g = count'[k]
    BY Zenon
  <2>3. f \in [Backends -> Nat] /\ g \in [Backends -> Nat] /\ IsFiniteSet(Backends)
    BY <1>1, <1>3, <2>1, <2>2, SumOfAll, ServedPoolAssumption, Zenon
  <2>4. \A x \in Backends : g[x] = f[x] + (IF k = l /\ x = b THEN 1 ELSE 0)
    BY <1>4, <2>1, <2>2, Zenon
  <2>5. SumFunctionOnSet(g, Backends) = SumFunctionOnSet(f, Backends) + g[b] - f[b]
    BY <2>3, <2>4, SumUpdate
  <2>6. SumFunctionOnSet(f, Backends) \in Nat
    BY <2>3, SumNat, Zenon
  <2>7. SumFunctionOnSet(g, Backends) = SumFunctionOnSet(f, Backends) + (IF k = l THEN 1 ELSE 0)
    BY <2>3, <2>4, <2>5, <2>6
  <2> QED BY <2>1, <2>2, <2>7, Zenon
<1> QED BY <1>3, <1>4, <1>5, Zenon

(* LeastConnections.Release takes one off at most.                         *)
LEMMA ReleaseSum ==
  ASSUME HTTPTypeOK, NEW l \in Gens, NEW b \in Backends, Release(l, b)
  PROVE  /\ count' \in [Gens -> [Backends -> Nat]]
         /\ \A k \in Gens, x \in Backends :
              count'[k][x] = count[k][x] - (IF k = l /\ x = b /\ count[l][b] > 0 THEN 1 ELSE 0)
         /\ \A k \in Gens : SumFunctionOnSet(count'[k], Backends)
              >= SumFunctionOnSet(count[k], Backends) - (IF k = l THEN 1 ELSE 0)
<1>1. /\ count \in [Gens -> [Backends -> Nat]]
      /\ count' = [count EXCEPT ![l] = [count[l] EXCEPT ![b] = Minus(count[l][b], 1)]]
  BY Zenon DEF HTTPTypeOK, PoolTypeOK, Release
<1>2. /\ Minus(count[l][b], 1) \in Nat
      /\ Minus(count[l][b], 1) = count[l][b] - (IF count[l][b] > 0 THEN 1 ELSE 0)
  <2>1. count[l][b] \in Nat
    BY <1>1
  <2> QED BY <2>1 DEF Minus
<1>3. count' \in [Gens -> [Backends -> Nat]]
  BY <1>1, <1>2, Zenon
<1>4. \A k \in Gens, x \in Backends :
        count'[k][x] = count[k][x] - (IF k = l /\ x = b /\ count[l][b] > 0 THEN 1 ELSE 0)
  BY <1>1, <1>2
<1>5. ASSUME NEW k \in Gens
      PROVE  SumFunctionOnSet(count'[k], Backends) >= SumFunctionOnSet(count[k], Backends) - (IF k = l THEN 1 ELSE 0)
  <2>1. PICK f : f = count[k]
    OBVIOUS
  <2>2. PICK g : g = count'[k]
    OBVIOUS
  <2>3. f \in [Backends -> Nat] /\ g \in [Backends -> Nat] /\ IsFiniteSet(Backends)
    BY <1>1, <1>3, <2>1, <2>2, SumOfAll, ServedPoolAssumption, Zenon
  <2>4. \A x \in Backends : g[x] = f[x] - (IF k = l /\ x = b /\ count[l][b] > 0 THEN 1 ELSE 0)
    BY <1>4, <2>1, <2>2, Zenon
  <2>5. SumFunctionOnSet(g, Backends) = SumFunctionOnSet(f, Backends) + g[b] - f[b]
    BY <2>3, <2>4, SumUpdate
  <2>6. SumFunctionOnSet(f, Backends) \in Nat
    BY <2>3, SumNat, Zenon
  <2>7. SumFunctionOnSet(g, Backends) >= SumFunctionOnSet(f, Backends) - (IF k = l THEN 1 ELSE 0)
    BY <2>3, <2>4, <2>5, <2>6
  <2> QED BY <2>1, <2>2, <2>7, Zenon
<1> QED BY <1>3, <1>4, <1>5, Zenon

(* The invariant at the start.                                             *)
LEMMA InitRequests == PoolInit /\ protocol = "http" /\ HTTPInit => RequestInv
<1> SUFFICES ASSUME PoolInit, protocol = "http", HTTPInit PROVE RequestInv
  BY Zenon
<1>0. PoolTypeOK
  <2>1. 1 \in Gens
    BY ServedPoolAssumption
  <2>2. /\ members \in [Gens -> SUBSET Backends] /\ protocol \in Protocols /\ lb \in Gens
        /\ next \in (SUBSET Backends) \cup {NoUpdate} /\ cleaned \in SUBSET Backends
    BY <2>1, Zenon DEF PoolInit
  <2>3. count \in [Gens -> [Backends -> Nat]] /\ gauge \in [Backends -> Int]
    BY DEF PoolInit
  <2> QED BY <2>2, <2>3, Zenon DEF PoolTypeOK
<1>1. HTTPTypeOK
  <2>1. NoRequest \in [stage : RequestStages, gen : Gens \cup {0}, backend : Backends \cup {0},
                       attempt : 0 .. MaxAttempts, replayable : BOOLEAN, failed : 0 .. MaxAttempts,
                       asked : 0 .. MaxAttempts, renewed : BOOLEAN]
    BY HTTPAssumption DEF NoRequest, RequestStages
  <2>2. retries \in BOOLEAN /\ drifted \in BOOLEAN
    BY Zenon DEF HTTPInit
  <2>3. httpSem \in 0 .. HTTPMaxConn /\ begun \in 0 .. MaxRequests
    BY HTTPAssumption DEF HTTPInit
  <2> QED BY <1>0, <2>1, <2>2, <2>3, Zenon DEF HTTPInit, HTTPTypeOK
<1>2. \A l, b : Open = {} /\ HeldBy(l) = {} /\ At(b) = {} /\ Holders(l, b) = {}
  BY Zenon DEF HTTPInit, NoRequest, InFlightStages, Open, HeldBy, At, Holders, Underway
<1>3. \A c \in HTTPConns : Handling(c)
  BY Zenon DEF HTTPInit, NoRequest, InFlightStages, Handling
<1>4. \A l \in Gens : SumFunctionOnSet(count[l], Backends) = 0
  <2> TAKE l \in Gens
  <2>1. \A b \in Backends : count[l][b] = 0
    BY Zenon DEF PoolInit
  <2>2. IsFiniteSet(Backends)
    BY ServedPoolAssumption, Zenon
  <2>3. PICK z : z = count[l]
    BY Zenon
  <2>4. \A b \in Backends : z[b] = 0
    BY <2>1, <2>3, Zenon
  <2>5. SumFunctionOnSet(z, Backends) = 0
    BY <2>2, <2>4, SumZero, Zenon
  <2> QED BY <2>3, <2>5, Zenon
<1>5. Cardinality({}) = 0
  BY FS_EmptySet, Zenon
<1>6. Covered
  BY <1>2, <1>4, <1>5 DEF Covered
<1>7. Exact
  <2>1. \A b \in Backends : gauge[b] = 0 /\ \A g \in Gens : count[g][b] = 0
    BY Zenon DEF PoolInit
  <2>2. 0 <= 0
    OBVIOUS
  <2> QED BY <1>2, <1>5, <2>1, <2>2, Zenon DEF Exact
<1>8. next = NoUpdate /\ ~drifted /\ httpSem = 0
  BY Zenon DEF PoolInit, HTTPInit
<1> QED BY <1>1, <1>2, <1>3, <1>5, <1>6, <1>7, <1>8, Zenon DEF RequestInv

Records == [stage : RequestStages, gen : Gens \cup {0}, backend : Backends \cup {0},
            attempt : 0 .. MaxAttempts, replayable : BOOLEAN,
            failed : 0 .. MaxAttempts, asked : 0 .. MaxAttempts, renewed : BOOLEAN]

(* What one connection's step does to the others' requests: nothing.       *)
Alone(c) == /\ request' \in [HTTPConns -> Records] /\ Handling(c)'
            /\ \A d \in HTTPConns \ {c} : request'[d] = request[d]

(* The other requests are handled as before.                               *)
LEMMA AloneHandling ==
  ASSUME RequestInv, retries' = retries, NEW c \in HTTPConns, Alone(c)
  PROVE  \A d \in HTTPConns : Handling(d)'
<1>1. ASSUME NEW d \in HTTPConns, d # c PROVE Handling(d)'
  BY <1>1, Zenon DEF RequestInv, Handling, Alone
<1> QED BY <1>1, Zenon DEF Alone

(* A request that ends leaves an idle connection.                          *)
LEMMA EndAlone ==
  ASSUME RequestInv, NEW c \in HTTPConns, End(c)
  PROVE  Alone(c) /\ request'[c].stage = "none"
<1>1. request' = [request EXCEPT ![c] = NoRequest] /\ request \in [HTTPConns -> Records]
  BY Zenon DEF End, RequestInv, HTTPTypeOK, Records
<1>2. NoRequest \in Records
  BY HTTPAssumption DEF NoRequest, Records, RequestStages
<1>3. request'[c] = NoRequest
  BY <1>1, Zenon
<1>4. Handling(c)'
  BY <1>3 DEF Handling, NoRequest, InFlightStages
<1> QED BY <1>1, <1>2, <1>3, <1>4, Zenon DEF Alone, NoRequest

(* A request that is given up or answered and whose count goes down: with  *)
(* no retry policy its own hold is what is taken off, with one the total   *)
(* falls by one at most.                                                   *)
LEMMA ReleaseLeaves ==
  ASSUME RequestInv, NEW c \in HTTPConns, Alone(c), UNCHANGED <<drifted, update>>,
         request[c].stage \in InFlightStages, request'[c].stage \notin InFlightStages,
         Release(request[c].gen, request[c].backend), Dec(request[c].backend)
  PROVE  Covered' /\ (~drifted' => Exact') /\ count' \in [Gens -> [Backends -> Nat]] /\ gauge' \in [Backends -> Int]
<1>1. PICK l : l = request[c].gen
  BY Zenon
<1>2. PICK b : b = request[c].backend
  BY Zenon
<1>3. l \in Gens /\ b \in Backends /\ Release(l, b) /\ Dec(b) /\ HTTPTypeOK
  <2>1. request[c].stage # "none"
    BY Zenon DEF InFlightStages
  <2> QED BY <1>1, <1>2, <2>1, Zenon DEF RequestInv, Handling
<1>4. /\ count' \in [Gens -> [Backends -> Nat]]
      /\ \A k \in Gens, x \in Backends :
           count'[k][x] = count[k][x] - (IF k = l /\ x = b /\ count[l][b] > 0 THEN 1 ELSE 0)
      /\ \A k \in Gens : SumFunctionOnSet(count'[k], Backends)
           >= SumFunctionOnSet(count[k], Backends) - (IF k = l THEN 1 ELSE 0)
  BY <1>3, ReleaseSum, Zenon
<1>5. /\ \A k : Cardinality(HeldBy(k)') = Cardinality(HeldBy(k)) - (IF l = k THEN 1 ELSE 0)
      /\ \A x : Cardinality(At(x)') = Cardinality(At(x)) - (IF b = x THEN 1 ELSE 0)
      /\ \A k, x : Cardinality(Holders(k, x)')
           = Cardinality(Holders(k, x)) - (IF l = k /\ b = x THEN 1 ELSE 0)
  BY <1>1, <1>2, Leaves DEF Alone
<1>6. gauge' \in [Backends -> Int] /\ \A x \in Backends : gauge'[x] = gauge[x] - (IF x = b THEN 1 ELSE 0)
  BY <1>3 DEF Dec, HTTPTypeOK, PoolTypeOK
<1>7. Covered'
  <2> SUFFICES ASSUME NEW k \in Gens
               PROVE  SumFunctionOnSet(count'[k], Backends) >= Cardinality(HeldBy(k)')
    BY Zenon DEF Covered
  <2>1. SumFunctionOnSet(count[k], Backends) >= Cardinality(HeldBy(k))
    BY Zenon DEF RequestInv, Covered
  <2>2. SumFunctionOnSet(count[k], Backends) \in Int /\ SumFunctionOnSet(count'[k], Backends) \in Int
    <3>1. count[k] \in [Backends -> Nat] /\ count'[k] \in [Backends -> Nat] /\ IsFiniteSet(Backends)
      BY <1>3, <1>4, ServedPoolAssumption, Zenon DEF HTTPTypeOK, PoolTypeOK
    <3>2. SumFunctionOnSet(count[k], Backends) \in Nat /\ SumFunctionOnSet(count'[k], Backends) \in Nat
      BY <3>1, SumNat, Zenon
    <3> QED BY <3>2
  <2>3. Cardinality(HeldBy(k)) \in Nat
    BY LoadSets, Zenon
  <2> QED BY <1>4, <1>5, <2>1, <2>2, <2>3
<1>8. ASSUME ~drifted' PROVE Exact'
  <2>1. c \in Holders(l, b)
    BY <1>1, <1>2, Zenon DEF Holders, HeldBy, At, Underway
  <2>2. Cardinality(Holders(l, b)) > 0
    BY <2>1, LoadSets, FS_EmptySet
  <2>3. \A k \in Gens, x \in Backends : count[k][x] = Cardinality(Holders(k, x))
    BY <1>8, Zenon DEF RequestInv, Exact
  <2>4. \A x \in Backends : /\ gauge[x] <= Cardinality(At(x))
                            /\ x \notin cleaned => gauge[x] = Cardinality(At(x))
    BY <1>8, Zenon DEF RequestInv, Exact
  <2>5. \A k \in Gens, x \in Backends : count'[k][x] = Cardinality(Holders(k, x)')
    BY <1>3, <1>4, <1>5, <2>2, <2>3
  <2>6. \A x \in Backends : /\ gauge'[x] <= Cardinality(At(x)')
                            /\ x \notin cleaned => gauge'[x] = Cardinality(At(x)')
    <3> SUFFICES ASSUME NEW x \in Backends
                 PROVE  /\ gauge'[x] <= Cardinality(At(x)')
                        /\ x \notin cleaned => gauge'[x] = Cardinality(At(x)')
      BY Zenon
    <3>1. gauge[x] \in Int /\ Cardinality(At(x)) \in Int
      BY <1>3, LoadSets DEF HTTPTypeOK, PoolTypeOK
    <3>2. gauge[x] <= Cardinality(At(x)) /\ (x \notin cleaned => gauge[x] = Cardinality(At(x)))
      BY <2>4, Zenon
    <3>3. Cardinality(At(x)') = Cardinality(At(x)) - (IF b = x THEN 1 ELSE 0)
      BY <1>5, Zenon
    <3>4. gauge'[x] = gauge[x] - (IF x = b THEN 1 ELSE 0)
      BY <1>6, Zenon
    <3> QED BY <3>1, <3>2, <3>3, <3>4
  <2>7. cleaned' = cleaned
    BY DEF update
  <2> QED BY <2>5, <2>6, <2>7, Zenon DEF Exact
<1> QED BY <1>4, <1>6, <1>7, <1>8, Zenon

(* A request that leaves with a retry policy may leave its count behind.   *)
LEMMA Abandons ==
  ASSUME RequestInv, NEW c \in HTTPConns, Alone(c),
         request[c].stage \in InFlightStages, request'[c].stage \notin InFlightStages, UNCHANGED count
  PROVE  Covered'
<1> SUFFICES ASSUME NEW k \in Gens
             PROVE  SumFunctionOnSet(count[k], Backends) >= Cardinality(HeldBy(k)')
  BY Zenon DEF Covered
<1>1. SumFunctionOnSet(count[k], Backends) >= Cardinality(HeldBy(k))
  BY Zenon DEF RequestInv, Covered
<1>2. SumFunctionOnSet(count[k], Backends) \in Int
  BY SumNat, SumOfAll, ServedPoolAssumption DEF RequestInv, HTTPTypeOK, PoolTypeOK
<1>3. Cardinality(HeldBy(k)) \in Nat /\ Cardinality(HeldBy(k)') <= Cardinality(HeldBy(k))
  BY LoadSets, Leaves DEF Alone
<1>4. Cardinality(HeldBy(k)') \in Int
  BY LoadSets, Leaves DEF Alone
<1> QED BY <1>1, <1>2, <1>3, <1>4

(* Whatever is sent is counted: by the Director, exactly; by a retry, in   *)
(* the total.                                                              *)
LEMMA AcquireEnters ==
  ASSUME RequestInv, NEW c \in HTTPConns, Alone(c), UNCHANGED update,
         NEW l \in Gens, NEW b \in Backends, Acquire(l, b),
         request[c].stage \notin InFlightStages, request'[c].stage \in InFlightStages, request'[c].gen = l
  PROVE  /\ Covered' /\ count' \in [Gens -> [Backends -> Nat]]
         /\ Inc(b) /\ request'[c].backend = b => (~drifted => Exact') /\ gauge' \in [Backends -> Int]
<1>4. /\ count' \in [Gens -> [Backends -> Nat]]
      /\ \A k \in Gens, x \in Backends : count'[k][x] = count[k][x] + (IF k = l /\ x = b THEN 1 ELSE 0)
      /\ \A k \in Gens : SumFunctionOnSet(count'[k], Backends)
           = SumFunctionOnSet(count[k], Backends) + (IF k = l THEN 1 ELSE 0)
  BY AcquireSum, Zenon DEF RequestInv
<1>5. /\ \A k : Cardinality(HeldBy(k)') = Cardinality(HeldBy(k)) + (IF l = k THEN 1 ELSE 0)
      /\ \A x : Cardinality(At(x)') = Cardinality(At(x)) + (IF request'[c].backend = x THEN 1 ELSE 0)
      /\ \A k, x : Cardinality(Holders(k, x)')
           = Cardinality(Holders(k, x)) + (IF l = k /\ request'[c].backend = x THEN 1 ELSE 0)
  BY Enters DEF Alone
<1>7. Covered'
  <2> SUFFICES ASSUME NEW k \in Gens
               PROVE  SumFunctionOnSet(count'[k], Backends) >= Cardinality(HeldBy(k)')
    BY Zenon DEF Covered
  <2>1. SumFunctionOnSet(count[k], Backends) >= Cardinality(HeldBy(k))
    BY Zenon DEF RequestInv, Covered
  <2>2. SumFunctionOnSet(count[k], Backends) \in Int
    BY SumNat, SumOfAll, ServedPoolAssumption DEF RequestInv, HTTPTypeOK, PoolTypeOK
  <2>3. Cardinality(HeldBy(k)) \in Nat
    BY LoadSets, Zenon
  <2> QED BY <1>4, <1>5, <2>1, <2>2, <2>3
<1>8. ASSUME Inc(b), request'[c].backend = b
      PROVE  gauge' \in [Backends -> Int] /\ (~drifted => Exact')
  <2>1. gauge' \in [Backends -> Int] /\ \A x \in Backends : gauge'[x] = gauge[x] + (IF x = b THEN 1 ELSE 0)
    BY <1>8 DEF Inc, HTTPTypeOK, PoolTypeOK, RequestInv
  <2>2. ASSUME ~drifted PROVE Exact'
    <3>3. \A k \in Gens, x \in Backends : count[k][x] = Cardinality(Holders(k, x))
      BY <2>2, Zenon DEF RequestInv, Exact
    <3>4. \A x \in Backends : /\ gauge[x] <= Cardinality(At(x))
                              /\ x \notin cleaned => gauge[x] = Cardinality(At(x))
      BY <2>2, Zenon DEF RequestInv, Exact
    <3>5. \A k \in Gens, x \in Backends : count'[k][x] = Cardinality(Holders(k, x)')
      BY <1>4, <1>5, <1>8, <3>3
    <3>6. \A x \in Backends : /\ gauge'[x] <= Cardinality(At(x)')
                              /\ x \notin cleaned => gauge'[x] = Cardinality(At(x)')
      <4>1. \A x \in Backends : gauge[x] \in Int /\ Cardinality(At(x)) \in Nat
        BY LoadSets DEF RequestInv, HTTPTypeOK, PoolTypeOK
      <4> QED BY <1>5, <1>8, <2>1, <3>4, <4>1
    <3>7. cleaned' = cleaned
      BY DEF update
    <3> QED BY <3>5, <3>6, <3>7, Zenon DEF Exact
  <2> QED BY <2>1, <2>2, Zenon
<1> QED BY <1>4, <1>7, <1>8, Zenon

(* A step that moves no request in or out and leaves the accounts alone.   *)
LEMMA AccountsRemain ==
  ASSUME RequestInv, NEW c \in HTTPConns, Alone(c), UNCHANGED <<poolVars, drifted>>,
         \/ /\ request[c].stage \notin InFlightStages /\ request'[c].stage \notin InFlightStages
         \/ /\ request[c].stage \in InFlightStages /\ request'[c].stage \in InFlightStages
            /\ request'[c].gen = request[c].gen /\ request'[c].backend = request[c].backend
  PROVE  Covered' /\ (~drifted' => Exact')
<1>1. /\ \A l : HeldBy(l)' = HeldBy(l)
      /\ \A b : At(b)' = At(b)
      /\ \A l, b : Holders(l, b)' = Holders(l, b)
  BY Remains, Zenon DEF Alone
<1>2. count' = count /\ gauge' = gauge /\ cleaned' = cleaned
  BY Zenon DEF poolVars
<1> QED BY <1>1, <1>2, Zenon DEF RequestInv, Covered, Exact

(* The invariant again, from its parts.                                    *)
LEMMA Reassemble ==
  ASSUME RequestInv, NEW c \in HTTPConns, Alone(c), UNCHANGED <<update, retries, httpSem, httpConn>>,
         drifted' \in BOOLEAN, drifted' => retries,
         begun' \in 0 .. MaxRequests, count' \in [Gens -> [Backends -> Nat]], gauge' \in [Backends -> Int],
         Covered', ~drifted' => Exact'
  PROVE  RequestInv'
<1>1. Open' = Open
  BY Zenon DEF Open
<1>2. HTTPTypeOK'
  <2>1. PoolTypeOK'
    BY Zenon DEF RequestInv, HTTPTypeOK, PoolTypeOK, update
  <2> QED BY <2>1, Zenon DEF HTTPTypeOK, RequestInv, Alone, Records
<1>3. \A d \in HTTPConns : Handling(d)'
  BY AloneHandling, Zenon
<1>4. next' # NoUpdate => lb' + 1 \in Gens
  BY Zenon DEF RequestInv, update
<1> QED BY <1>1, <1>2, <1>3, <1>4, Zenon DEF RequestInv

(* AdmitConn takes a token, the first Close gives it back, later ones and     *)
(* Forget do neither.                                                      *)
LEMMA ConnSteps ==
  ASSUME RequestInv, NEW c \in HTTPConns, AdmitConn(c) \/ CloseConn(c) \/ Forget(c)
  PROVE  RequestInv'
<1>1. httpConn' \in [HTTPConns -> {"none", "open", "closed"}] /\ \A d \in HTTPConns \ {c} : httpConn'[d] = httpConn[d]
  BY Zenon DEF RequestInv, HTTPTypeOK, AdmitConn, CloseConn, Forget
<1>2. IsFiniteSet(Open) /\ Cardinality(Open) \in Nat /\ httpSem = Cardinality(Open)
      /\ httpSem \in 0 .. HTTPMaxConn /\ HTTPMaxConn \in Nat
  BY LoadSets, HTTPAssumption, Zenon DEF RequestInv, HTTPTypeOK, PoolTypeOK
<1>3. httpSem' = Cardinality(Open') /\ httpSem' \in 0 .. HTTPMaxConn
  <2>1. CASE AdmitConn(c)
    <3>1. Open' = Open \cup {c} /\ c \notin Open
      BY <1>1, <2>1, Zenon DEF AdmitConn, Open, RequestInv, HTTPTypeOK
    <3>2. Cardinality(Open') = Cardinality(Open) + 1
      BY <1>2, <3>1, FS_AddElement, Zenon
    <3>3. httpSem' = httpSem + 1 /\ httpSem < HTTPMaxConn
      BY <2>1, Zenon DEF AdmitConn
    <3> QED BY <1>2, <3>2, <3>3
  <2>2. CASE httpConn[c] = "open" /\ CloseConn(c)
    <3>1. Open' = Open \ {c} /\ c \in Open
      BY <1>1, <2>2, Zenon DEF CloseConn, Open, RequestInv, HTTPTypeOK
    <3>2. Cardinality(Open') = Cardinality(Open) - 1 /\ Cardinality(Open) # 0
      BY <1>2, <3>1, FS_RemoveElement, FS_EmptySet, Zenon
    <3> QED BY <1>2, <2>2, <3>2 DEF CloseConn
  <2>3. CASE httpConn[c] # "open" /\ (CloseConn(c) \/ Forget(c))
    <3>1. Open' = Open /\ httpSem' = httpSem
      BY <1>1, <2>3, Zenon DEF CloseConn, Forget, Open, RequestInv, HTTPTypeOK
    <3> QED BY <1>2, <3>1, Zenon
  <2>4. ~(httpConn[c] = "open" /\ Forget(c))
    BY Zenon DEF Forget
  <2> QED BY <2>1, <2>2, <2>3, <2>4, Zenon
<1>4. UNCHANGED <<retries, poolVars, request, begun, drifted>>
  BY Zenon DEF AdmitConn, CloseConn, Forget
<1>5. HTTPTypeOK'
  <2>1. PoolTypeOK'
    BY <1>4, Zenon DEF RequestInv, HTTPTypeOK, PoolTypeOK, poolVars
  <2>2. UNCHANGED <<retries, request, begun, drifted>>
    BY <1>4, Zenon
  <2> QED BY <1>1, <1>3, <2>1, <2>2, Zenon DEF RequestInv, HTTPTypeOK
<1>6. \A d \in HTTPConns : Handling(d)'
  BY <1>4, Zenon DEF RequestInv, Handling
<1>7. Covered' /\ (~drifted' => Exact')
  <2>1. UNCHANGED <<count, gauge, cleaned, request, drifted>>
    BY <1>4, Zenon DEF poolVars
  <2>2. /\ \A l : HeldBy(l)' = HeldBy(l)
        /\ \A b : At(b)' = At(b)
        /\ \A l, b : Holders(l, b)' = Holders(l, b)
    BY <2>1, Zenon DEF HeldBy, At, Holders, Underway
  <2> QED BY <2>1, <2>2, Zenon DEF RequestInv, Covered, Exact
<1> QED BY <1>3, <1>4, <1>5, <1>6, <1>7, Zenon DEF RequestInv, poolVars

(* The record of the request on c, and what a step makes of it.            *)
LEMMA RecordType ==
  ASSUME RequestInv, NEW c \in HTTPConns
  PROVE  /\ request \in [HTTPConns -> Records] /\ request[c] \in Records
         /\ retries \in BOOLEAN /\ begun \in 0 .. MaxRequests
         /\ count \in [Gens -> [Backends -> Nat]] /\ gauge \in [Backends -> Int]
         /\ lb \in Gens /\ members \in [Gens -> SUBSET Backends]
         /\ drifted \in BOOLEAN /\ (drifted => retries)
  BY Zenon DEF RequestInv, HTTPTypeOK, PoolTypeOK, Records

(* A request arrives and takes the balancer of the moment.                 *)
LEMMA ArriveStep ==
  ASSUME RequestInv, NEW c \in HTTPConns, Arrive(c)
  PROVE  RequestInv'
<1>1. /\ request' = [request EXCEPT ![c].stage = "directing", ![c].gen = lb] /\ request[c].stage = "none"
      /\ UNCHANGED <<poolVars, retries, httpSem, httpConn, drifted>>
  BY Zenon DEF Arrive, admission
<1>2. Alone(c) /\ request'[c].stage = "directing"
  <2>1. PICK r : r = [request[c] EXCEPT !.stage = "directing", !.gen = lb]
    BY Zenon
  <2>2. request' = [request EXCEPT ![c] = r]
    BY <1>1, <2>1, RecordType, Zenon
  <2>3. /\ r \in Records /\ r.stage = "directing" /\ r.gen = lb /\ r.attempt = request[c].attempt
        /\ r.failed = request[c].failed /\ r.asked = request[c].asked
    BY <2>1, RecordType, Zenon DEF Records, RequestStages
  <2>4. request' \in [HTTPConns -> Records] /\ request'[c] = r /\ \A d \in HTTPConns \ {c} : request'[d] = request[d]
    BY <2>2, <2>3, RecordType, Zenon
  <2>5. r.attempt = 0 /\ r.failed = 0 /\ r.asked = 0 /\ lb \in Gens
    BY <1>1, <2>3, RecordType, Zenon DEF RequestInv, Handling
  <2>6. Handling(c)'
    BY <2>3, <2>4, <2>5, Zenon DEF Handling, InFlightStages
  <2> QED BY <2>3, <2>4, <2>6, Zenon DEF Alone
<1>3. Covered' /\ (~drifted' => Exact')
  BY <1>1, <1>2, AccountsRemain, Zenon DEF InFlightStages
<1>4. begun' \in 0 .. MaxRequests
  BY RecordType, HTTPAssumption DEF Arrive
<1> QED BY <1>1, <1>2, <1>3, <1>4, Reassemble, RecordType, Zenon DEF poolVars, update

(* The Director acquires one backend and sends the request, or ends it.    *)
LEMMA DirectorStep ==
  ASSUME RequestInv, NEW c \in HTTPConns, Director(c)
  PROVE  RequestInv'
<1>1. request[c].stage = "directing" /\ UNCHANGED <<update, retries, httpSem, httpConn, begun, drifted>>
  BY Zenon DEF Director, admission
<1>2. CASE End(c) /\ UNCHANGED accounts
  <2>1. UNCHANGED poolVars
    BY <1>1, <1>2, Zenon DEF update, accounts, poolVars
  <2>2. Covered' /\ (~drifted' => Exact')
    BY <1>1, <1>2, <2>1, EndAlone, AccountsRemain, Zenon DEF InFlightStages
  <2> QED BY <1>1, <1>2, <2>2, EndAlone, Reassemble, RecordType, Zenon DEF accounts
<1>3. ASSUME NEW b \in members[request[c].gen], Acquire(request[c].gen, b), Inc(b),
             request' = [request EXCEPT ![c].backend = b,
                                        ![c].stage = IF retries THEN "buffering" ELSE "sending"]
      PROVE  RequestInv'
  <2>0. request[c].gen \in Gens /\ b \in Backends
    BY <1>1, RecordType, Zenon DEF RequestInv, Handling
  <2>1. /\ request' \in [HTTPConns -> Records] /\ \A d \in HTTPConns \ {c} : request'[d] = request[d]
        /\ request'[c].gen = request[c].gen /\ request'[c].backend = b
        /\ request'[c].stage = (IF retries THEN "buffering" ELSE "sending")
        /\ request'[c].attempt = request[c].attempt /\ request'[c].failed = request[c].failed
        /\ request'[c].asked = request[c].asked
    <3> DEFINE st == IF retries THEN "buffering" ELSE "sending"
               r == [request[c] EXCEPT !.backend = b, !.stage = st]
    <3>1. st \in RequestStages
      BY RecordType, Zenon DEF RequestStages
    <3>2. request' = [request EXCEPT ![c] = r]
      BY <1>3, RecordType, Zenon
    <3> HIDE DEF st
    <3>3. /\ r \in Records /\ r.gen = request[c].gen /\ r.backend = b /\ r.stage = st
          /\ r.attempt = request[c].attempt /\ r.failed = request[c].failed /\ r.asked = request[c].asked
      BY <2>0, <3>1, RecordType, Zenon DEF Records
    <3> HIDE DEF r
    <3> QED BY <3>2, <3>3, RecordType, Zenon DEF st
  <2>2. Handling(c)' /\ request'[c].stage \in InFlightStages
    <3>1. Handling(c) /\ retries' = retries /\ retries \in BOOLEAN
      BY <1>1, RecordType, Zenon DEF RequestInv
    <3>2. 0 < MaxAttempts /\ 0 <= 0
      BY HTTPAssumption
    <3>3. request'[c].attempt = 0 /\ request'[c].failed = 0 /\ request'[c].asked = 0
      BY <1>1, <2>1, <3>1, Zenon DEF Handling
    <3>4. request'[c].stage \in {"buffering", "sending"} /\ (request'[c].stage = "buffering" => retries)
      BY <2>1, <3>1, Zenon
    <3> QED BY <2>0, <2>1, <3>1, <3>2, <3>3, <3>4, Zenon DEF Handling, InFlightStages
  <2>3. Alone(c)
    BY <2>1, <2>2, Zenon DEF Alone
  <2>4. request[c].stage \notin InFlightStages
    BY <1>1, Zenon DEF InFlightStages
  <2>5. /\ Covered' /\ (~drifted => Exact')
        /\ count' \in [Gens -> [Backends -> Nat]] /\ gauge' \in [Backends -> Int]
    BY <1>1, <1>3, <2>0, <2>1, <2>2, <2>3, <2>4, AcquireEnters, Zenon
  <2> QED BY <1>1, <2>3, <2>5, Reassemble, RecordType, Zenon
<1> QED BY <1>2, <1>3, Zenon DEF Director

(* An error of the single attempt, and the end of a response, release what *)
(* the Director acquired.                                                  *)
LEMMA SingleSteps ==
  ASSUME RequestInv, NEW c \in HTTPConns, SingleFails(c) \/ CloseBody(c)
  PROVE  RequestInv'
<1>1. /\ request[c].stage \in InFlightStages /\ UNCHANGED <<update, retries, httpSem, httpConn, begun, drifted>>
      /\ End(c) /\ Release(request[c].gen, request[c].backend) /\ Dec(request[c].backend)
  BY Zenon DEF SingleFails, CloseBody, InFlightStages, admission
<1>2. Alone(c) /\ request'[c].stage \notin InFlightStages
  BY <1>1, EndAlone, Zenon DEF InFlightStages
<1>3. Covered' /\ (~drifted' => Exact') /\ count' \in [Gens -> [Backends -> Nat]] /\ gauge' \in [Backends -> Int]
  BY <1>1, <1>2, ReleaseLeaves, Zenon
<1> QED BY <1>1, <1>2, <1>3, Reassemble, RecordType, Zenon

(* A response begins.                                                      *)
LEMMA RespondStep ==
  ASSUME RequestInv, NEW c \in HTTPConns, Respond(c)
  PROVE  RequestInv'
<1>1. /\ request' = [request EXCEPT ![c].stage = "streaming"] /\ request[c].stage = "sending"
      /\ UNCHANGED <<poolVars, retries, httpSem, httpConn, begun, drifted>>
  BY Zenon DEF Respond, admission
<1>2. /\ request' \in [HTTPConns -> Records] /\ \A d \in HTTPConns \ {c} : request'[d] = request[d]
      /\ request'[c].gen = request[c].gen /\ request'[c].backend = request[c].backend
      /\ request'[c].stage = "streaming" /\ request'[c].attempt = request[c].attempt
      /\ request'[c].renewed = request[c].renewed
  <2>1. PICK r : r = [request[c] EXCEPT !.stage = "streaming"]
    BY Zenon
  <2>2. request' = [request EXCEPT ![c] = r]
    BY <1>1, <2>1, RecordType, Zenon
  <2>3. /\ r \in Records /\ r.stage = "streaming" /\ r.gen = request[c].gen
        /\ r.backend = request[c].backend /\ r.attempt = request[c].attempt /\ r.renewed = request[c].renewed
    BY <2>1, RecordType, Zenon DEF Records, RequestStages
  <2> QED BY <2>2, <2>3, RecordType, Zenon
<1>3. Alone(c)
  BY <1>1, <1>2, Zenon DEF Alone, Handling, RequestInv, InFlightStages
<1>4. Covered' /\ (~drifted' => Exact')
  BY <1>1, <1>2, <1>3, AccountsRemain, Zenon DEF InFlightStages
<1> QED BY <1>1, <1>3, <1>4, Reassemble, RecordType, Zenon DEF poolVars, update

(* The body is buffered, or the request ends with its backend held.        *)
LEMMA BufferStep ==
  ASSUME RequestInv, NEW c \in HTTPConns, BufferBody(c)
  PROVE  RequestInv'
<1>1. /\ request[c].stage = "buffering" /\ request[c].stage \in InFlightStages /\ retries
      /\ UNCHANGED <<poolVars, retries, httpSem, httpConn, begun>>
  BY Zenon DEF BufferBody, InFlightStages, RequestInv, Handling, admission
<1>2. CASE End(c) /\ drifted' = TRUE
  <2>1. Alone(c) /\ request'[c].stage \notin InFlightStages
    BY <1>2, EndAlone, Zenon DEF InFlightStages
  <2>2. Covered'
    BY <1>1, <2>1, Abandons, Zenon DEF poolVars
  <2> QED BY <1>1, <1>2, <2>1, <2>2, Reassemble, RecordType, Zenon DEF poolVars, update
<1>3. ASSUME NEW small \in BOOLEAN, UNCHANGED drifted,
             request' = [request EXCEPT ![c].stage = "sending", ![c].replayable = small]
      PROVE  RequestInv'
  <2>1. /\ request' \in [HTTPConns -> Records] /\ \A d \in HTTPConns \ {c} : request'[d] = request[d]
        /\ request'[c].gen = request[c].gen /\ request'[c].backend = request[c].backend /\ request'[c].stage = "sending"
        /\ request'[c].attempt = request[c].attempt /\ request'[c].failed = request[c].failed
        /\ request'[c].asked = request[c].asked
    <3> DEFINE r == [request[c] EXCEPT !.stage = "sending", !.replayable = small]
    <3>1. /\ r \in Records /\ r.gen = request[c].gen /\ r.backend = request[c].backend /\ r.stage = "sending"
          /\ r.attempt = request[c].attempt /\ r.failed = request[c].failed /\ r.asked = request[c].asked
      BY RecordType, Zenon DEF Records, RequestStages
    <3>2. request' = [request EXCEPT ![c] = r]
      BY <1>3, RecordType, Zenon
    <3> HIDE DEF r
    <3> QED BY <3>1, <3>2, RecordType, Zenon
  <2>2. Alone(c)
    <3>1. Handling(c)
      BY Zenon DEF RequestInv
    <3>2. /\ request'[c].attempt = 0 /\ request'[c].failed = 0 /\ request'[c].asked = 0
          /\ request'[c].gen \in Gens /\ request'[c].backend \in Backends
      BY <1>1, <2>1, <3>1, Zenon DEF Handling
    <3>3. 0 < MaxAttempts /\ 0 <= 0
      BY HTTPAssumption
    <3>4. Handling(c)'
      BY <2>1, <3>2, <3>3, Zenon DEF Handling
    <3> QED BY <2>1, <3>4, Zenon DEF Alone
  <2>3. Covered' /\ (~drifted' => Exact')
    BY <1>1, <1>3, <2>1, <2>2, AccountsRemain, Zenon DEF InFlightStages
  <2> QED BY <1>1, <1>3, <2>2, <2>3, Reassemble, RecordType, Zenon DEF poolVars, update
<1> QED BY <1>2, <1>3, Zenon DEF BufferBody

(* A failed attempt; the gauge falls, the count only without a response.   *)
LEMMA FailedSteps ==
  ASSUME RequestInv, NEW c \in HTTPConns, AttemptFails(c) \/ RetryableStatus(c)
  PROVE  RequestInv'
<1>1. /\ request' = [request EXCEPT ![c].stage = "retrying", ![c].attempt = request[c].attempt + 1,
                                    ![c].failed = request[c].failed + 1]
      /\ request[c].stage = "sending" /\ request[c].stage \in InFlightStages /\ retries /\ Dec(request[c].backend)
      /\ UNCHANGED <<update, retries, httpSem, httpConn, begun>>
  BY RecordType, Zenon DEF AttemptFails, RetryableStatus, Failed, InFlightStages, admission
<1>2. /\ request[c].attempt \in Nat /\ request[c].failed \in Nat /\ request[c].asked \in Nat
      /\ request[c].attempt < MaxAttempts /\ request[c].failed <= request[c].attempt
      /\ request[c].asked <= request[c].attempt /\ request[c].gen \in Gens
      /\ request[c].backend \in Backends /\ MaxAttempts \in Nat
      /\ ~request[c].renewed => request[c].attempt = 0
  <2>1. Handling(c) /\ request[c] \in Records
    BY RecordType, Zenon DEF RequestInv
  <2>2. /\ request[c].attempt \in 0 .. MaxAttempts /\ request[c].failed \in 0 .. MaxAttempts
        /\ request[c].asked \in 0 .. MaxAttempts /\ MaxAttempts \in Nat
    BY <2>1, HTTPAssumption, Zenon DEF Records
  <2>3. /\ request[c].attempt < MaxAttempts /\ request[c].failed <= request[c].attempt
        /\ request[c].asked <= request[c].attempt /\ request[c].gen \in Gens
        /\ request[c].backend \in Backends /\ (~request[c].renewed => request[c].attempt = 0)
    BY <1>1, <2>1, Zenon DEF Handling
  <2>4. /\ request[c].attempt \in Nat /\ request[c].failed \in Nat /\ request[c].asked \in Nat
    BY <2>2
  <2> QED BY <2>2, <2>3, <2>4, Zenon
<1>3. PICK n : n = request[c].attempt + 1
  BY Zenon
<1>4. PICK f : f = request[c].failed + 1
  BY Zenon
<1>5. /\ n \in 0 .. MaxAttempts /\ f \in 0 .. MaxAttempts /\ f <= n /\ request[c].asked < n
      /\ request[c].attempt = 0 => f = 1 /\ request[c].asked = 0
  BY <1>2, <1>3, <1>4
<1>6. /\ request' \in [HTTPConns -> Records] /\ \A d \in HTTPConns \ {c} : request'[d] = request[d]
      /\ request'[c].gen = request[c].gen /\ request'[c].backend = request[c].backend /\ request'[c].stage = "retrying"
      /\ request'[c].attempt = n /\ request'[c].failed = f /\ request'[c].asked = request[c].asked
      /\ request'[c].renewed = request[c].renewed
  <2>1. PICK r : r = [request[c] EXCEPT !.stage = "retrying", !.attempt = n, !.failed = f]
    BY Zenon
  <2>2. request' = [request EXCEPT ![c] = r]
    BY <1>1, <1>3, <1>4, <2>1, RecordType, Zenon
  <2>3. /\ r \in Records /\ r.stage = "retrying" /\ r.gen = request[c].gen /\ r.backend = request[c].backend
        /\ r.attempt = n /\ r.failed = f /\ r.asked = request[c].asked /\ r.renewed = request[c].renewed
    BY <1>5, <2>1, RecordType, Zenon DEF Records, RequestStages
  <2> QED BY <2>2, <2>3, RecordType, Zenon
<1>7. Handling(c)'
  BY <1>1, <1>2, <1>5, <1>6, Zenon DEF Handling, InFlightStages
<1>8. Alone(c) /\ request'[c].stage \notin InFlightStages
  BY <1>6, <1>7, Zenon DEF Alone, InFlightStages
<1>9. gauge' \in [Backends -> Int]
  BY <1>1, <1>2, RecordType DEF Dec
<1>10. CASE AttemptFails(c)
  <2>1. Release(request[c].gen, request[c].backend) /\ UNCHANGED drifted
    BY <1>10, Zenon DEF AttemptFails
  <2>2. Covered' /\ (~drifted' => Exact') /\ count' \in [Gens -> [Backends -> Nat]]
    BY <1>1, <1>8, <2>1, ReleaseLeaves, Zenon
  <2> QED BY <1>1, <1>8, <1>9, <2>1, <2>2, Reassemble, RecordType, Zenon
<1>11. CASE RetryableStatus(c)
  <2>1. UNCHANGED count /\ drifted' = TRUE
    BY <1>11, Zenon DEF RetryableStatus
  <2>2. Covered'
    BY <1>1, <1>8, <2>1, Abandons, Zenon
  <2> QED BY <1>1, <1>8, <1>9, <2>1, <2>2, Reassemble, RecordType, Zenon
<1> QED BY <1>10, <1>11, Zenon

(* The loop gives up.                                                      *)
LEMMA GiveUpStep ==
  ASSUME RequestInv, NEW c \in HTTPConns, GiveUp(c)
  PROVE  RequestInv'
<1>1. request[c].stage = "retrying" /\ End(c) /\ UNCHANGED <<poolVars, retries, httpSem, httpConn, begun, drifted>>
  BY Zenon DEF GiveUp, admission
<1>2. Covered' /\ (~drifted' => Exact')
  BY <1>1, EndAlone, AccountsRemain, Zenon DEF InFlightStages
<1> QED BY <1>1, <1>2, EndAlone, Reassemble, RecordType, Zenon DEF poolVars, update

(* The budget refuses a request that has failed once and never asked, as   *)
(* long as its window lasts: 1 is not a smaller part of 1 than any ratio.  *)
LEMMA FirstQuestionRefused == ~BudgetAllow(1, 0, FALSE).ok
<1>1. BudgetAllow(1, 0, FALSE).ok => 1 * 100 < Ratio * (0 + 1)
  BY Zenon DEF BudgetAllow
<1>2. ~(1 * 100 < Ratio * (0 + 1))
  BY HTTPAssumption
<1> QED BY <1>1, <1>2, Zenon

(* The budget allows another attempt, to any backend.                      *)
LEMMA RetryStep ==
  ASSUME RequestInv, NEW c \in HTTPConns, Retry(c)
  PROVE  RequestInv'
<1>1. PICK elapsed \in BOOLEAN :
        LET budget == BudgetAllow(request[c].failed, request[c].asked, elapsed) IN
        /\ request[c].stage = "retrying" /\ MayRetry(c) /\ budget.ok
        /\ \/ End(c) /\ UNCHANGED <<count, drifted>>
           \/ /\ \E b \in members[request[c].gen] : Acquire(request[c].gen, b)
              /\ request' = [request EXCEPT ![c].stage = "sending", ![c].failed = budget.failed,
                                            ![c].asked = budget.asked,
                                            ![c].renewed = request[c].renewed \/ elapsed]
              /\ drifted' = TRUE
        /\ UNCHANGED <<update, retries, gauge, httpSem, httpConn, begun>>
  BY RecordType, Zenon DEF Retry, admission
<1>2. PICK f : f = IF elapsed THEN 0 ELSE request[c].failed
  BY Zenon
<1>3. PICK a : a = (IF elapsed THEN 0 ELSE request[c].asked) + 1
  BY Zenon
<1>4. /\ BudgetAllow(request[c].failed, request[c].asked, elapsed).failed = f
      /\ BudgetAllow(request[c].failed, request[c].asked, elapsed).asked = a
  BY <1>2, <1>3, Zenon DEF BudgetAllow
<1>5. /\ request[c].stage = "retrying" /\ request[c].attempt < MaxAttempts /\ retries
      /\ UNCHANGED <<update, retries, gauge, httpSem, httpConn, begun>>
  BY <1>1, Zenon DEF MayRetry, RequestInv, Handling
<1>6. /\ request[c].attempt \in Nat /\ request[c].failed \in Nat /\ request[c].asked \in Nat /\ MaxAttempts \in Nat
      /\ request[c].failed <= request[c].attempt /\ request[c].asked < request[c].attempt
      /\ request[c].gen \in Gens /\ request[c].backend \in Backends
      /\ ~request[c].renewed => request[c].failed = 1 /\ request[c].asked = 0
  <2>1. Handling(c) /\ request[c] \in Records
    BY RecordType, Zenon DEF RequestInv
  <2>2. /\ request[c].attempt \in 0 .. MaxAttempts /\ request[c].failed \in 0 .. MaxAttempts
        /\ request[c].asked \in 0 .. MaxAttempts /\ MaxAttempts \in Nat
    BY <2>1, HTTPAssumption, Zenon DEF Records
  <2>3. /\ request[c].failed <= request[c].attempt /\ request[c].asked < request[c].attempt
        /\ request[c].gen \in Gens /\ request[c].backend \in Backends
        /\ (~request[c].renewed => request[c].failed = 1 /\ request[c].asked = 0)
    BY <1>5, <2>1, Zenon DEF Handling
  <2>4. /\ request[c].attempt \in Nat /\ request[c].failed \in Nat /\ request[c].asked \in Nat
    BY <2>2
  <2> QED BY <2>2, <2>3, <2>4, Zenon
<1>7. f \in 0 .. MaxAttempts /\ a \in 0 .. MaxAttempts /\ f <= request[c].attempt /\ a <= request[c].attempt
  <2>1. f \in Nat /\ f <= request[c].attempt
    BY <1>2, <1>6
  <2>2. a \in Nat /\ a <= request[c].attempt
    BY <1>3, <1>6
  <2> QED BY <1>5, <1>6, <2>1, <2>2
<1>8. request[c].renewed \/ elapsed
  BY <1>1, <1>6, FirstQuestionRefused, Zenon
<1>9. CASE End(c) /\ UNCHANGED <<count, drifted>>
  <2>1. UNCHANGED <<poolVars, drifted>>
    BY <1>5, <1>9, Zenon DEF update, poolVars
  <2>2. Covered' /\ (~drifted' => Exact')
    BY <1>5, <1>9, <2>1, EndAlone, AccountsRemain, Zenon DEF InFlightStages
  <2> QED BY <1>5, <1>9, <2>2, EndAlone, Reassemble, RecordType, Zenon
<1>10. ASSUME NEW b \in members[request[c].gen], Acquire(request[c].gen, b), drifted' = TRUE,
              request' = [request EXCEPT ![c].stage = "sending", ![c].failed = f, ![c].asked = a,
                                         ![c].renewed = request[c].renewed \/ elapsed]
       PROVE  RequestInv'
  <2>0. b \in Backends
    BY <1>6, RecordType, Zenon
  <2>1. /\ request' \in [HTTPConns -> Records] /\ \A d \in HTTPConns \ {c} : request'[d] = request[d]
        /\ request'[c].gen = request[c].gen /\ request'[c].backend = request[c].backend /\ request'[c].stage = "sending"
        /\ request'[c].attempt = request[c].attempt /\ request'[c].failed = f /\ request'[c].asked = a
        /\ request'[c].renewed = TRUE
    <3>1. f \in 0 .. MaxAttempts /\ a \in 0 .. MaxAttempts /\ request \in [HTTPConns -> Records]
      BY <1>7, RecordType, Zenon
    <3>2. PICK r : r = [request[c] EXCEPT !.stage = "sending", !.failed = f, !.asked = a, !.renewed = TRUE]
      BY Zenon
    <3>3. (request[c].renewed \/ elapsed) = TRUE
      BY <1>8, Zenon
    <3>4. request' = [request EXCEPT ![c].stage = "sending", ![c].failed = f, ![c].asked = a, ![c].renewed = TRUE]
      BY <1>10, <3>3, Zenon
    <3>5. request' = [request EXCEPT ![c] = r]
      BY <3>1, <3>2, <3>4, Zenon
    <3>6. /\ r \in Records /\ r.stage = "sending" /\ r.failed = f /\ r.asked = a /\ r.renewed = TRUE
          /\ r.attempt = request[c].attempt /\ r.gen = request[c].gen /\ r.backend = request[c].backend
      BY <3>1, <3>2, RecordType, Zenon DEF Records, RequestStages
    <3> QED BY <3>1, <3>5, <3>6, Zenon
  <2>2. Handling(c)'
    BY <1>5, <1>6, <1>7, <2>1, Zenon DEF Handling, InFlightStages
  <2>3. Alone(c)
    BY <2>1, <2>2, Zenon DEF Alone
  <2>4. request[c].stage \notin InFlightStages /\ request'[c].stage \in InFlightStages
    BY <1>5, <2>1, Zenon DEF InFlightStages
  <2>5. Covered' /\ count' \in [Gens -> [Backends -> Nat]]
    BY <1>5, <1>6, <1>10, <2>0, <2>1, <2>3, <2>4, AcquireEnters, Zenon
  <2> QED BY <1>5, <1>10, <2>3, <2>5, Reassemble, RecordType, Zenon
<1> QED BY <1>1, <1>4, <1>9, <1>10, Zenon

(* An update of the pool changes no count; where it deletes a series, the  *)
(* gauge restarts at zero, below what it was.                              *)
LEMMA PoolSteps ==
  ASSUME RequestInv, HTTPPoolStep
  PROVE  RequestInv'
<1>0. HTTPTypeOK /\ PoolTypeOK
  BY Zenon DEF RequestInv, HTTPTypeOK
<1>1. UNCHANGED <<count, protocol>> /\ UNCHANGED <<retries, httpSem, httpConn, request, begun, drifted>>
  BY Zenon DEF HTTPPoolStep, httpOwnVars, SwapPool, Cleanup, Rebuild
<1>2. /\ \A l : HeldBy(l)' = HeldBy(l)
      /\ \A b : At(b)' = At(b)
      /\ \A l, b : Holders(l, b)' = Holders(l, b)
      /\ Open' = Open
  BY <1>1, Zenon DEF HeldBy, At, Holders, Underway, Open
<1>3. \A c \in HTTPConns : Handling(c)'
  BY <1>1, Zenon DEF RequestInv, Handling
<1>4. Covered'
  BY <1>1, <1>2, Zenon DEF RequestInv, Covered
<1>5. /\ PoolTypeOK' /\ (next' # NoUpdate => lb' + 1 \in Gens) /\ (~drifted' => Exact')
  <2>1. CASE SwapPool
    <3>1. next \in SUBSET Backends /\ lb + 1 \in Gens
      BY <1>0, <2>1, Zenon DEF SwapPool, PoolTypeOK, RequestInv
    <3>2. members' \in [Gens -> SUBSET Backends]
      BY <1>0, <2>1, <3>1, Zenon DEF SwapPool, PoolTypeOK
    <3>3. PoolTypeOK' /\ (next' # NoUpdate => lb' + 1 \in Gens)
      BY <1>0, <2>1, <3>1, <3>2, Zenon DEF SwapPool, PoolTypeOK
    <3>4. ~drifted' => Exact'
      BY <1>1, <1>2, <2>1, Zenon DEF SwapPool, RequestInv, Exact
    <3> QED BY <3>3, <3>4
  <2>2. ASSUME NEW new \in Memberships, Rebuild(new)
        PROVE  PoolTypeOK' /\ (next' # NoUpdate => lb' + 1 \in Gens) /\ (~drifted' => Exact')
    <3>1. new \in SUBSET Backends
      BY ServedPoolAssumption, Zenon
    <3>2. PoolTypeOK' /\ (next' # NoUpdate => lb' + 1 \in Gens)
      BY <1>0, <2>2, <3>1, Zenon DEF Rebuild, PoolTypeOK
    <3>3. ~drifted' => Exact'
      BY <1>1, <1>2, <2>2, Zenon DEF Rebuild, RequestInv, Exact
    <3> QED BY <3>2, <3>3
  <2>3. ASSUME NEW new \in Memberships, Cleanup(new)
        PROVE  PoolTypeOK' /\ (next' # NoUpdate => lb' + 1 \in Gens) /\ (~drifted' => Exact')
    <3>1. new \in SUBSET Backends
      BY ServedPoolAssumption, Zenon
    <3>2. /\ \A b \in Backends : gauge'[b] = 0 \/ gauge'[b] = gauge[b]
          /\ \A b \in Backends : b \notin cleaned' => gauge'[b] = gauge[b] /\ b \notin cleaned
          /\ gauge' = [b \in Backends |-> IF b \in members[lb] \ new THEN 0 ELSE gauge[b]]
      BY <2>3, Zenon DEF Cleanup
    <3>3. gauge' \in [Backends -> Int] /\ \A b \in Backends : gauge[b] \in Int
      BY <1>0, <3>2 DEF PoolTypeOK
    <3>4. cleaned' \in SUBSET Backends
      BY <1>0, <2>3, Zenon DEF Cleanup, PoolTypeOK
    <3>5. PoolTypeOK' /\ (next' # NoUpdate => lb' + 1 \in Gens)
      BY <1>0, <2>3, <3>1, <3>3, <3>4, Zenon DEF Cleanup, PoolTypeOK
    <3>6. ASSUME ~drifted' PROVE Exact'
      <4>1. Exact
        BY <1>1, <3>6, Zenon DEF RequestInv
      <4>2. \A b \in Backends : gauge'[b] <= Cardinality(At(b))
        BY <3>2, <4>1, LoadSets DEF Exact
      <4>3. \A b \in Backends : b \notin cleaned' => gauge'[b] = Cardinality(At(b))
        BY <3>2, <4>1, Zenon DEF Exact
      <4> QED BY <1>1, <1>2, <4>1, <4>2, <4>3, Zenon DEF Exact
    <3> QED BY <3>5, <3>6
  <2> QED BY <2>1, <2>2, <2>3, Zenon DEF HTTPPoolStep
<1>6. HTTPTypeOK'
  BY <1>0, <1>1, <1>5, Zenon DEF HTTPTypeOK
<1> QED BY <1>1, <1>2, <1>3, <1>4, <1>5, <1>6, Zenon DEF RequestInv

(* Every step keeps the invariant.                                         *)
LEMMA StepRequests == RequestInv /\ [HTTPNext]_httpVars => RequestInv'
<1> SUFFICES ASSUME RequestInv, [HTTPNext]_httpVars PROVE RequestInv'
  BY Zenon
<1>1. CASE UNCHANGED httpVars
  <2>1. /\ UNCHANGED <<protocol, lb, members, next, count, gauge, cleaned>>
        /\ UNCHANGED <<retries, httpSem, httpConn, request, begun, drifted>>
    BY <1>1, Zenon DEF httpVars, poolVars, httpOwnVars
  <2>2. HTTPTypeOK' /\ Open' = Open /\ \A c \in HTTPConns : Handling(c)'
    BY <2>1, Zenon DEF RequestInv, HTTPTypeOK, PoolTypeOK, Handling, Open
  <2>3. Covered'
    BY <2>1, Zenon DEF RequestInv, Covered, HeldBy, Underway
  <2>4. ~drifted => Exact'
    <3>1. /\ \A b : At(b)' = At(b)
          /\ \A l, b : Holders(l, b)' = Holders(l, b)
      BY <2>1, Zenon DEF HeldBy, At, Holders, Underway
    <3> QED BY <2>1, <3>1, Zenon DEF RequestInv, Exact
  <2> QED BY <2>1, <2>2, <2>3, <2>4, Zenon DEF RequestInv
<1>2. ASSUME NEW c \in HTTPConns, AdmitConn(c) \/ CloseConn(c) \/ Forget(c) \/ Arrive(c) \/ Handle(c)
      PROVE  RequestInv'
  <2>1. CASE Handle(c)
    BY <2>1, DirectorStep, SingleSteps, RespondStep, BufferStep, FailedSteps, GiveUpStep, RetryStep, Zenon
       DEF Handle, roundTripSingle, roundTripWithRetry
  <2> QED BY <1>2, <2>1, ConnSteps, ArriveStep, Zenon
<1> QED BY <1>1, <1>2, PoolSteps, Zenon DEF HTTPNext

(* The invariant says what InFlightCounted says, and RetriesWaitForWindow. *)
LEMMA InvCounted == RequestInv => InFlightCounted /\ RetriesWaitForWindow
<1> SUFFICES ASSUME RequestInv PROVE InFlightCounted /\ RetriesWaitForWindow
  BY Zenon
<1>1. \A g \in Gens : SumFunction(count[g]) >= Cardinality(HeldBy(g))
  <2>1. \A g \in Gens : DOMAIN count[g] = Backends
    BY Zenon DEF RequestInv, HTTPTypeOK, PoolTypeOK
  <2> QED BY <2>1, SumOfAll, Zenon DEF RequestInv, Covered
<1>2. httpSem = Cardinality({c \in HTTPConns : httpConn[c] = "open"})
  BY Zenon DEF RequestInv, Open
<1>3. ~drifted => \A b \in Backends :
        /\ \A g \in Gens : count[g][b] = Cardinality(HeldBy(g) \cap At(b))
        /\ gauge[b] <= Cardinality(At(b))
        /\ b \notin cleaned => gauge[b] = Cardinality(At(b))
  BY Zenon DEF RequestInv, Exact, Holders
<1>4. RetriesWaitForWindow
  <2> SUFFICES ASSUME NEW c \in HTTPConns, request[c].attempt > 0,
                      request[c].stage \in {"sending", "streaming"}, ~request[c].renewed
               PROVE  FALSE
    BY Zenon DEF RetriesWaitForWindow
  <2>1. request[c].attempt = 0
    BY Zenon DEF RequestInv, Handling
  <2> QED BY <2>1
<1> QED BY <1>1, <1>2, <1>3, <1>4, Zenon DEF RequestInv, InFlightCounted

(* The semaphore and the balancers' counts agree with the connections and  *)
(* the requests that are there, and the gauge as far as no update has      *)
(* deleted its series, for every number of connections, backends, updates  *)
(* and attempts.                                                           *)
THEOREM RequestsAreCounted == HTTPSpec => []InFlightCounted
<1>1. PoolInit /\ protocol = "http" /\ HTTPInit => RequestInv
  BY InitRequests, Zenon
<1>2. RequestInv /\ [HTTPNext]_httpVars => RequestInv'
  BY StepRequests, Zenon
<1>3. RequestInv => InFlightCounted
  BY InvCounted, Zenon
<1> QED BY <1>1, <1>2, <1>3, PTL DEF HTTPSpec

(* No request gets a second attempt before a window of its budget has run  *)
(* out, whatever the ratio, between 0 and 1, and the number of attempts:   *)
(* Budget.Allow refuses the first question of every request.               *)
THEOREM RetriesAlwaysWait == HTTPSpec => []RetriesWaitForWindow
<1>1. PoolInit /\ protocol = "http" /\ HTTPInit => RequestInv
  BY InitRequests, Zenon
<1>2. RequestInv /\ [HTTPNext]_httpVars => RequestInv'
  BY StepRequests, Zenon
<1>3. RequestInv => RetriesWaitForWindow
  BY InvCounted, Zenon
<1> QED BY <1>1, <1>2, <1>3, PTL DEF HTTPSpec

=============================================================================
