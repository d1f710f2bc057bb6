------------------------------ MODULE Breaker ------------------------------
(***************************************************************************)
(* The circuit breaker of one backend (internal/circuitbreaker).  Every    *)
(* method of Breaker runs under b.mu, so each is one atomic action.  The   *)
(* callers are requests: a request asks Allow, is in flight until the      *)
(* backend's answer or failure is observed, and reports what it observed   *)
(* with RecordSuccess or RecordFailure, by which time both the breaker and *)
(* the backend may have moved on.                                          *)
(*                                                                         *)
(* Time: only time.Since(openedAt) >= openDuration is ever read, so the    *)
(* clock is the age of the open state, counted up to OpenDuration.         *)
(***************************************************************************)
EXTENDS Naturals, FiniteSets

CONSTANTS
  FailureThreshold,    \* consecutive failures that open the circuit
  OpenDuration,        \* clock ticks an open circuit waits
  HalfOpenMaxProbes,   \* requests let through while half-open
  Requests             \* the request slots that use the breaker

ASSUME BreakerAssumption ==
  /\ FailureThreshold \in Nat \ {0}
  /\ OpenDuration \in Nat \ {0}
  /\ HalfOpenMaxProbes \in Nat \ {0}
  /\ IsFiniteSet(Requests)

VARIABLES
  state,            \* Breaker.state
  consecutiveFail,  \* Breaker.consecutiveFail
  halfOpenProbes,   \* Breaker.halfOpenProbes
  age,              \* time since Breaker.openedAt, up to OpenDuration
  circuitOpen,      \* the Server's atomic flag that Pick reads
  req,              \* what each request slot is doing
  result,           \* what each request has observed of the backend
  up                \* whether the backend answers requests well

breaker == <<state, consecutiveFail, halfOpenProbes, age, circuitOpen>>
vars    == <<state, consecutiveFail, halfOpenProbes, age, circuitOpen, req, result, up>>

States   == {"closed", "open", "halfopen"}

(* "normal" was let through while the circuit was closed, "probe" in the   *)
(* current half-open episode, "stale" in a half-open episode that has been *)
(* decided by another request since.                                       *)
ReqKinds == {"idle", "normal", "probe", "stale"}
InFlight(r) == req[r] # "idle"

Results == {"none", "success", "failure"}

(* The requests after the breaker leaves half-open and r has finished.     *)
Retired(r) == [q \in Requests |-> IF q = r THEN "idle"
                                  ELSE IF req[q] = "probe" THEN "stale"
                                  ELSE req[q]]
Finished(r) == [req EXCEPT ![r] = "idle"]
Reported(r) == [result EXCEPT ![r] = "none"]

TypeOK ==
  /\ state \in States
  /\ consecutiveFail \in 0 .. FailureThreshold
  /\ halfOpenProbes \in 0 .. HalfOpenMaxProbes
  /\ age \in 0 .. OpenDuration
  /\ circuitOpen \in BOOLEAN
  /\ req \in [Requests -> ReqKinds]
  /\ result \in [Requests -> Results]
  /\ up \in BOOLEAN

-----------------------------------------------------------------------------
Init ==
  /\ state = "closed"
  /\ consecutiveFail = 0
  /\ halfOpenProbes = 0
  /\ age = 0
  /\ circuitOpen = FALSE
  /\ req = [r \in Requests |-> "idle"]
  /\ result = [r \in Requests |-> "none"]
  /\ up \in BOOLEAN

openCircuit ==
  /\ state' = "open"
  /\ consecutiveFail' = 0
  /\ halfOpenProbes' = 0
  /\ age' = 0
  /\ circuitOpen' = TRUE

(* The backend answers, or fails, the request: what it observes is settled *)
(* here, and reported later.                                               *)
Answered(r) ==
  /\ InFlight(r) /\ result[r] = "none"
  /\ result' = [result EXCEPT ![r] = IF up THEN "success" ELSE "failure"]
  /\ UNCHANGED <<breaker, req, up>>

(* A plausible slip: a success in the closed state does not reset the      *)
(* failure count, so that failures add up that were not consecutive.       *)
RecordSuccessKeepsCount(r) ==
  /\ InFlight(r) /\ result[r] = "success"
  /\ \/ /\ state = "halfopen"
        /\ state' = "closed"
        /\ consecutiveFail' = 0
        /\ halfOpenProbes' = 0
        /\ circuitOpen' = FALSE
        /\ req' = Retired(r)
        /\ UNCHANGED age
     \/ /\ state \in {"closed", "open"}
        /\ req' = Finished(r)
        /\ UNCHANGED breaker
  /\ result' = Reported(r)
  /\ UNCHANGED up

RecordSuccess(r) ==
  /\ InFlight(r) /\ result[r] = "success"
  /\ \/ /\ state = "halfopen"
        /\ state' = "closed"
        /\ consecutiveFail' = 0
        /\ halfOpenProbes' = 0
        /\ circuitOpen' = FALSE
        /\ req' = Retired(r)
        /\ UNCHANGED age
     \/ /\ state = "closed"
        /\ consecutiveFail' = 0
        /\ req' = Finished(r)
        /\ UNCHANGED <<state, halfOpenProbes, age, circuitOpen>>
     \/ /\ state = "open"
        /\ req' = Finished(r)
        /\ UNCHANGED breaker
  /\ result' = Reported(r)
  /\ UNCHANGED up

RecordFailure(r) ==
  /\ InFlight(r) /\ result[r] = "failure"
  /\ \/ /\ state = "closed"
        /\ consecutiveFail + 1 < FailureThreshold
        /\ consecutiveFail' = consecutiveFail + 1
        /\ req' = Finished(r)
        /\ UNCHANGED <<state, halfOpenProbes, age, circuitOpen>>
     \/ /\ state = "closed"
        /\ consecutiveFail + 1 >= FailureThreshold
        /\ openCircuit
        /\ req' = Finished(r)
     \/ /\ state = "halfopen"
        /\ openCircuit
        /\ req' = Retired(r)
     \/ /\ state = "open"
        /\ req' = Finished(r)
        /\ UNCHANGED breaker
  /\ result' = Reported(r)
  /\ UNCHANGED up

(* A plausible slip: the request that finds the circuit aged is let        *)
(* through without being counted as a probe.                               *)
AllowFirstUncounted(r) ==
  /\ ~InFlight(r)
  /\ \/ state = "closed" /\ req' = [req EXCEPT ![r] = "normal"] /\ UNCHANGED breaker
     \/ /\ state = "open" /\ age >= OpenDuration
        /\ state' = "halfopen" /\ halfOpenProbes' = 0 /\ circuitOpen' = FALSE
        /\ req' = [req EXCEPT ![r] = "probe"]
        /\ UNCHANGED <<consecutiveFail, age>>
     \/ /\ state = "halfopen" /\ halfOpenProbes < HalfOpenMaxProbes
        /\ halfOpenProbes' = halfOpenProbes + 1
        /\ req' = [req EXCEPT ![r] = "probe"]
        /\ UNCHANGED <<state, consecutiveFail, age, circuitOpen>>
  /\ UNCHANGED <<result, up>>

(* A plausible slip: Allow leaves the cooling down to State().             *)
AllowNeverCools(r) ==
  /\ ~InFlight(r)
  /\ \/ state = "closed" /\ req' = [req EXCEPT ![r] = "normal"] /\ UNCHANGED breaker
     \/ /\ state = "halfopen" /\ halfOpenProbes < HalfOpenMaxProbes
        /\ halfOpenProbes' = halfOpenProbes + 1
        /\ req' = [req EXCEPT ![r] = "probe"]
        /\ UNCHANGED <<state, consecutiveFail, age, circuitOpen>>
  /\ UNCHANGED <<result, up>>

(* Allow returns true; a call that returns false changes nothing.          *)
Allow(r) ==
  /\ ~InFlight(r)
  /\ \/ /\ state = "closed"
        /\ req' = [req EXCEPT ![r] = "normal"]
        /\ UNCHANGED breaker
     \/ /\ state = "open" /\ age >= OpenDuration
        /\ state' = "halfopen"
        /\ halfOpenProbes' = 1
        /\ circuitOpen' = FALSE
        /\ req' = [req EXCEPT ![r] = "probe"]
        /\ UNCHANGED <<consecutiveFail, age>>
     \/ /\ state = "halfopen" /\ halfOpenProbes < HalfOpenMaxProbes
        /\ halfOpenProbes' = halfOpenProbes + 1
        /\ req' = [req EXCEPT ![r] = "probe"]
        /\ UNCHANGED <<state, consecutiveFail, age, circuitOpen>>
  /\ UNCHANGED <<result, up>>

(* State(), which is not a pure read: it turns an aged open circuit        *)
(* half-open.                                                              *)
State ==
  /\ state = "open" /\ age >= OpenDuration
  /\ state' = "halfopen"
  /\ halfOpenProbes' = 0
  /\ circuitOpen' = FALSE
  /\ UNCHANGED <<consecutiveFail, age, req, result, up>>

(* The clock and the backend, which the breaker only observes.             *)
Tick ==
  /\ state = "open" /\ age < OpenDuration
  /\ age' = age + 1
  /\ UNCHANGED <<state, consecutiveFail, halfOpenProbes, circuitOpen, req, result, up>>

BackendFlips ==
  /\ up' = ~up
  /\ UNCHANGED <<breaker, req, result>>

Next ==
  \/ \E r \in Requests : Allow(r) \/ Answered(r) \/ RecordSuccess(r) \/ RecordFailure(r)
  \/ State \/ Tick \/ BackendFlips

Spec == Init /\ [][Next]_vars

(* Requests keep arriving, every request in flight is answered or fails    *)
(* (each proxy dials under a timeout) and reports it, and time passes.     *)
(* Nobody has to read State().                                             *)
Fairness ==
  /\ WF_vars(Tick)
  /\ \A r \in Requests :
       /\ WF_vars(Allow(r))
       /\ WF_vars(Answered(r))
       /\ WF_vars(RecordSuccess(r) \/ RecordFailure(r))

FairSpec == Spec /\ Fairness

-----------------------------------------------------------------------------
(* Pick skips the backend exactly while the breaker is open: the flag the  *)
(* balancers read (balancer/backend.go) never lags behind the state kept   *)
(* under the breaker's mutex.                                              *)
FlagMirrorsState == circuitOpen <=> state = "open"

(* In a half-open episode the breaker's counter is the number of requests  *)
(* it let through that are still undecided, so no probe is forgotten and   *)
(* the bound of half_open_max_probes is the bound on undecided probes.     *)
ProbesAccounted ==
  LET probing == {r \in Requests : req[r] = "probe"} IN
  IF state = "halfopen" THEN Cardinality(probing) = halfOpenProbes ELSE probing = {}

(* The flag and the probe counter, which other code relies on without the  *)
(* breaker's mutex, agree with its state after every call, in any order of *)
(* concurrent requests and of their late outcomes.                         *)
BreakerAccounts == FlagMirrorsState /\ ProbesAccounted

(* Every step of the breaker is a step of the documented machine, with its *)
(* threshold of consecutive failures, its cool-down and its bound on the   *)
(* undecided probes, or the one step the documents do not have: a half-    *)
(* open episode decided by a request let through before it.                *)
Phases == INSTANCE CircuitPhases WITH
            phase <- state, fails <- consecutiveFail, waited <- age,
            probes  <- {r \in Requests : req[r] = "probe"},
            earlier <- {r \in Requests : req[r] \in {"normal", "stale"}}
ImplementsPhases == Phases!Spec

(* Once the backend answers well for good, the circuit closes for good,    *)
(* although failures observed before are still reported after: they may    *)
(* open it again, but not for ever.                                        *)
RecoveredBackendCloses == <>[]up => <>[](state = "closed" /\ ~circuitOpen)

=============================================================================
