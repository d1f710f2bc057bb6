--------------------------- MODULE CircuitPhases ---------------------------
(***************************************************************************)
(* What a per-backend circuit breaker promises: the state machine of the   *)
(* package comment of internal/circuitbreaker and of the README, with its  *)
(* threshold, its cool-down and its bound on probes, in terms of the       *)
(* requests let through and their outcomes.                                *)
(*                                                                         *)
(* One action, Overtake, is not in those documents.  They say that a probe *)
(* decides a half-open episode; the code lets the first outcome reported   *)
(* decide it, and that may be the outcome of a request let through before. *)
(* The documented machine is Next without Overtake.                        *)
(***************************************************************************)
EXTENDS Naturals, FiniteSets

CONSTANTS FailureThreshold, OpenDuration, HalfOpenMaxProbes, Requests

VARIABLES
  phase,    \* "closed", "open" or "halfopen"
  fails,    \* failures in a row, counted while closed
  waited,   \* how long the circuit has been open
  probes,   \* the requests let through in this half-open episode
  earlier   \* the other requests in flight

phases == <<phase, fails, waited, probes, earlier>>

Init ==
  phase = "closed" /\ fails = 0 /\ waited = 0 /\ probes = {} /\ earlier = {}

-----------------------------------------------------------------------------
(* Closed: traffic flows, and FailureThreshold failures in a row, with no  *)
(* success among them, open the circuit.                                   *)
LetThrough(r) ==
  /\ phase = "closed" /\ r \notin earlier
  /\ earlier' = earlier \cup {r}
  /\ UNCHANGED <<phase, fails, waited, probes>>

Succeed(r) ==
  /\ phase = "closed" /\ r \in earlier
  /\ fails' = 0
  /\ earlier' = earlier \ {r}
  /\ UNCHANGED <<phase, waited, probes>>

Fail(r) ==
  /\ phase = "closed" /\ r \in earlier
  /\ fails + 1 < FailureThreshold
  /\ fails' = fails + 1
  /\ earlier' = earlier \ {r}
  /\ UNCHANGED <<phase, waited, probes>>

Trip(r) ==
  /\ phase = "closed" /\ r \in earlier
  /\ fails + 1 = FailureThreshold
  /\ phase' = "open" /\ fails' = 0 /\ waited' = 0
  /\ earlier' = earlier \ {r}
  /\ UNCHANGED probes

-----------------------------------------------------------------------------
(* Open: nobody is let through, outcomes change nothing, and OpenDuration  *)
(* later the circuit turns half-open, for a request that asks or because   *)
(* the state is read.                                                      *)
Wait ==
  /\ phase = "open"
  /\ waited' = waited + 1
  /\ UNCHANGED <<phase, fails, probes, earlier>>

Ignore(r) ==
  /\ phase = "open" /\ r \in earlier
  /\ earlier' = earlier \ {r}
  /\ UNCHANGED <<phase, fails, waited, probes>>

CoolDown ==
  /\ phase = "open" /\ waited >= OpenDuration
  /\ phase' = "halfopen"
  /\ probes' \in {{}} \cup {{r} : r \in Requests \ earlier}
  /\ UNCHANGED <<fails, waited, earlier>>

-----------------------------------------------------------------------------
(* Half-open: up to HalfOpenMaxProbes requests are let through, and an     *)
(* outcome closes the circuit or opens it for another OpenDuration.        *)
Probe(r) ==
  /\ phase = "halfopen" /\ r \notin probes \cup earlier
  /\ Cardinality(probes) < HalfOpenMaxProbes
  /\ probes' = probes \cup {r}
  /\ UNCHANGED <<phase, fails, waited, earlier>>

Decided(r) ==
  /\ phase = "halfopen"
  /\ \/ phase' = "closed" /\ UNCHANGED waited
     \/ phase' = "open" /\ waited' = 0
  /\ fails' = 0
  /\ probes' = {}
  /\ earlier' = (earlier \cup probes) \ {r}

Settle(r)   == r \in probes  /\ Decided(r)
Overtake(r) == r \in earlier /\ Decided(r)

Next ==
  \/ Wait \/ CoolDown
  \/ \E r \in Requests :
       \/ LetThrough(r) \/ Succeed(r) \/ Fail(r) \/ Trip(r)
       \/ Ignore(r) \/ Probe(r) \/ Settle(r) \/ Overtake(r)

Spec == Init /\ [][Next]_phases
=============================================================================
