--------------------------- MODULE BreakerInProxy ---------------------------
(***************************************************************************)
(* The breaker as the running program uses it.  The proxies choose a       *)
(* backend with Pick, which skips one whose circuitOpen flag is set, and   *)
(* report the outcome through runtime.BackendOutcome.  No code outside the *)
(* package's tests calls Allow or State, so neither is an action here.     *)
(***************************************************************************)
EXTENDS Breaker

(* The eligibility test all five balancers apply in Pick, for a backend    *)
(* that is healthy and not draining.                                       *)
Pick(r) ==
  /\ ~InFlight(r)
  /\ ~circuitOpen
  /\ req' = [req EXCEPT ![r] = "normal"]
  /\ UNCHANGED <<breaker, result, up>>

(* BackendOutcome finds the breaker by the backend's address and forwards. *)
BackendOutcome(r) == RecordSuccess(r) \/ RecordFailure(r)

ProxyNext ==
  \/ \E r \in Requests : Pick(r) \/ Answered(r) \/ BackendOutcome(r)
  \/ Tick \/ BackendFlips

(* Time passes, clients keep coming, and every request in flight ends.     *)
ProxyFairSpec ==
  /\ Init /\ [][ProxyNext]_vars
  /\ WF_vars(Tick)
  /\ \A r \in Requests : WF_vars(Pick(r)) /\ WF_vars(Answered(r)) /\ WF_vars(BackendOutcome(r))

(* "After `open_duration` elapses -> Half-Open" (README, circuit breaker    *)
(* state machine): an open circuit does not stay open.                     *)
OpenCircuitHalfOpens == state = "open" ~> state = "halfopen"

=============================================================================
