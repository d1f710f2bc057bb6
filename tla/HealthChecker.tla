---------------------------- MODULE HealthChecker ----------------------------
(***************************************************************************)
(* One started Checker of a pool (internal/health): a probing goroutine    *)
(* per backend that dials and then, under bh.mu, applies the result to the *)
(* hysteresis counters; the proxies' passive failure reports; and Stop.    *)
(* Dialling and applying are separate steps, so a probe's result may be    *)
(* stale when it is applied, and so may a proxy's report.                  *)
(*                                                                         *)
(* The counters are compared with their thresholds only by >=, so counting *)
(* up to CounterCap, which is at least both thresholds, loses nothing.     *)
(***************************************************************************)
EXTENDS Naturals

CONSTANTS
  Targets,              \* the pool's backends
  HealthyThreshold,     \* HealthCheckConfig.HealthyThreshold
  UnhealthyThreshold,   \* HealthCheckConfig.UnhealthyThreshold
  CounterCap            \* where the counters stop counting

ASSUME HealthAssumption ==
  /\ HealthyThreshold \in Nat \ {0}
  /\ UnhealthyThreshold \in Nat \ {0}
  /\ CounterCap \in Nat
  /\ CounterCap >= HealthyThreshold
  /\ CounterCap >= UnhealthyThreshold

VARIABLES
  healthy,             \* Server.healthy, which Pick reads
  consecutiveSuccess,  \* BackendHealth.consecutiveSuccess
  consecutiveFailure,  \* BackendHealth.consecutiveFailure
  probe,               \* what each backend's goroutine is doing
  report,              \* a client's dial failed and will be reported
  cancelled,           \* the context of Start has been cancelled by Stop
  alive,               \* whether the backend accepts connections
  okRun,               \* history: unbroken successful probes while unhealthy
  failRun              \* history: unbroken failed probes while healthy

health  == <<healthy, consecutiveSuccess, consecutiveFailure>>
history == <<okRun, failRun>>
checkerVars == <<healthy, consecutiveSuccess, consecutiveFailure, probe, report,
                 cancelled, alive, okRun, failRun>>

ProbeStates == {"waiting", "dialling", "ok", "failed", "exited"}

CheckerTypeOK ==
  /\ healthy \in [Targets -> BOOLEAN]
  /\ consecutiveSuccess \in [Targets -> 0 .. CounterCap]
  /\ consecutiveFailure \in [Targets -> 0 .. CounterCap]
  /\ probe \in [Targets -> ProbeStates]
  /\ report \in [Targets -> BOOLEAN]
  /\ cancelled \in BOOLEAN
  /\ alive \in [Targets -> BOOLEAN]
  /\ okRun \in [Targets -> 0 .. CounterCap]
  /\ failRun \in [Targets -> 0 .. CounterCap]

Bump(n) == IF n < CounterCap THEN n + 1 ELSE n

-----------------------------------------------------------------------------
(* NewChecker and Start: every backend begins healthy and each goroutine   *)
(* waits for its first, staggered tick.                                    *)
CheckerInit ==
  /\ healthy = [b \in Targets |-> TRUE]
  /\ consecutiveSuccess = [b \in Targets |-> 0]
  /\ consecutiveFailure = [b \in Targets |-> 0]
  /\ probe = [b \in Targets |-> "waiting"]
  /\ report = [b \in Targets |-> FALSE]
  /\ cancelled = FALSE
  /\ alive \in [Targets -> BOOLEAN]
  /\ okRun = [b \in Targets |-> 0]
  /\ failRun = [b \in Targets |-> 0]

(* The timer or the ticker fires.  A select with both channels ready       *)
(* chooses either, so this can still happen once after the cancellation.   *)
TickerFires(b) ==
  /\ probe[b] = "waiting"
  /\ probe' = [probe EXCEPT ![b] = "dialling"]
  /\ UNCHANGED <<health, report, cancelled, alive, history>>

(* A plausible slip: the context is looked at only while nothing has been  *)
(* counted, before the first probe.                                        *)
ContextDoneBeforeProbing(b) ==
  /\ probe[b] = "waiting" /\ cancelled
  /\ consecutiveSuccess[b] = 0 /\ consecutiveFailure[b] = 0
  /\ probe' = [probe EXCEPT ![b] = "exited"]
  /\ UNCHANGED <<health, report, cancelled, alive, history>>

(* The goroutine sees ctx.Done() and returns.                              *)
ContextDone(b) ==
  /\ probe[b] = "waiting" /\ cancelled
  /\ probe' = [probe EXCEPT ![b] = "exited"]
  /\ UNCHANGED <<health, report, cancelled, alive, history>>

(* checkTCP or checkHTTP: the dial ends.  A cancelled context makes it     *)
(* fail, unless it had already succeeded.                                  *)
checkTCP(b) ==
  /\ probe[b] = "dialling"
  /\ probe' = [probe EXCEPT ![b] = IF alive[b] /\ ~cancelled THEN "ok" ELSE "failed"]
  /\ UNCHANGED <<health, report, cancelled, alive, history>>

(* A plausible slip: successes are only counted, never acted on.           *)
SuccessOnlyCounted(b) ==
  /\ probe[b] = "ok"
  /\ consecutiveFailure' = [consecutiveFailure EXCEPT ![b] = 0]
  /\ consecutiveSuccess' = [consecutiveSuccess EXCEPT ![b] = Bump(@)]
  /\ probe' = [probe EXCEPT ![b] = "waiting"]
  /\ okRun' = [okRun EXCEPT ![b] = IF healthy[b] THEN 0 ELSE Bump(@)]
  /\ failRun' = [failRun EXCEPT ![b] = 0]
  /\ UNCHANGED <<healthy, report, cancelled, alive>>

(* runCheck, second half, after a successful probe.                        *)
ApplySuccess(b) ==
  LET cs == Bump(consecutiveSuccess[b])
      recovers == ~healthy[b] /\ cs >= HealthyThreshold IN
  /\ probe[b] = "ok"
  /\ consecutiveFailure' = [consecutiveFailure EXCEPT ![b] = 0]
  /\ consecutiveSuccess' = [consecutiveSuccess EXCEPT ![b] = IF recovers THEN 0 ELSE cs]
  /\ healthy' = [healthy EXCEPT ![b] = @ \/ recovers]
  /\ probe' = [probe EXCEPT ![b] = "waiting"]
  /\ okRun' = [okRun EXCEPT ![b] = IF healthy[b] THEN 0 ELSE Bump(@)]
  /\ failRun' = [failRun EXCEPT ![b] = 0]
  /\ UNCHANGED <<report, cancelled, alive>>

(* runCheck, second half, after a failed probe.                            *)
ApplyFailure(b) ==
  LET cf == Bump(consecutiveFailure[b])
      fails == healthy[b] /\ cf >= UnhealthyThreshold IN
  /\ probe[b] = "failed"
  /\ consecutiveSuccess' = [consecutiveSuccess EXCEPT ![b] = 0]
  /\ consecutiveFailure' = [consecutiveFailure EXCEPT ![b] = IF fails THEN 0 ELSE cf]
  /\ healthy' = [healthy EXCEPT ![b] = @ /\ ~fails]
  /\ probe' = [probe EXCEPT ![b] = "waiting"]
  /\ okRun' = [okRun EXCEPT ![b] = 0]
  /\ failRun' = [failRun EXCEPT ![b] = IF healthy[b] THEN Bump(@) ELSE 0]
  /\ UNCHANGED <<report, cancelled, alive>>

(* A proxy picks a healthy backend and its dial fails; the report is still *)
(* to be made (proxy/l4, proxy/l7).                                        *)
ClientDialFails(b) ==
  /\ healthy[b] /\ ~alive[b] /\ ~report[b]
  /\ report' = [report EXCEPT ![b] = TRUE]
  /\ UNCHANGED <<health, probe, cancelled, alive, history>>

(* A plausible slip: the successes counted so far survive the report.      *)
ReportKeepsSuccesses(b) ==
  /\ report[b]
  /\ report' = [report EXCEPT ![b] = FALSE]
  /\ healthy' = [healthy EXCEPT ![b] = FALSE]
  /\ okRun' = [okRun EXCEPT ![b] = IF healthy[b] THEN 0 ELSE @]
  /\ failRun' = [failRun EXCEPT ![b] = 0]
  /\ UNCHANGED <<consecutiveSuccess, consecutiveFailure, probe, cancelled, alive>>

ReportFailure(b) ==
  /\ report[b]
  /\ report' = [report EXCEPT ![b] = FALSE]
  /\ IF healthy[b]
       THEN /\ healthy' = [healthy EXCEPT ![b] = FALSE]
            /\ consecutiveSuccess' = [consecutiveSuccess EXCEPT ![b] = 0]
            /\ okRun' = [okRun EXCEPT ![b] = 0]
            /\ failRun' = [failRun EXCEPT ![b] = 0]
       ELSE UNCHANGED <<healthy, consecutiveSuccess, history>>
  /\ UNCHANGED <<consecutiveFailure, probe, cancelled, alive>>

(* Stop cancels the context and then waits for every goroutine to exit.    *)
Stop ==
  /\ ~cancelled /\ cancelled' = TRUE
  /\ UNCHANGED <<health, probe, report, alive, history>>

(* The backend itself, which the checker only observes.                    *)
AliveFlips(b) ==
  /\ alive' = [alive EXCEPT ![b] = ~@]
  /\ UNCHANGED <<health, probe, report, cancelled, history>>

Prober(b) == TickerFires(b) \/ ContextDone(b) \/ checkTCP(b) \/ ApplySuccess(b) \/ ApplyFailure(b)

CheckerNext ==
  \/ \E b \in Targets : Prober(b) \/ ClientDialFails(b) \/ ReportFailure(b) \/ AliveFlips(b)
  \/ Stop

CheckerSpec == CheckerInit /\ [][CheckerNext]_checkerVars

(* Go schedules every runnable goroutine, a probe's dial ends within its   *)
(* timeout, and a select that always finds ctx.Done() ready eventually     *)
(* takes it (a strong fairness: the ticker may win any number of times).   *)
CheckerFairness ==
  \A b \in Targets : /\ WF_checkerVars(Prober(b))
                      /\ SF_checkerVars(ContextDone(b))
                      /\ WF_checkerVars(ReportFailure(b))

FairCheckerSpec == CheckerSpec /\ CheckerFairness

-----------------------------------------------------------------------------
(* "Recovery still requires healthy_threshold consecutive active           *)
(* successes": a backend turns healthy only after that many successful     *)
(* probes, unbroken, all applied while it was unhealthy.                   *)
RecoveryEarned(b) ==
  ~healthy[b] /\ healthy'[b] => okRun'[b] >= HealthyThreshold

(* Active probing takes a backend out only after unhealthy_threshold       *)
(* failed probes, unbroken, all applied while it was healthy; the only     *)
(* other way out is a client's failed dial.                                *)
RemovalEarned(b) ==
  healthy[b] /\ ~healthy'[b] =>
    failRun'[b] >= UnhealthyThreshold \/ (report[b] /\ ~report'[b])

(* Every change of the flag that Pick reads has been earned, whatever the  *)
(* order in which probe results, client reports and a late result of an    *)
(* earlier probe are applied (runCheck and ReportFailure).                 *)
ChangesAreEarned ==
  [][\A b \in Targets : RecoveryEarned(b) /\ RemovalEarned(b)]_checkerVars

(* A backend that answers for good is served again for good, even if a     *)
(* late report or a stale probe result hits it after it came back; one     *)
(* that is down for good stops being picked for good, although a probe     *)
(* that dialled before it went down is still to be applied.                *)
FlagSettles ==
  \A b \in Targets :
    /\ <>[](alive[b] /\ ~cancelled) => <>[]healthy[b]
    /\ <>[](~alive[b] /\ ~cancelled) => <>[]~healthy[b]

(* Stop returns: after the cancellation every probing goroutine exits, so  *)
(* the wait on c.done ends.                                                *)
StopReturns == cancelled ~> \A b \in Targets : probe[b] = "exited"

=============================================================================
