------------------------------- MODULE Lifecycle -------------------------------
(***************************************************************************)
(* The process as a whole: main and the restart (Restart) with the admin   *)
(* server (AdminServer), whose requests ask for a restart and whose Close  *)
(* main has to wait for.                                                   *)
(***************************************************************************)
EXTENDS Restart, AdminServer

ASSUME LifecycleAssumption == Posts \subseteq Requests

lifecycleVars == <<restartVars, adminVars>>

LifecycleInit == RestartInit /\ AdminInit

(* A POST of /admin/restart is a request that holds its place until        *)
(* restartFn has returned; handlers outlive the HTTP server's shutdown.    *)
PostStep(r) ==
  /\ TriggerStep(r)
  /\ IF stage'[r] = "idle" THEN RequestEnds(r) ELSE UNCHANGED adminVars

Asks(r) == r \in rest /\ RestartRequest(r) /\ UNCHANGED adminVars

(* Another kind of request, or the start of any.                           *)
RestStep(r) ==
  /\ Alive /\ UNCHANGED restartVars
  /\ \/ RequestBegins(r)
     \/ RequestEnds(r) /\ (r \in Posts => stage[r] = "idle")

SignalStep == TriggerStep("SIGUSR2") /\ UNCHANGED adminVars

Viewing(step) == Alive /\ step /\ UNCHANGED restartVars

(* main calls Close, a first time while it shuts down and a second time    *)
(* in its deferred calls, and goes on when it has returned.                *)
CallsClose == (AdminListenerCloses \/ AdminClosesAgain) /\ AdminClose

CloseReturned == shutdown = "returned" /\ (AdminClosed \/ AdminClosedAgain) /\ UNCHANGED adminVars

Closing == Alive /\ CloseStep /\ UNCHANGED restartVars

MainAlone ==
  /\ LeaveService \/ ProxiesClosed \/ StopSIGUSR2 \/ \E l \in Proxies : ProxyCloses(l)
  /\ UNCHANGED adminVars

(* The process ends: main returns, the SIGUSR2 handler panics, or a signal *)
(* kills it.                                                               *)
MainExits == Exit /\ AdminGone
HandlerPanics == HandlerReturns /\ AdminGone
Killed == KillSignal /\ AdminGone

ProcessStep == MainAlone \/ CallsClose \/ CloseReturned \/ Closing \/ MainExits

LifecycleNext ==
  \/ (Usr2 \/ SignalTaken \/ StopSignal) /\ UNCHANGED adminVars
  \/ SignalStep
  \/ \E r \in Posts : Asks(r) \/ PostStep(r)
  \/ \E r \in Requests : RestStep(r)
  \/ \E v \in Viewers : Viewing(ViewerStep(v))
  \/ ChildStep /\ UNCHANGED adminVars
  \/ ProcessStep \/ HandlerPanics \/ Killed

(* Goroutines that can run do; the timer of Trigger, the deadline of a     *)
(* write and the contexts of Close expire; select takes either of what     *)
(* stays ready.  Nobody has to ask for anything, no child has to become    *)
(* ready or to fail, and no viewer has to leave.                           *)
LifecycleSpec ==
  /\ LifecycleInit /\ [][LifecycleNext]_lifecycleVars
  /\ WF_lifecycleVars(ProcessStep)
  /\ WF_lifecycleVars(SignalStep)
  /\ \A r \in Posts : WF_lifecycleVars(PostStep(r))
  /\ \A v \in Viewers :
       /\ WF_lifecycleVars(Viewing(HandlerStep(v)))
       /\ WF_lifecycleVars(Viewing(link[v] # "open" /\ ReaderEnds(v)))
       /\ SF_lifecycleVars(Viewing(ReaderNoticed(v)))

-----------------------------------------------------------------------------
(* A handoff comes to its end, whatever the child does: it is ready, or it *)
(* is given up, and the lock is free for another restart (handoffTimeout,  *)
(* restart.go:143-185, and inProgress, 72-75).                             *)
HandoffsEnd == []<>~inProgress

(* A process that has begun to shut down ends, however long the viewers of *)
(* its dashboard would stay, unless one that was hijacked came to wsConns  *)
(* after Close had been through it: Close waits for that one without a     *)
(* limit (main.go:315-366, server.go:272-285).                             *)
ShutdownEnds == []<>(main = "serving" \/ ~Alive \/ overtaken # {})

(* Once the connection of a viewer is lost or closed, its handler ends and *)
(* gives the descriptor back, and its reader does not outlive it for good  *)
(* (serve, websocket.go:229-264).                                          *)
NoViewerLeak ==
  \A v \in Viewers :
    []<>(link[v] \notin {"gone", "closed"} /\ (viewer[v] = "none" => ~reader[v]))
=============================================================================
