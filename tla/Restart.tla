-------------------------------- MODULE Restart --------------------------------
(***************************************************************************)
(* The zero-downtime restart and the life of the process around it: how    *)
(* main waits and shuts down (cmd/lb/main.go), how SIGUSR2 and POST        *)
(* /admin/restart start a handoff (cmd/lb/lifecycle.go, internal/restart), *)
(* and what becomes of the children.                                       *)
(*                                                                         *)
(* One process is followed in detail, from serving to its exit.  A child   *)
(* is started with the listeners it inherits and binds the others itself;  *)
(* it fails, hangs or becomes ready, and is then a process of this kind of *)
(* its own (handoff = TRUE).  The configuration is the same for all.       *)
(***************************************************************************)
EXTENDS Naturals, FiniteSets

CONSTANTS
  Proxies,    \* names of the configured listeners
  Posts,      \* POST /admin/restart requests that may be there at a time
  Children    \* bound: children alive at a time are numbered 1 .. Children

ASSUME RestartAssumption ==
  /\ {"_admin", "_metrics"} \cap Proxies = {}
  /\ "SIGUSR2" \notin Posts
  /\ Children \in Nat

Listeners == Proxies \cup {"_admin", "_metrics"}
Triggers  == Posts \cup {"SIGUSR2"}
Places    == 1 .. Children
NoChild   == 0

VARIABLES
  main,         \* where run() is
  open,         \* the listeners this process has open
  stopAsked,    \* SIGINT or SIGTERM was sent to it
  restartCh,    \* the channel, of capacity 1, that ends waitForSignal
  handoff,      \* IsHandoff: this process was itself started by a handoff
  mtls,         \* the admin listener is a tls.Listener, whose File fails
  usr2,         \* a SIGUSR2 in the handler's channel, of capacity 1
  done,         \* the SIGUSR2 handler's done channel is closed
  stage,        \* each trigger: "idle", "gathered", "waiting", "succeeded"
  files,        \* the duplicated descriptors it holds
  childOf,      \* the child it waits for
  inProgress,   \* restart.inProgress is locked
  child,        \* each child: "none", "starting", "ready", "dead"
  inherited,    \* the listeners passed to each child
  handedOver    \* history: the children Trigger returned nil for

process  == <<main, open, stopAsked, restartCh, handoff, mtls>>
signals  == <<usr2, done>>
triggers == <<stage, files, childOf, inProgress>>
children == <<child, inherited, handedOver>>
restartVars == <<process, signals, triggers, children>>

Gone == {"exited", "crashed"}
Alive == main \notin Gone
Stages == {"serving", "closingAdmin", "closingProxies", "returning", "unhooked",
           "closingAgain", "closingMetrics"} \cup Gone

RestartTypes ==
  /\ main \in Stages
  /\ open \in SUBSET Listeners
  /\ stopAsked \in BOOLEAN /\ restartCh \in BOOLEAN
  /\ handoff \in BOOLEAN /\ mtls \in BOOLEAN
  /\ usr2 \in BOOLEAN /\ done \in BOOLEAN
  /\ stage \in [Triggers -> {"idle", "gathered", "waiting", "succeeded"}]
  /\ files \in [Triggers -> SUBSET Listeners]
  /\ childOf \in [Triggers -> Places \cup {NoChild}]
  /\ inProgress \in BOOLEAN
  /\ child \in [Places -> {"none", "starting", "ready", "dead"}]
  /\ inherited \in [Places -> SUBSET Listeners]
  /\ handedOver \in SUBSET Places

(* run() has started everything and is in waitForSignal.                   *)
RestartInit ==
  /\ main = "serving" /\ open = Listeners
  /\ stopAsked = FALSE /\ restartCh = FALSE
  /\ handoff \in BOOLEAN /\ mtls \in BOOLEAN
  /\ usr2 = FALSE /\ done = FALSE
  /\ stage = [t \in Triggers |-> "idle"]
  /\ files = [t \in Triggers |-> {}]
  /\ childOf = [t \in Triggers |-> NoChild]
  /\ inProgress = FALSE
  /\ child = [k \in Places |-> "none"]
  /\ inherited = [k \in Places |-> {}]
  /\ handedOver = {}

-----------------------------------------------------------------------------
(* Asking for a restart                                                    *)

(* SIGUSR2 arrives.  Only a process that was not started by a handoff      *)
(* listens for it; the channel keeps one, and loses more.                  *)
Usr2 ==
  /\ Alive /\ ~handoff /\ ~done
  /\ usr2' = TRUE
  /\ UNCHANGED <<process, done, triggers, children>>

(* triggerRestart: a duplicate of every listener that File can give one    *)
(* for; a closed listener and a tls.Listener are skipped.                  *)
Gather(t) ==
  /\ Alive /\ stage[t] = "idle"
  /\ files' = [files EXCEPT ![t] = open \ (IF mtls THEN {"_admin"} ELSE {})]
  /\ stage' = [stage EXCEPT ![t] = "gathered"]
  /\ UNCHANGED <<process, done, childOf, inProgress, children>>

(* The goroutine of ListenSIGUSR2 takes the signal and calls fn.           *)
SignalTaken ==
  /\ usr2 /\ usr2' = FALSE
  /\ Gather("SIGUSR2")

(* POST /admin/restart, which runs restartFn before it answers.            *)
RestartRequest(r) == Gather(r) /\ UNCHANGED usr2

(* Trigger up to cmd.Start: refused while another holds inProgress or with *)
(* nothing to hand over, or the pipe or the exec fails, and the duplicates *)
(* are left to the garbage collector; else a child has the descriptors and *)
(* the caller waits.                                                       *)
Refused(t) ==
  /\ Alive /\ stage[t] = "gathered"
  /\ stage' = [stage EXCEPT ![t] = "idle"]
  /\ files' = [files EXCEPT ![t] = {}]
  /\ UNCHANGED <<process, signals, childOf, inProgress, children>>

(* A plausible slip: nobody looks at inProgress.                           *)
StartedUnguarded(t, k) ==
  /\ Alive /\ stage[t] = "gathered" /\ files[t] # {}
  /\ child[k] = "none" /\ \A j \in Places : child[j] = "none" => k <= j
  /\ inProgress' = TRUE
  /\ child' = [child EXCEPT ![k] = "starting"]
  /\ inherited' = [inherited EXCEPT ![k] = files[t]]
  /\ childOf' = [childOf EXCEPT ![t] = k]
  /\ files' = [files EXCEPT ![t] = {}]
  /\ stage' = [stage EXCEPT ![t] = "waiting"]
  /\ UNCHANGED <<process, signals, handedOver>>

Started(t, k) ==
  /\ Alive /\ stage[t] = "gathered" /\ ~inProgress /\ files[t] # {}
  /\ child[k] = "none" /\ \A j \in Places : child[j] = "none" => k <= j
  /\ inProgress' = TRUE
  /\ child' = [child EXCEPT ![k] = "starting"]
  /\ inherited' = [inherited EXCEPT ![k] = files[t]]
  /\ childOf' = [childOf EXCEPT ![t] = k]
  /\ files' = [files EXCEPT ![t] = {}]
  /\ stage' = [stage EXCEPT ![t] = "waiting"]
  /\ UNCHANGED <<process, signals, handedOver>>

(* A plausible slip: the end of the pipe is taken for the byte.            *)
ReadyReadAtEnd(t) ==
  /\ Alive /\ stage[t] = "waiting" /\ child[childOf[t]] \in {"ready", "dead"}
  /\ handedOver' = handedOver \cup {childOf[t]}
  /\ stage' = [stage EXCEPT ![t] = "succeeded"]
  /\ childOf' = [childOf EXCEPT ![t] = NoChild]
  /\ inProgress' = FALSE
  /\ UNCHANGED <<process, signals, files, child, inherited>>

(* The child's byte is read: Trigger returns nil and unlocks.  The pipe    *)
(* never ends, since this process keeps its own copy of the writing end,   *)
(* so a child that dies is not noticed before the timeout.                 *)
ReadyRead(t) ==
  /\ Alive /\ stage[t] = "waiting" /\ child[childOf[t]] = "ready"
  /\ handedOver' = handedOver \cup {childOf[t]}
  /\ stage' = [stage EXCEPT ![t] = "succeeded"]
  /\ childOf' = [childOf EXCEPT ![t] = NoChild]
  /\ inProgress' = FALSE
  /\ UNCHANGED <<process, signals, files, child, inherited>>

(* A plausible slip: instead of a timer, the exit of the child.            *)
TimesOutAtExit(t) ==
  /\ Alive /\ stage[t] = "waiting" /\ child[childOf[t]] = "dead"
  /\ child' = [child EXCEPT ![childOf[t]] = "none"]
  /\ inherited' = [inherited EXCEPT ![childOf[t]] = {}]
  /\ stage' = [stage EXCEPT ![t] = "idle"]
  /\ childOf' = [childOf EXCEPT ![t] = NoChild]
  /\ inProgress' = FALSE
  /\ UNCHANGED <<process, signals, files, handedOver>>

(* The timer wins, perhaps with the byte already in the pipe: the child is *)
(* killed and waited for.                                                  *)
TimesOut(t) ==
  /\ Alive /\ stage[t] = "waiting"
  /\ child' = [child EXCEPT ![childOf[t]] = "none"]
  /\ inherited' = [inherited EXCEPT ![childOf[t]] = {}]
  /\ stage' = [stage EXCEPT ![t] = "idle"]
  /\ childOf' = [childOf EXCEPT ![t] = NoChild]
  /\ inProgress' = FALSE
  /\ UNCHANGED <<process, signals, files, handedOver>>

(* The caller tells main, without blocking.                                *)
Notify(t) ==
  /\ Alive /\ stage[t] = "succeeded"
  /\ stage' = [stage EXCEPT ![t] = "idle"]
  /\ restartCh' = TRUE
  /\ UNCHANGED <<main, open, stopAsked, handoff, mtls, signals, files, childOf, inProgress, children>>

-----------------------------------------------------------------------------
(* The children                                                            *)

(* Someone else has the port that child k has to bind.                     *)
Taken(k, l) ==
  \/ l \in open
  \/ \E t \in Triggers : l \in files[t]
  \/ \E j \in Places \ {k} :
       \/ child[j] = "ready"
       \/ child[j] = "starting" /\ l \in inherited[j]

(* run() in the child up to SignalReady: inherited listeners are wrapped,  *)
(* the others are bound, all are served.                                   *)
ChildReady(k) ==
  /\ child[k] = "starting"
  /\ \A l \in Listeners \ inherited[k] : ~Taken(k, l)
  /\ child' = [child EXCEPT ![k] = "ready"]
  /\ inherited' = [inherited EXCEPT ![k] = {}]
  /\ UNCHANGED <<process, signals, triggers, handedOver>>

(* run() in the child returns an error: the configuration does not load, a *)
(* port is taken, or it crashes.                                           *)
ChildFails(k) ==
  /\ child[k] = "starting"
  /\ child' = [child EXCEPT ![k] = "dead"]
  /\ inherited' = [inherited EXCEPT ![k] = {}]
  /\ UNCHANGED <<process, signals, triggers, handedOver>>

-----------------------------------------------------------------------------
(* Shutdown: waitForSignal returns and run() goes through the rest         *)

(* SIGINT or SIGTERM.                                                      *)
StopSignal ==
  /\ main = "serving" /\ ~stopAsked
  /\ stopAsked' = TRUE
  /\ UNCHANGED <<main, open, restartCh, handoff, mtls, signals, triggers, children>>

(* The end of the process: the kernel closes what it had open, and its     *)
(* goroutines are no more.                                                 *)
Ends(how) ==
  /\ main' = how /\ open' = {}
  /\ restartCh' = FALSE /\ usr2' = FALSE /\ done' = FALSE
  /\ stage' = [t \in Triggers |-> "idle"]
  /\ files' = [t \in Triggers |-> {}]
  /\ childOf' = [t \in Triggers |-> NoChild]
  /\ inProgress' = FALSE
  /\ UNCHANGED <<handoff, mtls, children>>

(* A second one, when waitForSignal no longer listens, ends the process.   *)
KillSignal ==
  /\ Alive /\ main # "serving"
  /\ stopAsked' = TRUE
  /\ Ends("crashed")

(* waitForSignal returns; the watcher is stopped.                          *)
LeaveService ==
  /\ main = "serving" /\ (stopAsked \/ restartCh)
  /\ main' = "closingAdmin"
  /\ UNCHANGED <<open, stopAsked, restartCh, handoff, mtls, signals, triggers, children>>

(* adminSrv.Close: Shutdown closes the listener first, and Close returns   *)
(* when the server has drained.                                            *)
AdminListenerCloses ==
  /\ main = "closingAdmin" /\ "_admin" \in open
  /\ open' = open \ {"_admin"}
  /\ UNCHANGED <<main, stopAsked, restartCh, handoff, mtls, signals, triggers, children>>

AdminClosed ==
  /\ main = "closingAdmin" /\ "_admin" \notin open
  /\ main' = "closingProxies"
  /\ UNCHANGED <<open, stopAsked, restartCh, handoff, mtls, signals, triggers, children>>

(* One proxy's Close: its listener, then its connections until shutdownCtx *)
(* ends.                                                                   *)
ProxyCloses(l) ==
  /\ main = "closingProxies" /\ l \in open \cap Proxies
  /\ open' = open \ {l}
  /\ UNCHANGED <<main, stopAsked, restartCh, handoff, mtls, signals, triggers, children>>

ProxiesClosed ==
  /\ main = "closingProxies" /\ open \cap Proxies = {}
  /\ main' = "returning"
  /\ UNCHANGED <<open, stopAsked, restartCh, handoff, mtls, signals, triggers, children>>

(* run() returns; of its deferred calls stopSIGUSR2 is first: signal.Stop  *)
(* and close(done).                                                        *)
StopSIGUSR2 ==
  /\ main = "returning"
  /\ main' = "unhooked"
  /\ done' = ~handoff
  /\ UNCHANGED <<open, stopAsked, restartCh, handoff, mtls, usr2, triggers, children>>

(* Then adminSrv.Close again, the metrics server's Close, and main ends.   *)
AdminClosesAgain ==
  /\ main = "unhooked"
  /\ main' = "closingAgain"
  /\ UNCHANGED <<open, stopAsked, restartCh, handoff, mtls, signals, triggers, children>>

AdminClosedAgain ==
  /\ main = "closingAgain"
  /\ main' = "closingMetrics"
  /\ UNCHANGED <<open, stopAsked, restartCh, handoff, mtls, signals, triggers, children>>

Exit ==
  /\ main = "closingMetrics"
  /\ Ends("exited") /\ UNCHANGED stopAsked

(* The goroutine of ListenSIGUSR2 finds done closed and returns; its       *)
(* deferred close(done) panics, unless the process has ended before.       *)
HandlerReturns ==
  /\ Alive /\ done /\ stage["SIGUSR2"] = "idle"
  /\ Ends("crashed") /\ UNCHANGED stopAsked

TriggerStep(t) ==
  Refused(t) \/ ReadyRead(t) \/ TimesOut(t) \/ Notify(t) \/ \E k \in Places : Started(t, k)

ChildStep == \E k \in Places : ChildReady(k) \/ ChildFails(k)

MainStep ==
  \/ LeaveService \/ AdminListenerCloses \/ AdminClosed \/ ProxiesClosed
  \/ \E l \in Proxies : ProxyCloses(l)
  \/ StopSIGUSR2 \/ AdminClosesAgain \/ AdminClosedAgain \/ Exit

RestartNext ==
  \/ Usr2 \/ SignalTaken \/ StopSignal \/ KillSignal \/ HandlerReturns
  \/ \E r \in Posts : RestartRequest(r)
  \/ \E t \in Triggers : TriggerStep(t)
  \/ ChildStep \/ MainStep

-----------------------------------------------------------------------------
(* Nothing is ever left unserved by a restart: until someone asks this     *)
(* process to stop, every listener is open here or in a child that is      *)
(* ready, whatever fails, times out or is asked for twice                  *)
(* (restart.go:71-186, main.go:315-357).                                   *)
NoServingGap ==
  ~stopAsked => \/ open = Listeners
                \/ \E k \in Places : child[k] = "ready"

(* Children that are not yet a success, alive or being started.            *)
Undecided == {k \in Places : child[k] \in {"starting", "ready"} /\ k \notin handedOver}

(* The guard: at most one child is being started at a time, and while this *)
(* process lives someone is waiting for it: a failed handoff leaves no     *)
(* process behind (inProgress, restart.go:72-75, and Kill, 157-185).       *)
OneHandoff ==
  /\ \A j, k \in Undecided : j = k
  /\ Alive => \A k \in Undecided : \E t \in Triggers : stage[t] = "waiting" /\ childOf[t] = k
=============================================================================
