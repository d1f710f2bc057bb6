------------------------------ MODULE AdminServer ------------------------------
(***************************************************************************)
(* The admin server's connections: REST requests under its concurrency     *)
(* limit, the dashboard's WebSocket viewers (internal/admin/dashboard) and *)
(* Close, which has to end both (internal/admin/server.go).                *)
(*                                                                         *)
(* A viewer's connection is hijacked from the HTTP server, which from then *)
(* on knows nothing of it.  The handler puts it in wsConns, then adds      *)
(* itself to wsWg; Close shuts the HTTP server down, closes what is in     *)
(* wsConns and waits for wsWg.                                             *)
(***************************************************************************)
EXTENDS Naturals, FiniteSets

CONSTANTS
  Viewers,       \* dashboard connections that may be there at a time
  Requests,      \* REST requests that may be there at a time
  MaxConcurrent  \* size of the semaphore, max_concurrent_requests

ASSUME AdminAssumption == MaxConcurrent \in Nat \ {0} /\ IsFiniteSet(Viewers)

VARIABLES
  accepting,   \* the HTTP server has not been shut down
  rest,        \* REST requests that hold a place of sem
  viewer,      \* where each viewer's handler is
  link,        \* its connection: "none", "open", "gone" (the peer left), "closed"
  reader,      \* its readLoop goroutine runs
  wsConns,     \* the connections Close knows of
  wsWg,        \* the count of the wait group
  shutdown,    \* Close: one of CloseStages
  overtaken    \* history: viewers tracked after Close had closed the others

adminVars ==
  <<accepting, rest, viewer, link, reader, wsConns, wsWg, shutdown, overtaken>>

CloseStages  == {"none", "shutting", "forcing", "forced", "waiting", "returned"}
ServedStages == {"pushing", "idle", "served"}

AdminTypes ==
  /\ accepting \in BOOLEAN
  /\ rest \in SUBSET Requests
  /\ viewer \in [Viewers -> {"none", "request", "hijacked", "tracked", "uncounted"}
                            \cup ServedStages]
  /\ link \in [Viewers -> {"none", "open", "gone", "closed"}]
  /\ reader \in [Viewers -> BOOLEAN]
  /\ wsConns \in SUBSET Viewers
  /\ wsWg \in 0 .. Cardinality(Viewers)
  /\ shutdown \in CloseStages
  /\ overtaken \in SUBSET Viewers

AdminInit ==
  /\ accepting = TRUE
  /\ rest = {}
  /\ viewer = [v \in Viewers |-> "none"]
  /\ link = [v \in Viewers |-> "none"]
  /\ reader = [v \in Viewers |-> FALSE]
  /\ wsConns = {} /\ wsWg = 0
  /\ shutdown = "none"
  /\ overtaken = {}

-----------------------------------------------------------------------------
(* REST requests                                                           *)

(* concurrencyLimiter: a place, or an answer of 503 at once.               *)
RequestBegins(r) ==
  /\ accepting /\ r \notin rest /\ Cardinality(rest) < MaxConcurrent
  /\ rest' = rest \cup {r}
  /\ UNCHANGED <<accepting, viewer, link, reader, wsConns, wsWg, shutdown, overtaken>>

RequestEnds(r) ==
  /\ r \in rest
  /\ rest' = rest \ {r}
  /\ UNCHANGED <<accepting, viewer, link, reader, wsConns, wsWg, shutdown, overtaken>>

-----------------------------------------------------------------------------
(* A viewer: ServeHTTP of the WebSocket handler                            *)

At(v, from, to) == viewer[v] = from /\ viewer' = [viewer EXCEPT ![v] = to]

(* A connection is accepted that will ask for the upgrade.                 *)
AcceptViewer(v) ==
  /\ accepting /\ ~reader[v] /\ At(v, "none", "request")
  /\ UNCHANGED <<accepting, rest, link, reader, wsConns, wsWg, shutdown, overtaken>>

(* The token is wrong, or the handshake fails.                             *)
Turned(v) ==
  /\ At(v, "request", "none")
  /\ UNCHANGED <<accepting, rest, link, reader, wsConns, wsWg, shutdown, overtaken>>

(* The handshake hijacks the connection.                                   *)
Hijack(v) ==
  /\ At(v, "request", "hijacked")
  /\ link' = [link EXCEPT ![v] = "open"]
  /\ UNCHANGED <<accepting, rest, reader, wsConns, wsWg, shutdown, overtaken>>

Track(v) ==
  /\ At(v, "hijacked", "tracked")
  /\ wsConns' = wsConns \cup {v}
  /\ overtaken' = IF shutdown \in {"forced", "waiting", "returned"}
                  THEN overtaken \cup {v} ELSE overtaken
  /\ UNCHANGED <<accepting, rest, link, reader, wsWg, shutdown>>

(* wg.Add(1), then serve: the reader is started and the first push begins. *)
Add(v) ==
  /\ At(v, "tracked", "pushing")
  /\ wsWg' = wsWg + 1
  /\ reader' = [reader EXCEPT ![v] = TRUE]
  /\ UNCHANGED <<accepting, rest, link, wsConns, shutdown, overtaken>>

(* pushOnce ends: the frame is written, or the write fails, by the         *)
(* deadline if the peer does not read.                                     *)
Pushed(v) ==
  /\ link[v] # "closed" /\ At(v, "pushing", "idle")
  /\ UNCHANGED <<accepting, rest, link, reader, wsConns, wsWg, shutdown, overtaken>>

PushFails(v) ==
  /\ At(v, "pushing", "served")
  /\ UNCHANGED <<accepting, rest, link, reader, wsConns, wsWg, shutdown, overtaken>>

(* The ticker, in the select of serve.                                     *)
PushAgain(v) ==
  /\ At(v, "idle", "pushing")
  /\ UNCHANGED <<accepting, rest, link, reader, wsConns, wsWg, shutdown, overtaken>>

(* readLoop returns: the connection is closed or broken, the viewer sent a *)
(* Close frame or one that is too large.                                   *)
ReaderEnds(v) ==
  /\ reader[v] /\ reader' = [reader EXCEPT ![v] = FALSE]
  /\ UNCHANGED <<accepting, rest, viewer, link, wsConns, wsWg, shutdown, overtaken>>

(* A plausible slip: serve has no case for readerDone and relies on a push *)
(* to fail.                                                                *)
ReaderUnheard(v) ==
  /\ link[v] = "closed" /\ At(v, "idle", "served")
  /\ UNCHANGED <<accepting, rest, link, reader, wsConns, wsWg, shutdown, overtaken>>

(* serve finds readerDone closed and returns.                              *)
ReaderNoticed(v) ==
  /\ ~reader[v] /\ At(v, "idle", "served")
  /\ UNCHANGED <<accepting, rest, link, reader, wsConns, wsWg, shutdown, overtaken>>

(* The deferred calls, last first: wg.Done, which lets Wait return when it *)
(* is the last; then Untrack and conn.Close.  (That Wait panics when the   *)
(* group is used again before it is back is left out: main is about to end *)
(* then.)                                                                  *)
HandlerDone(v) ==
  /\ At(v, "served", "uncounted")
  /\ wsWg' = wsWg - 1
  /\ shutdown' = IF wsWg = 1 /\ shutdown = "waiting" THEN "returned" ELSE shutdown
  /\ UNCHANGED <<accepting, rest, link, reader, wsConns, overtaken>>

Untrack(v) ==
  /\ At(v, "uncounted", "none")
  /\ wsConns' = wsConns \ {v}
  /\ link' = [link EXCEPT ![v] = "none"]
  /\ overtaken' = overtaken \ {v}
  /\ UNCHANGED <<accepting, rest, reader, wsWg, shutdown>>

(* The viewer closes the page, or its network goes.                        *)
PeerLeaves(v) ==
  /\ link[v] = "open"
  /\ link' = [link EXCEPT ![v] = "gone"]
  /\ UNCHANGED <<accepting, rest, viewer, reader, wsConns, wsWg, shutdown, overtaken>>

-----------------------------------------------------------------------------
(* Close, which main calls twice                                           *)

(* srv.Shutdown begins: no connection is accepted any more.                *)
AdminClose ==
  /\ shutdown \in {"none", "returned"}
  /\ shutdown' = "shutting" /\ accepting' = FALSE
  /\ UNCHANGED <<rest, viewer, link, reader, wsConns, wsWg, overtaken>>

(* Shutdown returns: no request is being answered, or ctx is over.  What   *)
(* was hijacked is none of its business.                                   *)
ShutdownReturns ==
  /\ shutdown = "shutting" /\ shutdown' = "forcing"
  /\ UNCHANGED <<accepting, rest, viewer, link, reader, wsConns, wsWg, overtaken>>

(* A plausible slip: Close waits, and leaves the connections alone.        *)
WaitOnly ==
  /\ shutdown = "forcing" /\ shutdown' = "forced"
  /\ UNCHANGED <<accepting, rest, viewer, link, reader, wsConns, wsWg, overtaken>>

(* Every connection of wsConns is closed.                                  *)
ForceClose ==
  /\ shutdown = "forcing" /\ shutdown' = "forced"
  /\ link' = [v \in Viewers |-> IF v \in wsConns THEN "closed" ELSE link[v]]
  /\ overtaken' = overtaken \ wsConns
  /\ UNCHANGED <<accepting, rest, viewer, reader, wsConns, wsWg>>

(* wsWg.Wait is called: it returns at once if nobody is counted.           *)
WaitHandlers ==
  /\ shutdown = "forced"
  /\ shutdown' = IF wsWg = 0 THEN "returned" ELSE "waiting"
  /\ UNCHANGED <<accepting, rest, viewer, link, reader, wsConns, wsWg, overtaken>>

(* The process ends, and all of this with it.                              *)
AdminGone ==
  /\ accepting' = FALSE /\ rest' = {}
  /\ viewer' = [v \in Viewers |-> "none"]
  /\ link' = [v \in Viewers |-> "none"]
  /\ reader' = [v \in Viewers |-> FALSE]
  /\ wsConns' = {} /\ wsWg' = 0
  /\ shutdown' = "none"
  /\ overtaken' = {}

HandlerStep(v) ==
  \/ Turned(v) \/ Hijack(v) \/ Track(v) \/ Add(v) \/ Pushed(v) \/ PushFails(v)
  \/ ReaderNoticed(v) \/ HandlerDone(v) \/ Untrack(v)

CloseStep == ShutdownReturns \/ ForceClose \/ WaitHandlers

ViewerStep(v) == AcceptViewer(v) \/ HandlerStep(v) \/ PushAgain(v) \/ ReaderEnds(v) \/ PeerLeaves(v)

AdminNext ==
  \/ \E r \in Requests : RequestBegins(r) \/ RequestEnds(r)
  \/ \E v \in Viewers : ViewerStep(v)
  \/ AdminClose \/ CloseStep \/ AdminGone
=============================================================================
