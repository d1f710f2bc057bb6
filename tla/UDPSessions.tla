----------------------------- MODULE UDPSessions -----------------------------
(***************************************************************************)
(* UDPServer of internal/proxy/l4/udp.go: Serve reads datagrams and hands  *)
(* each to handleDatagram; a table of sessions under s.mu; one reading     *)
(* goroutine per session; one goroutine that evicts idle sessions; Close.  *)
(*                                                                         *)
(* A session object outlives its entry in the table until its reader has   *)
(* ended, so sessions have identities of their own, taken from Ids and     *)
(* reused when nothing refers to them.  lastActive is abstracted to        *)
(* whether the session has been idle for longer than sessionTimeout.       *)
(***************************************************************************)
EXTENDS ServedPool

CONSTANTS
  Clients,    \* client addresses
  Ids         \* session objects alive at a time, numbered

ASSUME UDPAssumption == Cardinality(Ids) \in Nat /\ Ids = 1 .. Cardinality(Ids)

VARIABLES
  serve,     \* Serve: "new", "reading", "handling", "forwarding", "returned"
  hand,      \* the datagram Serve is handling: its client, balancer, session
  bound,     \* the listening socket is open
  sessions,  \* the table: client address to session, or Nil
  object,    \* the session objects
  evictor,   \* "new", "waiting", "scanning", "returned"
  evictLb,   \* the balancer evictExpired has loaded
  udpWg,     \* the WaitGroup's counter
  udpClosing, \* s.closing
  udpCloser  \* how far Close has come

serving  == <<serve, hand>>
evicting == <<evictor, evictLb>>
shutdown == <<bound, udpClosing, udpCloser>>
udpOwnVars == <<serve, hand, bound, sessions, object, evictor, evictLb, udpWg,
                udpClosing, udpCloser>>
udpVars    == <<poolVars, udpOwnVars>>

Nil == 0
Free == [backend |-> Nil, open |-> FALSE, reader |-> FALSE, idle |-> FALSE]
Nothing == [client |-> Nil, gen |-> Nil, session |-> Nil]
UDPStages == {"none", "marked", "listener closed", "swept", "waiting", "drained", "timed out"}

UDPTypeOK ==
  /\ PoolTypeOK
  /\ serve \in {"new", "reading", "handling", "forwarding", "returned"}
  /\ hand \in [client : Clients \cup {Nil}, gen : Gens \cup {Nil}, session : Ids \cup {Nil}]
  /\ bound \in BOOLEAN
  /\ sessions \in [Clients -> Ids \cup {Nil}]
  /\ object \in [Ids -> [backend : Backends \cup {Nil}, open : BOOLEAN,
                         reader : BOOLEAN, idle : BOOLEAN]]
  /\ evictor \in {"new", "waiting", "scanning", "returned"}
  /\ evictLb \in Gens \cup {Nil}
  /\ udpWg \in 0 .. Cardinality(Ids) + 1
  /\ udpClosing \in BOOLEAN /\ udpCloser \in UDPStages

Listed == {i \in Ids : \E c \in Clients : sessions[c] = i}
Unused == {i \in Ids : i \notin Listed /\ ~object[i].reader /\ hand.session # i}
Fresh  == {i \in Unused : \A j \in Unused : i <= j}   \* which one does not matter

-----------------------------------------------------------------------------
(* NewUDPServer: a bound socket and an empty table.                        *)
UDPInit ==
  /\ serve = "new" /\ hand = Nothing
  /\ bound = TRUE
  /\ sessions = [c \in Clients |-> Nil]
  /\ object = [i \in Ids |-> Free]
  /\ evictor = "new" /\ evictLb = Nil
  /\ udpWg = 0
  /\ udpClosing = FALSE /\ udpCloser = "none"

(* Serve registers and starts the evicting goroutine, closes evictStarted  *)
(* and begins to read.                                                     *)
ServeStarts ==
  /\ serve = "new"
  /\ serve' = "reading" /\ evictor' = "waiting" /\ udpWg' = udpWg + 1
  /\ UNCHANGED <<poolVars, hand, sessions, object, evictLb, shutdown>>

(* Serve: the socket fails, or has been closed.                            *)
ReadFails ==
  /\ serve = "reading"
  /\ serve' = "returned"
  /\ UNCHANGED <<poolVars, hand, sessions, object, evicting, udpWg, shutdown>>

(* A datagram arrives.  Unless its client is over the rate limit, when it  *)
(* is dropped with no trace, poolGetter gives the balancer of the moment.  *)
Receive(c) ==
  /\ serve = "reading" /\ bound
  /\ serve' = "handling"
  /\ hand' = [client |-> c, gen |-> lb, session |-> Nil]
  /\ UNCHANGED <<poolVars, sessions, object, evicting, udpWg, shutdown>>

Drop == serve' = "reading" /\ hand' = Nothing
        /\ UNCHANGED <<poolVars, sessions, object, evicting, udpWg, shutdown>>

Found ==
  /\ sessions[hand.client] # Nil
  /\ hand' = [hand EXCEPT !.session = sessions[hand.client]]
  /\ serve' = "forwarding"
  /\ UNCHANGED <<poolVars, sessions, object, evicting, udpWg, shutdown>>

(* A new session: the dialled socket, the entry, Acquire on the balancer   *)
(* that picked, the gauge, and the reading goroutine.                      *)
NewSession ==
  /\ sessions[hand.client] = Nil
  /\ \E b \in members[hand.gen], i \in Fresh :
       /\ object' = [object EXCEPT ![i] = [backend |-> b, open |-> TRUE,
                                           reader |-> TRUE, idle |-> FALSE]]
       /\ sessions' = [sessions EXCEPT ![hand.client] = i]
       /\ Acquire(hand.gen, b) /\ Inc(b)
       /\ hand' = [hand EXCEPT !.session = i]
  /\ udpWg' = udpWg + 1
  /\ serve' = "forwarding"
  /\ UNCHANGED <<update, evicting, shutdown>>

(* handleDatagram, under s.mu: nothing once Close has begun; the client's  *)
(* session if it has one; else a new one, unless Pick or the dial fails.   *)
handleDatagram ==
  /\ serve = "handling"
  /\ \/ (udpClosing \/ sessions[hand.client] = Nil) /\ Drop
     \/ ~udpClosing /\ Found
     \/ ~udpClosing /\ NewSession

(* handleDatagram, after the unlock: touch, and a write whose failure is   *)
(* only logged.  The session may have been evicted and closed meanwhile.   *)
Forward ==
  /\ serve = "forwarding"
  /\ object' = [object EXCEPT ![hand.session].idle = FALSE]
  /\ serve' = "reading" /\ hand' = Nothing
  /\ UNCHANGED <<poolVars, sessions, evicting, udpWg, shutdown>>

-----------------------------------------------------------------------------
(* readSession: a reply from the backend is forwarded to the client.       *)
Reply(i) ==
  /\ object[i].reader /\ object[i].open
  /\ object' = [object EXCEPT ![i].idle = FALSE]
  /\ UNCHANGED <<poolVars, serving, sessions, evicting, udpWg, shutdown>>

(* readSession: the read fails, because the socket was closed or with an   *)
(* error of its own (a refused datagram).  The goroutine closes the socket *)
(* and ends; it does not touch the table.                                  *)
ReaderEnds(i) ==
  /\ object[i].reader
  /\ object' = [object EXCEPT ![i].reader = FALSE, ![i].open = FALSE]
  /\ udpWg' = udpWg - 1
  /\ UNCHANGED <<poolVars, serving, sessions, evicting, shutdown>>

(* sessionTimeout passes without a datagram either way.  It is much longer *)
(* than evictExpired takes from loading the balancer to having scanned.    *)
BecomesIdle(i) ==
  /\ i \in Listed /\ ~object[i].idle /\ evictor # "scanning"
  /\ object' = [object EXCEPT ![i].idle = TRUE]
  /\ UNCHANGED <<poolVars, serving, sessions, evicting, udpWg, shutdown>>

Ended(b, gone) == Cardinality({i \in gone : object[i].backend = b})

(* A plausible slip: the sockets are left for the readers to close.      *)
RemoveUnclosed(gone, g) ==
  /\ sessions' = [c \in Clients |-> IF sessions[c] \in gone THEN Nil ELSE sessions[c]]
  /\ count' = [count EXCEPT ![g] = [b \in Backends |-> Minus(@[b], Ended(b, gone))]]
  /\ gauge' = [b \in Backends |-> gauge[b] - Ended(b, gone)]
  /\ UNCHANGED object

(* The loop of evictExpired and of Close over the sessions they remove:    *)
(* close the socket, delete the entry, Release (never below zero) on the   *)
(* balancer loaded now, not on the one that was acquired, and the gauge.   *)
(* What is left of a removed session is its reader.                        *)
Remove(gone, g) ==
  /\ object' = [i \in Ids |-> IF i \in gone THEN [Free EXCEPT !.reader = object[i].reader]
                                            ELSE object[i]]
  /\ sessions' = [c \in Clients |-> IF sessions[c] \in gone THEN Nil ELSE sessions[c]]
  /\ count' = [count EXCEPT ![g] = [b \in Backends |-> Minus(@[b], Ended(b, gone))]]
  /\ gauge' = [b \in Backends |-> gauge[b] - Ended(b, gone)]

(* evictIdleSessions: a tick; evictExpired loads the balancer, ...         *)
EvictTick ==
  /\ evictor = "waiting"
  /\ evictor' = "scanning" /\ evictLb' = lb
  /\ UNCHANGED <<poolVars, serving, sessions, object, udpWg, shutdown>>

(* A plausible slip: a session whose reader has ended is not looked at.    *)
EvictReading ==
  /\ evictor = "scanning"
  /\ Remove({i \in Listed : object[i].idle /\ object[i].reader}, evictLb)
  /\ evictor' = "waiting" /\ evictLb' = Nil
  /\ UNCHANGED <<update, serving, udpWg, shutdown>>

(* ... and under s.mu removes the sessions that are idle.                  *)
evictExpired ==
  /\ evictor = "scanning"
  /\ Remove({i \in Listed : object[i].idle}, evictLb)
  /\ evictor' = "waiting" /\ evictLb' = Nil
  /\ UNCHANGED <<update, serving, udpWg, shutdown>>

(* A plausible slip: the evictor watches only its context, which main      *)
(* never cancels.                                                          *)
EvictorWatchesContext ==
  /\ FALSE
  /\ evictor' = "returned" /\ udpWg' = udpWg - 1
  /\ UNCHANGED <<poolVars, serving, sessions, object, evictLb, shutdown>>

(* evictIdleSessions sees the shutdown channel closed and returns.         *)
EvictorReturns ==
  /\ evictor = "waiting" /\ udpCloser \notin {"none", "marked"}
  /\ evictor' = "returned" /\ udpWg' = udpWg - 1
  /\ UNCHANGED <<poolVars, serving, sessions, object, evictLb, shutdown>>

-----------------------------------------------------------------------------
(* Close sets the flag under s.mu; ...                                     *)
MarkClosing ==
  /\ udpCloser = "none"
  /\ udpClosing' = TRUE /\ udpCloser' = "marked"
  /\ UNCHANGED <<poolVars, serving, bound, sessions, object, evicting, udpWg>>

(* closes the shutdown channel and the listening socket; ...               *)
CloseSocket ==
  /\ udpCloser = "marked"
  /\ bound' = FALSE /\ udpCloser' = "listener closed"
  /\ UNCHANGED <<poolVars, serving, sessions, object, evicting, udpWg, udpClosing>>

(* A plausible slip: only sessions whose reader still runs are removed.    *)
CloseSweepReading ==
  /\ udpCloser = "listener closed"
  /\ Remove({i \in Listed : object[i].reader}, lb)
  /\ udpCloser' = "swept"
  /\ UNCHANGED <<update, serving, evicting, udpWg, bound, udpClosing>>

(* removes every session under s.mu; ...                                   *)
CloseSweep ==
  /\ udpCloser = "listener closed"
  /\ Remove(Listed, lb)
  /\ udpCloser' = "swept"
  /\ UNCHANGED <<update, serving, evicting, udpWg, bound, udpClosing>>

(* ... waits for evictStarted, which Serve closes; ...                     *)
CloseWaits ==
  /\ udpCloser = "swept" /\ serve # "new"
  /\ udpCloser' = "waiting"
  /\ UNCHANGED <<poolVars, serving, sessions, object, evicting, udpWg, bound, udpClosing>>

(* ... and waits for the WaitGroup or for its context.                     *)
CloseReturns ==
  /\ udpCloser = "waiting"
  /\ \/ udpWg = 0 /\ udpCloser' = "drained"
     \/ udpCloser' = "timed out"
  /\ UNCHANGED <<poolVars, serving, sessions, object, evicting, udpWg, bound, udpClosing>>

(* An update of the pool, which knows nothing of the sessions.             *)
UDPPoolStep ==
  /\ SwapPool \/ \E new \in Memberships : Cleanup(new) \/ Rebuild(new)
  /\ UNCHANGED udpOwnVars

ServeUDP == ServeStarts \/ ReadFails \/ handleDatagram \/ Forward
Evict == EvictTick \/ evictExpired \/ EvictorReturns
CloseUDP == MarkClosing \/ CloseSocket \/ CloseSweep \/ CloseWaits \/ CloseReturns

UDPNext ==
  \/ ServeUDP \/ Evict \/ CloseUDP \/ UDPPoolStep
  \/ \E c \in Clients : Receive(c)
  \/ \E i \in Ids : Reply(i) \/ ReaderEnds(i) \/ BecomesIdle(i)

UDPSpec == PoolInit /\ protocol = "udp" /\ UDPInit /\ [][UDPNext]_udpVars

(* Goroutines that can run do (Serve's own at the latest when Close is     *)
(* called), the ticker keeps ticking, a closed socket makes its reader     *)
(* return, and of the evictor's two ready channels select does not choose  *)
(* the ticker for ever.                                                    *)
UDPFairness ==
  /\ WF_udpVars(udpClosing /\ ServeStarts) /\ WF_udpVars(~bound /\ ReadFails)
  /\ WF_udpVars(handleDatagram) /\ WF_udpVars(Forward)
  /\ WF_udpVars(EvictTick) /\ WF_udpVars(evictExpired) /\ SF_udpVars(EvictorReturns)
  /\ \A i \in Ids : WF_udpVars(~object[i].open /\ ReaderEnds(i))
  /\ WF_udpVars(CloseSocket) /\ WF_udpVars(CloseSweep)
  /\ WF_udpVars(CloseWaits) /\ WF_udpVars(CloseReturns)

-----------------------------------------------------------------------------
On(b) == {i \in Listed : object[i].backend = b}

(* Every variable has its type; a session's socket is open only while the  *)
(* table lists it, so that eviction, Close and a failing reader together   *)
(* leave no socket behind that nothing can close any more; the pool's      *)
(* balancer never counts more sessions on a backend than are listed,       *)
(* although sessions are released on the balancer of the moment of their   *)
(* end: no update and no race makes a backend look busy for ever; and the  *)
(* gauge is the number of sessions listed until an update deletes the      *)
(* backend's series, and never more than that.                             *)
SessionsAccounted ==
  /\ UDPTypeOK
  /\ \A i \in Ids : object[i].open => i \in Listed
  /\ protocol = "udp" => \A b \in Backends :
       /\ count[lb][b] <= Cardinality(On(b))
       /\ gauge[b] <= Cardinality(On(b))
       /\ b \notin cleaned => gauge[b] = Cardinality(On(b))

(* When Close reports that all sessions closed, none is listed, no socket  *)
(* is open, no goroutine of the server is left and no gauge is above zero, *)
(* or below it but for a series that an update deleted; a datagram that    *)
(* was being handled cannot have brought a session back.                   *)
DrainedMeansClosed ==
  udpCloser = "drained" =>
    /\ Listed = {} /\ evictor = "returned"
    /\ \A i \in Ids : ~object[i].open /\ ~object[i].reader
    /\ \A b \in Backends : gauge[b] <= 0 /\ (b \notin cleaned => gauge[b] = 0)

(* A session that stays idle is evicted, whether its reader still runs or  *)
(* not, unless there is traffic on it again.                               *)
IdleIsEvicted ==
  \A i \in Ids : (i \in Listed /\ object[i].idle) ~> ~(i \in Listed /\ object[i].idle)

(* After Close, Serve, the evictor and every reader end, and Close returns.*)
SessionsWindDown ==
  udpClosing ~> /\ serve = "returned" /\ evictor = "returned"
                /\ udpCloser \in {"drained", "timed out"}
                /\ \A i \in Ids : ~object[i].reader
=============================================================================
