------------------------------ MODULE TCPServer ------------------------------
(***************************************************************************)
(* One L4 stream listener (internal/proxy/l4): the accept loop of Serve,   *)
(* a goroutine per admitted connection running handleConn, and Close.      *)
(* TCPServer and TLSPassthroughServer have the same loop and the same      *)
(* Close; what their handlers do before picking a backend differs, and     *)
(* `protocol` says which of the two this is.  What happens inside          *)
(* relay is the module Relay; here a relay lasts as long as it likes.      *)
(*                                                                         *)
(* A connection slot of Conns is reused by the next client once it is      *)
(* "none" again.                                                           *)
(***************************************************************************)
EXTENDS ServedPool

CONSTANTS
  Conns,      \* connections that exist at a time
  Limits      \* what the listener's limit of connections may be

ASSUME TCPServerAssumption ==
  /\ Limits \subseteq Nat
  /\ IsFiniteSet(Conns)

VARIABLES
  maxConn,   \* the listener's limit (resolveMaxConn), 0 for none
  loop,      \* Serve: "accepting", "holding" an accepted conn, "returned"
  listening, \* the listening socket is open
  conn,      \* what each connection is doing
  picked,    \* balancer and backend a connection's handler has picked
  series,    \* its gauge is the one of the series that is exported
  connSem,   \* tokens in the semaphore
  wg,        \* the WaitGroup's counter
  closing,   \* s.closing
  closer     \* Close: "none", "marked", "waiting", "drained", "timed out"

server     == <<loop, listening, connSem, wg, closing, closer>>
tcpOwnVars == <<maxConn, loop, listening, conn, picked, series, connSem, wg,
                closing, closer>>
tcpVars    == <<poolVars, tcpOwnVars>>

Handling == {"screening", "picking", "acquiring", "gauging", "dialling", "relaying",
             "releasing", "freeing", "ending"}
Counted  == {"gauging", "dialling", "relaying", "releasing"}
NoPick   == [gen |-> 0, backend |-> 0]

TCPTypeOK ==
  /\ PoolTypeOK
  /\ maxConn \in Limits
  /\ loop \in {"accepting", "holding", "returned"}
  /\ listening \in BOOLEAN
  /\ conn \in [Conns -> {"none", "backlog", "held"} \cup Handling]
  /\ picked \in [Conns -> [gen : Gens, backend : Backends] \cup {NoPick}]
  /\ series \in [Conns -> BOOLEAN]
  /\ connSem \in 0 .. maxConn
  /\ wg \in 0 .. Cardinality(Conns)
  /\ closing \in BOOLEAN
  /\ closer \in {"none", "marked", "waiting", "drained", "timed out"}

-----------------------------------------------------------------------------
(* NewTCPServer: an open listener, a semaphore only if there is a limit.   *)
TCPInit ==
  /\ maxConn \in Limits
  /\ loop = "accepting" /\ listening = TRUE
  /\ conn = [c \in Conns |-> "none"]
  /\ picked = [c \in Conns |-> NoPick]
  /\ series = [c \in Conns |-> FALSE]
  /\ connSem = 0 /\ wg = 0
  /\ closing = FALSE /\ closer = "none"

Limited == maxConn > 0
Slots(n) == IF Limited THEN n ELSE 0   \* a nil semaphore holds no tokens
Move(c, to) == conn' = [conn EXCEPT ![c] = to]

(* A client connects: the kernel queues it for Accept.                     *)
Connect(c) ==
  /\ conn[c] = "none" /\ listening
  /\ Move(c, "backlog")
  /\ UNCHANGED <<poolVars, maxConn, picked, series, server>>

(* Serve: Accept returned a connection and no token of the semaphore is    *)
(* left, so that it is closed at once.                                     *)
Refuse(c) ==
  /\ loop = "accepting" /\ conn[c] = "backlog" /\ listening
  /\ Limited /\ connSem = maxConn
  /\ Move(c, "none")
  /\ UNCHANGED <<poolVars, maxConn, picked, series, server>>

(* Serve: the accepted connection has a token and goes on to s.mu.         *)
Accept(c) ==
  /\ loop = "accepting" /\ conn[c] = "backlog" /\ listening
  /\ Limited => connSem < maxConn
  /\ connSem' = connSem + Slots(1)
  /\ loop' = "holding"
  /\ Move(c, "held")
  /\ UNCHANGED <<poolVars, maxConn, picked, series, listening, wg, closing, closer>>

(* A plausible slip: the flag is not looked at again before wg.Add.        *)
AdmitUnguarded(c) ==
  /\ loop = "holding" /\ conn[c] = "held"
  /\ loop' = "accepting" /\ wg' = wg + 1
  /\ Move(c, "screening")
  /\ UNCHANGED <<poolVars, maxConn, picked, series, listening, connSem, closing, closer>>

(* Serve, under s.mu: drop the connection and return if Close has begun,   *)
(* else count it and start its goroutine.                                  *)
Admit(c) ==
  /\ loop = "holding" /\ conn[c] = "held"
  /\ \/ /\ closing
        /\ Move(c, "none") /\ loop' = "returned"
        /\ connSem' = connSem - Slots(1)
        /\ UNCHANGED wg
     \/ /\ ~closing
        /\ Move(c, "screening") /\ loop' = "accepting" /\ wg' = wg + 1
        /\ UNCHANGED connSem
  /\ UNCHANGED <<poolVars, maxConn, picked, series, listening, closing, closer>>

(* A plausible slip: any error of a closed listener is taken for a         *)
(* temporary one and Accept is called again.                               *)
AcceptErrorRetried ==
  /\ loop = "accepting" /\ listening
  /\ loop' = "returned"
  /\ UNCHANGED <<poolVars, maxConn, conn, picked, series, listening, connSem, wg, closing, closer>>

(* Serve: Accept fails, because the listener is closed or for good.  A     *)
(* temporary error (acceptRetryDelay) is retried and changes nothing here. *)
AcceptError ==
  /\ loop = "accepting"
  /\ loop' = "returned"
  /\ UNCHANGED <<poolVars, maxConn, conn, picked, series, listening, connSem, wg, closing, closer>>

-----------------------------------------------------------------------------
(* handleConn of TCPServer: the rate limiter may turn the client away.     *)
RateLimit(c) ==
  /\ protocol = "tcp" /\ conn[c] = "screening"
  /\ \E to \in {"picking", "freeing"} : Move(c, to)
  /\ UNCHANGED <<poolVars, maxConn, picked, series, server>>

(* handleConn of TLSPassthroughServer: a ClientHello that is late, cut off *)
(* or malformed ends the connection.                                       *)
ReadClientHello(c) ==
  /\ protocol = "tls_passthrough" /\ conn[c] = "screening"
  /\ \E to \in {"picking", "freeing"} : Move(c, to)
  /\ UNCHANGED <<poolVars, maxConn, picked, series, server>>

(* handleConn: poolGetter (or sniRouter) gives the balancer of the moment, *)
(* and Pick a backend of it, whichever is eligible now, or an error.       *)
Pick(c) ==
  /\ conn[c] = "picking"
  /\ \/ Move(c, "freeing") /\ UNCHANGED picked
     \/ \E b \in members[lb] :
          /\ picked' = [picked EXCEPT ![c] = [gen |-> lb, backend |-> b]]
          /\ Move(c, "acquiring")
  /\ UNCHANGED <<poolVars, maxConn, series, server>>

(* handleConn: Acquire on the balancer that was picked from, and the gauge *)
(* of the series of the moment is raised.                                  *)
Acquires(c) ==
  LET p == picked[c] IN
  /\ conn[c] = "acquiring"
  /\ Acquire(p.gen, p.backend) /\ Inc(p.backend)
  /\ series' = [series EXCEPT ![c] = TRUE]
  /\ Move(c, "gauging")
  /\ UNCHANGED <<update, maxConn, picked, server>>

(* handleConn: the defer statement looks the gauge up again, and keeps it: *)
(* it is the one that the end of the connection will lower.                *)
DefersDec(c) ==
  /\ conn[c] = "gauging"
  /\ series' = [series EXCEPT ![c] = TRUE]
  /\ Move(c, "dialling")
  /\ UNCHANGED <<poolVars, maxConn, picked, server>>

(* handleConn: the backend is dialled.  Failing and succeeding are told to *)
(* the health checker and the breaker, whose own modules model them.       *)
Dial(c) ==
  /\ conn[c] = "dialling"
  /\ \E to \in {"relaying", "releasing"} : Move(c, to)
  /\ UNCHANGED <<poolVars, maxConn, picked, series, server>>

RelayReturns(c) ==
  /\ conn[c] = "relaying"
  /\ Move(c, "releasing")
  /\ UNCHANGED <<poolVars, maxConn, picked, series, server>>

(* The deferred Dec reaches the exported gauge unless its series has been  *)
(* deleted since.                                                          *)
LowerGauge(c) ==
  IF series[c] THEN Dec(picked[c].backend) ELSE UNCHANGED gauge

Released(c) ==
  /\ picked' = [picked EXCEPT ![c] = NoPick]
  /\ series' = [series EXCEPT ![c] = FALSE]
  /\ Move(c, "freeing")
  /\ UNCHANGED <<update, maxConn, server>>

(* A plausible slip: what is released is the pool's balancer of now.       *)
ReleasesCurrent(c) ==
  /\ conn[c] = "releasing"
  /\ LowerGauge(c) /\ Release(lb, picked[c].backend)
  /\ Released(c)

(* handleConn's deferred calls: the gauge, Release, then clientConn.Close. *)
Releases(c) ==
  /\ conn[c] = "releasing"
  /\ LowerGauge(c) /\ Release(picked[c].gen, picked[c].backend)
  /\ Released(c)

(* The goroutine's deferred calls: the token, then s.active, ...           *)
FreeSlot(c) ==
  /\ conn[c] = "freeing"
  /\ connSem' = connSem - Slots(1)
  /\ Move(c, "ending")
  /\ UNCHANGED <<poolVars, maxConn, picked, series, loop, listening, wg, closing, closer>>

(* A plausible slip: wg.Done comes before what handleConn has deferred.    *)
DoneEarly(c) ==
  /\ conn[c] \in {"relaying", "ending"}
  /\ wg' = wg - 1
  /\ Move(c, IF conn[c] = "relaying" THEN "releasing" ELSE "none")
  /\ UNCHANGED <<poolVars, maxConn, picked, series, loop, listening, connSem, closing, closer>>

(* ... and wg.Done last.                                                   *)
Done(c) ==
  /\ conn[c] = "ending"
  /\ wg' = wg - 1
  /\ Move(c, "none")
  /\ UNCHANGED <<poolVars, maxConn, picked, series, loop, listening, connSem, closing, closer>>

-----------------------------------------------------------------------------
(* Close sets the flag under s.mu, ...                                     *)
CloseMark ==
  /\ closer = "none"
  /\ closing' = TRUE /\ closer' = "marked"
  /\ UNCHANGED <<poolVars, maxConn, conn, picked, series, loop, listening, connSem, wg>>

(* ... closes the shutdown channel and the listener, whose queue is lost,  *)
CloseListener ==
  /\ closer = "marked"
  /\ listening' = FALSE /\ closer' = "waiting"
  /\ conn' = [c \in Conns |-> IF conn[c] = "backlog" THEN "none" ELSE conn[c]]
  /\ UNCHANGED <<poolVars, maxConn, picked, series, loop, connSem, wg, closing>>

(* ... and waits for the WaitGroup or for its context.                     *)
CloseEnds ==
  /\ closer = "waiting"
  /\ \/ wg = 0 /\ closer' = "drained"
     \/ closer' = "timed out"
  /\ UNCHANGED <<poolVars, maxConn, conn, picked, series, loop, listening, connSem, wg, closing>>

(* An update of the pool: connections to a backend whose series is deleted *)
(* keep a gauge that nothing exports.                                      *)
TCPCleanup(new) ==
  /\ Cleanup(new)
  /\ series' = [c \in Conns |-> series[c] /\ picked[c].backend \notin members[lb] \ new]
  /\ UNCHANGED <<maxConn, conn, picked, server>>

TCPPoolStep ==
  \/ \E new \in Memberships : TCPCleanup(new)
  \/ (SwapPool \/ \E new \in Memberships : Rebuild(new)) /\ UNCHANGED tcpOwnVars

Serve == AcceptError \/ \E c \in Conns : Refuse(c) \/ Accept(c) \/ Admit(c)
handleConn(c) ==
  \/ RateLimit(c) \/ ReadClientHello(c) \/ Pick(c) \/ Acquires(c) \/ DefersDec(c)
  \/ Dial(c) \/ RelayReturns(c) \/ Releases(c) \/ FreeSlot(c) \/ Done(c)
Close == CloseMark \/ CloseListener \/ CloseEnds

TCPNext ==
  \/ Serve \/ Close \/ TCPPoolStep
  \/ \E c \in Conns : Connect(c) \/ handleConn(c)

TCPSpec == PoolInit /\ protocol \in Stream /\ TCPInit /\ [][TCPNext]_tcpVars

(* Goroutines that can run do: Serve once the listener is closed, and each *)
(* handler; a relay's end is fair because both ends of it close one day.   *)
(* Nobody need connect, fail to accept before Close, call Close or update  *)
(* the pool.                                                               *)
TCPFairness ==
  /\ WF_tcpVars(\E c \in Conns : Accept(c) \/ Refuse(c) \/ Admit(c))
  /\ WF_tcpVars(~listening /\ AcceptError)
  /\ \A c \in Conns : WF_tcpVars(handleConn(c))
  /\ WF_tcpVars(CloseListener) /\ WF_tcpVars(CloseEnds)

-----------------------------------------------------------------------------
(* Once Close has begun to wait, Serve adds nothing to the WaitGroup:      *)
(* what the flag under s.mu is for (a WaitGroup reused during Wait panics).*)
NoAddDuringWait ==
  [][(closer \in {"waiting", "drained", "timed out"}) => wg' <= wg]_tcpVars

Active(b) == {c \in Conns : conn[c] \in Counted /\ picked[c].backend = b}

(* When Close reports that all connections drained, no handler is running, *)
(* every balancer that ever served this pool is back at zero, and so is    *)
(* the gauge of every backend whose series no update has deleted; no gauge *)
(* is above zero.  That is still so at any later time.                     *)
DrainedMeansIdle ==
  closer = "drained" =>
    /\ \A c \in Conns : conn[c] \notin Handling
    /\ \A g \in Gens, b \in Backends : count[g][b] = 0
    /\ \A b \in Backends : gauge[b] <= 0 /\ (b \notin cleaned => gauge[b] = 0)

(* Every variable has its type and every account is right at every moment, *)
(* on every way out of Serve and of handleConn.  The semaphore holds one   *)
(* token for every connection that was accepted and has not freed its own, *)
(* and LeastConnections' count of a backend, in every generation of the    *)
(* pool, is the number of connections handled there.  The gauge is their   *)
(* sum over the generations as long as no update has deleted the backend's *)
(* series, and never more than it afterwards.                              *)
CountsTrue ==
  /\ TCPTypeOK
  /\ Limited => connSem = Cardinality({c \in Conns :
                  conn[c] \in {"held"} \cup (Handling \ {"ending"})})
  /\ protocol \in Stream => \A b \in Backends :
       /\ \A g \in Gens : count[g][b] =
            Cardinality({c \in Conns : conn[c] \in Counted /\ picked[c] = [gen |-> g, backend |-> b]})
       /\ gauge[b] <= Cardinality(Active(b))
       /\ b \notin cleaned => gauge[b] = Cardinality(Active(b))

(* After Close the accept loop returns, every connection it ever took      *)
(* ends, and Close itself returns.                                         *)
CloseWindsDown ==
  closing ~> /\ loop = "returned"
             /\ closer \in {"drained", "timed out"}
             /\ \A c \in Conns : conn[c] = "none"
=============================================================================
