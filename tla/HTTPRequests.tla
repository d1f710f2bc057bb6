----------------------------- MODULE HTTPRequests -----------------------------
(***************************************************************************)
(* An HTTP listener (internal/proxy/l7): connections admitted through      *)
(* semLimitedListener, and for each request the Director, the wrapped      *)
(* transport with or without retries (internal/retry), and the response    *)
(* body whose closing releases the backend.  net/http serves one request   *)
(* at a time on a connection, so a request is named by its connection.     *)
(*                                                                         *)
(* Routes and splits may lead to several pools; their accounts have        *)
(* nothing in common, so there is one here.  Each request builds its route *)
(* table from the snapshot of the moment and keeps the balancer it found.  *)
(***************************************************************************)
EXTENDS ServedPool, Functions

CONSTANTS
  HTTPConns,    \* client connections
  HTTPMaxConn,  \* max_connections_per_listener
  MaxAttempts,  \* retry.max_attempts
  Ratio,        \* retry.retry_budget_ratio, in hundredths
  MaxRequests   \* bound: requests begun in all

ASSUME HTTPAssumption ==
  /\ HTTPMaxConn \in Nat \ {0} /\ MaxAttempts \in Nat \ {0, 1}
  /\ Ratio \in 0 .. 100 /\ MaxRequests \in Nat
  /\ IsFiniteSet(HTTPConns)

VARIABLES
  retries,   \* the pool has a retry policy
  httpSem,   \* tokens in the semaphore
  httpConn,  \* "none", "open", or "closed" once and perhaps closed again
  request,   \* the request on each connection
  begun,     \* requests begun
  drifted    \* history: a request ended, or went on, with unequal accounts

admission   == <<httpSem, httpConn>>
httpOwnVars == <<retries, httpSem, httpConn, request, begun, drifted>>
httpVars    == <<poolVars, httpOwnVars>>

NoRequest == [stage |-> "none", gen |-> 0, backend |-> 0, attempt |-> 0,
              replayable |-> FALSE, failed |-> 0, asked |-> 0, renewed |-> FALSE]
RequestStages == {"none", "directing", "buffering", "sending", "retrying", "streaming"}
InFlightStages == {"buffering", "sending", "streaming"}

HTTPTypeOK ==
  /\ PoolTypeOK
  /\ retries \in BOOLEAN /\ drifted \in BOOLEAN
  /\ httpSem \in 0 .. HTTPMaxConn
  /\ httpConn \in [HTTPConns -> {"none", "open", "closed"}]
  /\ request \in [HTTPConns ->
       [stage : RequestStages, gen : Gens \cup {0}, backend : Backends \cup {0},
        attempt : 0 .. MaxAttempts, replayable : BOOLEAN,
        failed : 0 .. MaxAttempts, asked : 0 .. MaxAttempts, renewed : BOOLEAN]]
  /\ begun \in 0 .. MaxRequests

HTTPInit ==
  /\ retries \in BOOLEAN
  /\ httpSem = 0
  /\ httpConn = [c \in HTTPConns |-> "none"]
  /\ request = [c \in HTTPConns |-> NoRequest]
  /\ begun = 0 /\ drifted = FALSE

-----------------------------------------------------------------------------
(* semLimitedListener.Accept: a token and a semReleaseConn, or the         *)
(* connection is closed at once, which leaves nothing behind.              *)
AdmitConn(c) ==
  /\ httpConn[c] = "none" /\ httpSem < HTTPMaxConn
  /\ httpSem' = httpSem + 1
  /\ httpConn' = [httpConn EXCEPT ![c] = "open"]
  /\ UNCHANGED <<poolVars, retries, request, begun, drifted>>

(* semReleaseConn.Close, which net/http calls once or more often: the      *)
(* compare-and-swap lets only the first give the token back.               *)
CloseConn(c) ==
  /\ httpConn[c] \in {"open", "closed"}
  /\ httpSem' = (IF httpConn[c] = "open" THEN httpSem - 1 ELSE httpSem)
  /\ httpConn' = [httpConn EXCEPT ![c] = "closed"]
  /\ UNCHANGED <<poolVars, retries, request, begun, drifted>>

(* The server forgets a closed connection; the client may open another.    *)
Forget(c) ==
  /\ httpConn[c] = "closed" /\ request[c].stage = "none"
  /\ httpConn' = [httpConn EXCEPT ![c] = "none"]
  /\ UNCHANGED <<poolVars, retries, httpSem, request, begun, drifted>>

-----------------------------------------------------------------------------
(* A request that rateLimitHandler and bodyLimitHandler let through; the   *)
(* Director takes the snapshot of this moment.                             *)
Arrive(c) ==
  /\ httpConn[c] = "open" /\ request[c].stage = "none" /\ begun < MaxRequests
  /\ request' = [request EXCEPT ![c].stage = "directing", ![c].gen = lb]
  /\ begun' = begun + 1
  /\ UNCHANGED <<poolVars, retries, admission, drifted>>

End(c) == request' = [request EXCEPT ![c] = NoRequest]

(* The Director: the route, or the entry of its split, decides the pool;   *)
(* the backend is the one of a valid sticky cookie or the balancer's       *)
(* choice; it is acquired and the gauge raised.  Without a backend the     *)
(* transport answers with the error.                                       *)
Director(c) ==
  /\ request[c].stage = "directing"
  /\ \/ End(c) /\ UNCHANGED accounts
     \/ \E b \in members[request[c].gen] :
          /\ Acquire(request[c].gen, b) /\ Inc(b)
          /\ request' = [request EXCEPT ![c].backend = b,
                                        ![c].stage = IF retries THEN "buffering" ELSE "sending"]
  /\ UNCHANGED <<update, retries, admission, begun, drifted>>

(* A plausible slip: the balancer is told of an error only by the reader   *)
(* of the body, which there is none of.                                    *)
SingleFailsUnreleased(c) ==
  /\ request[c].stage = "sending" /\ ~retries
  /\ Dec(request[c].backend) /\ End(c)
  /\ UNCHANGED <<update, retries, count, admission, begun, drifted>>

(* roundTripSingle, no response: report it, Release, and the gauge.        *)
SingleFails(c) ==
  /\ request[c].stage = "sending" /\ ~retries
  /\ Release(request[c].gen, request[c].backend) /\ Dec(request[c].backend)
  /\ End(c)
  /\ UNCHANGED <<update, retries, admission, begun, drifted>>

(* roundTripSingle, or an attempt of roundTripWithRetry, has a response to *)
(* give: its body is wrapped and copied to the client.                     *)
Respond(c) ==
  /\ request[c].stage = "sending"
  /\ request' = [request EXCEPT ![c].stage = "streaming"]
  /\ UNCHANGED <<poolVars, retries, admission, begun, drifted>>

(* releaseBody.Close, whose sync.Once runs once: ReverseProxy closes the   *)
(* body when it has been copied, or when that failed.                      *)
CloseBody(c) ==
  /\ request[c].stage = "streaming"
  /\ Release(request[c].gen, request[c].backend) /\ Dec(request[c].backend)
  /\ End(c)
  /\ UNCHANGED <<update, retries, admission, begun, drifted>>

-----------------------------------------------------------------------------
(* roundTripWithRetry reads the request's body.  If that fails it returns, *)
(* with nothing released; else IsRetryableBody says whether it was small   *)
(* enough to be sent again.                                                *)
BufferBody(c) ==
  /\ request[c].stage = "buffering"
  /\ \/ End(c) /\ drifted' = TRUE
     \/ /\ \E small \in BOOLEAN :
             request' = [request EXCEPT ![c].stage = "sending", ![c].replayable = small]
        /\ UNCHANGED drifted
  /\ UNCHANGED <<poolVars, retries, admission, begun>>

(* A plausible slip: RecordRetry is called when the retry is made.         *)
FailedUncounted(c) ==
  request' = [request EXCEPT ![c].stage = "retrying", ![c].attempt = @ + 1]

(* A failed attempt is counted in the budget and in the loop.              *)
Failed(c) ==
  request' = [request EXCEPT ![c].stage = "retrying", ![c].attempt = @ + 1, ![c].failed = @ + 1]

(* An attempt has no response.  What is released and reported is always    *)
(* the backend that the Director put into the context.                     *)
AttemptFails(c) ==
  /\ request[c].stage = "sending" /\ retries
  /\ Release(request[c].gen, request[c].backend) /\ Dec(request[c].backend)
  /\ Failed(c)
  /\ UNCHANGED <<update, retries, admission, begun, drifted>>

(* An attempt has a response with a retryable status: the gauge is         *)
(* lowered, and nothing is released.                                       *)
RetryableStatus(c) ==
  /\ request[c].stage = "sending" /\ retries
  /\ Dec(request[c].backend)
  /\ Failed(c) /\ drifted' = TRUE
  /\ UNCHANGED <<update, retries, count, admission, begun>>

(* Budget.Allow.  A window that has run out starts afresh; this question   *)
(* is counted; and the retries counted so far must be a smaller part of    *)
(* the questions than the ratio.  NewBudgetFromRatio makes the budget new  *)
(* for each request.                                                       *)
BudgetAllow(failed, asked, elapsed) ==
  LET f == IF elapsed THEN 0 ELSE failed
      a == (IF elapsed THEN 0 ELSE asked) + 1 IN
  [ok |-> Ratio > 0 /\ f * 100 < Ratio * a, failed |-> f, asked |-> a]

(* The loop's condition, and the first of the two that break it.           *)
MayRetry(c) == request[c].attempt < MaxAttempts /\ request[c].replayable

(* The loop is over: attempts used up, a body that is too large, or a      *)
(* budget that refuses.  The last error is the answer.                     *)
GiveUp(c) ==
  /\ request[c].stage = "retrying"
  /\ MayRetry(c) => \E elapsed \in BOOLEAN :
                      ~BudgetAllow(request[c].failed, request[c].asked, elapsed).ok
  /\ End(c)
  /\ UNCHANGED <<poolVars, retries, admission, begun, drifted>>

(* The budget allows a retry: after the backoff a backend is picked and    *)
(* acquired, or there is none and the error is the answer.                 *)
Retry(c) ==
  \E elapsed \in BOOLEAN :
    LET budget == BudgetAllow(request[c].failed, request[c].asked, elapsed) IN
    /\ request[c].stage = "retrying" /\ MayRetry(c) /\ budget.ok
    /\ \/ End(c) /\ UNCHANGED <<count, drifted>>
       \/ /\ \E b \in members[request[c].gen] : Acquire(request[c].gen, b)
          /\ request' = [request EXCEPT ![c].stage = "sending", ![c].failed = budget.failed,
                                        ![c].asked = budget.asked,
                                        ![c].renewed = @ \/ elapsed]
          /\ drifted' = TRUE
    /\ UNCHANGED <<update, retries, gauge, admission, begun>>

roundTripSingle(c) == SingleFails(c) \/ Respond(c)
roundTripWithRetry(c) ==
  BufferBody(c) \/ AttemptFails(c) \/ RetryableStatus(c) \/ GiveUp(c) \/ Retry(c)
Handle(c) == Director(c) \/ roundTripSingle(c) \/ roundTripWithRetry(c) \/ CloseBody(c)

(* An update of the pool, which knows nothing of the requests.             *)
HTTPPoolStep ==
  /\ SwapPool \/ \E new \in Memberships : Cleanup(new) \/ Rebuild(new)
  /\ UNCHANGED httpOwnVars

HTTPNext ==
  \/ HTTPPoolStep
  \/ \E c \in HTTPConns : AdmitConn(c) \/ CloseConn(c) \/ Forget(c) \/ Arrive(c) \/ Handle(c)

HTTPSpec == PoolInit /\ protocol = "http" /\ HTTPInit /\ [][HTTPNext]_httpVars

-----------------------------------------------------------------------------
Underway == {c \in HTTPConns : request[c].stage \in InFlightStages}
HeldBy(g) == {c \in Underway : request[c].gen = g}
At(b) == {c \in Underway : request[c].backend = b}

(* Every variable has its type and the semaphore holds one token per open  *)
(* connection however often net/http closes it.  The balancer's count of a *)
(* backend, in every generation of the pool, is exactly the requests in    *)
(* flight there, up to the closing of the response body; so is the gauge,  *)
(* unless an update has deleted the backend's series, and it is never more.*)
(* All that ends when a retry policy first meets an unreadable body or a   *)
(* retryable status, which release nothing, or makes a second attempt,     *)
(* which raises no gauge and releases the backend of the first.  From then *)
(* on a balancer's total is still never below its requests in flight.      *)
InFlightCounted ==
  /\ HTTPTypeOK
  /\ httpSem = Cardinality({c \in HTTPConns : httpConn[c] = "open"})
  /\ drifted => retries
  /\ (protocol = "http" /\ ~drifted) => \A b \in Backends :
      /\ \A g \in Gens : count[g][b] = Cardinality(HeldBy(g) \cap At(b))
      /\ gauge[b] <= Cardinality(At(b))
      /\ b \notin cleaned => gauge[b] = Cardinality(At(b))
  /\ \A g \in Gens : SumFunction(count[g]) >= Cardinality(HeldBy(g))

(* A request gets a second attempt only after the first window of its      *)
(* budget has run out, whatever ratio of those that validation admits: the *)
(* failed attempt is counted before the budget is asked, and the budget is *)
(* the request's own, so that the first question is always refused.        *)
RetriesWaitForWindow ==
  \A c \in HTTPConns :
    (request[c].attempt > 0 /\ request[c].stage \in {"sending", "streaming"}) => request[c].renewed
=============================================================================
