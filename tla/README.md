# A TLA+ model of Hoot-Lb

Hoot-Lb is a layer 4 and layer 7 load balancer in one Go process. This directory
holds a specification of the parts of it that run concurrently: what they share,
which orders of their steps are possible, and what stays true in all of them.
Small instances are checked with TLC; the safety properties are proved with TLAPS
for all instances, some of those of the control plane under a hypothesis that is
stated with them.

Every definition follows the Go code under `src/`. `PROJECT.json` lists, for each
definition, the file and lines it stands for, the properties each run checks, the
hazards of the code, and the theorems.

## The system and its parts

| Part | Source | State it owns |
| --- | --- | --- |
| Start-up and shutdown | `cmd/lb/main.go`, `wiring.go` | order in which everything starts and stops |
| Runtime snapshot | `internal/runtime/snapshot.go`, `partial_update.go` | the one atomic pointer to pools, balancers, breakers and checkers |
| Config reload | `internal/reload/watcher.go` | certificates of each listener; replaces the whole snapshot |
| Discovery poller | `internal/runtime/poller.go` | last resolved backends; replaces one pool |
| Admin API | `internal/admin/handlers.go` | replaces one pool, sets draining flags |
| Health checker | `internal/health/checker.go` | hysteresis counters, `Server.healthy` |
| Circuit breaker | `internal/circuitbreaker/breaker.go` | the three-phase machine, `Server.circuitOpen` |
| Balancers | `internal/balancer/*.go` | counters, current weights, connection counts |
| TCP and TLS passthrough | `internal/proxy/l4/tcp.go`, `tls_passthrough.go` | semaphore, WaitGroup, connections |
| UDP | `internal/proxy/l4/udp.go` | the session table |
| HTTP | `internal/proxy/l7/*.go`, `internal/retry` | connection limit, per-request state, retry budget |
| Rate limiter | `internal/ratelimit/limiter.go` | a token bucket per client |
| Zero-downtime restart | `internal/restart/*.go`, `cmd/lb/lifecycle.go` | the `inProgress` lock, the readiness pipe, the child |
| Admin server and dashboard | `internal/admin/server.go`, `internal/admin/dashboard/*.go` | semaphore, hijacked connections, WaitGroup |
| Metrics text, discovery adapters, configuration, logging, authentication | the rest of `internal/` | see "What is not modelled" |

They interact through two things. The *snapshot* is read by every proxy, once per
connection, datagram or request, and replaced by three kinds of updaters (the
watcher, the pollers, the admin handlers) with no lock between loading it and
swapping it. The *servers* in it carry three atomic flags (`healthy`, `draining`,
`circuitOpen`) that health checkers, admin handlers and breakers write and that
every `Pick` reads. A proxy keeps the balancer it picked from for as long as a
connection lasts, although the pool may have been given another one since.

Around both is the life of the process: a signal or an admin request starts a child
that inherits the listeners, and the parent's shutdown has to wait for the proxies
and for an admin server whose own handlers may have asked for the restart.

## The modules

### Circuit breaker: `CircuitPhases`, `Breaker`, `BreakerInProxy`

`CircuitPhases` is the three-phase machine of the package comment and the README, in
terms of the requests let through and their outcomes: so many failures in a row open
the circuit, it stays open for so long, so many probes are let through, and an outcome
decides the half-open episode. One action, `Overtake`, is not in the documents: the
outcome that decides may be that of a request let through before. `Breaker` has one
action per method (each runs under `b.mu`): `Allow`, `RecordSuccess`, `RecordFailure`,
`State`. A request's outcome is observed at one time (`Answered`, which depends on the
backend at that moment) and reported at a later one, so a failure seen before the
backend recovered may be recorded after, in a later episode; `req` remembers in which
episode a request was let through, and `result` what it has observed. The clock is the
age of the open state, the only thing the code asks of it. `BreakerInProxy` is the
breaker as the program wires it: `Pick` reads the flag, outcomes are recorded, and
`Allow` and `State` are never called.

### Health checker: `HealthChecker`

One started `Checker` and the backends it watches (`Targets`). A backend's goroutine
waits, dials, and applies the result under `bh.mu`: three steps, so a result may be
stale when it is applied, and so may a proxy's passive failure report
(`ClientDialFails`, then `ReportFailure`). TCP and HTTP probes are one probe that
succeeds or fails. The counters stop at `CounterCap`, which is at least both
thresholds; the code compares them with `>=` only. `okRun` and `failRun` are history
variables: the unbroken run of probes applied since the backend last changed state.

### Control plane: `PoolSnapshots`, `ConfigWatcher`, `DiscoveryPoller`, `AdminHandlers`, `ControlPlane`

`PoolSnapshots` has the snapshot, what `BuildSnapshot` and `UpdatePoolBackends`
return, the start and stop of checkers, and the protocol all updaters follow:
load, build, start the new checkers, swap, stop the old ones. Each is a step of
its own and other updaters may act in between. The objects made by one build of
one pool (servers, balancer, breakers, checker) share an identity, a *generation*;
a generation nothing refers to is free again, as garbage is. Of a checker only
this is kept: how many of its contexts are live, whether its `cancel` belongs to a
live one, and whether it has goroutines to wait for. `Checker.Stop` then either
returns or hangs (`Hangs`). `kept` is a history variable: the pools whose old checker a
partial update has carried over beside the new servers.

`ConfigWatcher` is `checkAndReload` with its early returns: listener comparison,
certificates listener by listener, a build that fails (for a listener's TLS or a
discovery adapter that cannot be made). What is in the file is not a
variable: a read yields any configuration of `Configs`, so an edit may come at any
moment. `DiscoveryPoller` is `poll` in
two halves. `AdminHandlers` has add, remove, drain and undrain; add and remove look
the pool up in the configuration of the start, as the code does. `ControlPlane`
composes them with start-up, shutdown, traffic (which creates metric series) and the
environment. Its `AdminClosed` is where main waits for the admin server; that this wait
ends is the matter of `Lifecycle`. The draining flags and the metric series are state of
this model that its properties do not mention; what the deletion of a series does to
a listener is checked in `Listeners`.

### Proxies: `ServedPool`, `TCPServer`, `UDPSessions`, `HTTPRequests`, `Listeners`, `Relay`

`ServedPool` is a pool as a listener sees it: the balancer in the snapshot, the gauge of
active connections, and an update of the pool. The balancer is `least_connections`, the
one that keeps count. An update builds a new balancer with no counts, deletes the metric
series of the backends it removes (`Cleanup`; an update through the admin API deletes
none, `Rebuild`), and publishes it some time later (`SwapPool`), all of it while
connections last. A gauge whose series is deleted is gone, and the next use makes a new
one that starts at zero; the history variable `cleaned` remembers the backends this
happened to.

`TCPServer` is the accept loop, one handler per connection and `Close`, for both
stream proxies; the handlers differ only in how they screen a client. `UDPSessions` is
`Serve`, the table, the session readers, the evictor and `Close`. `HTTPRequests` is the
connection limit, the Director, the round trip with or without retries, each request's
own retry budget with its window, and the response body whose closing releases the
backend; `drifted` is a history variable, set by the first step of a retry policy after
which the counts are not exact. `Listeners` is one listener of any of the four
protocols: it chooses the server as `run` does. What the rate limiter, `ParseSNI`, a
dial or a sticky cookie decides is a free choice.

`Relay` is the two copying goroutines of one connection, with half-closes, broken
connections, deadlines and the replayed ClientHello. A write blocks while the side it
goes to leaves a window of chunks unread, until that side reads, breaks, or the
deadline passes. `quiet` is a history variable, the time since anything was forwarded.

### Balancers: `Balancers`

The five algorithms. A `Pick` reads the backends' flags one by one while they
change. Locks are kept where they matter: `weighted_round_robin` picks alone, the
others share. `random` draws from a `rand.Rand` under a shared lock; overlapping
draws may return anything or panic, and the model has both outcomes.
`UpdateBackends` is left out because nothing in the program calls it.

`Drift` bounds how far `weighted_round_robin` lets a backend fall behind its share. It
never is a whole pick ahead, but with many backends it can be more than one behind:
with weights 1, 1, 1, 7, 7 and 7 one of the light ones is, for a while.

### Rate limiter: `RateLimiter`

`Allow` is two steps, reading the clock and the work under the shard's lock: a caller
may be overtaken in between and come to the bucket with a time that is past. `evict`
reads the clock once and visits shard after shard. Tokens are counted in units of
what one tick of the clock adds, so that the floats of the code become integers; times
are kept as ages. `due` is a history variable, the bucket that is debited on the dot,
and `slack` adds up the delays of the callers.

### Process: `Restart`, `AdminServer`, `Lifecycle`

`Restart` follows one process from serving to its exit: SIGUSR2 and its handler, `POST
/admin/restart`, `Trigger` under `inProgress`, the readiness pipe with its timeout,
SIGTERM, main's shutdown sequence down to its deferred calls. A child fails, hangs or
becomes ready. `AdminServer` has the semaphore of REST requests, the WebSocket
handlers with their readers (hijacked from the HTTP server, then put in `wsConns`,
then added to `wsWg`), and `Close` in its three parts: `Shutdown`, the closing of the
tracked connections, and the wait for their handlers. `Lifecycle` composes them: a
restart request holds its place of the semaphore until `Trigger` returns, main waits
for `Close`, and every end of the process takes the admin server with it.

`MCControlPlane` and `MCBalancers` only give constants their values. The modules that
hold proofs are listed under "What is proved".

## What the runs check

Passing runs:

| Run | Instance | What it shows |
| --- | --- | --- |
| `breaker` | 4 requests, threshold 3, 2 probes, 2 ticks | The flag follows the state and undecided probes are counted exactly (`BreakerAccounts`), the breaker implements `CircuitPhases` (`ImplementsPhases`), and a recovered backend's circuit closes for good, late reports of old failures included (`RecoveredBackendCloses`). |
| `health` | 2 backends, thresholds 2 and 3 | Recovery and removal each take an unbroken run of probes (`ChangesAreEarned`), a backend that stays up or down ends up served or skipped for good (`FlagSettles`), and `Stop` returns (`StopReturns`). |
| `reload_and_admin` | 2 pools, 2 addresses, 3 generations, 2 TLS listeners; the watcher and one admin request at a time; 3 configurations: the first, one with new certificates and a health check for a pool that had none, one that moves a listener | From start-up to shutdown: every published checker was started (`PublishedStarted`), no `Stop` hangs unless a partial update has carried a checker over (`StopNeverHangs`), the listeners never change (`ListenersFixed`), and a configuration is on its way to being published only when every TLS listener serves its certificates (`CertsBeforePublish`). |
| `poller_only` | a static and a discovered pool, one poller, drain requests, metrics on | No monitoring gap (`NoMonitoringGap`), no leaked checker (`NoLeakedChecker`), what discovery settles on is served (`ResolvedIsServed`), shutdown completes (`ShutdownCompletes`). |
| `listeners` | one listener of each protocol, 2 backends of which an update removes one, 2 balancer generations; 2 connections with limit 1 or none; 1 UDP client, 2 session objects; 2 HTTP connections with limit 1, 2 attempts, ratio 0.6, 2 requests | *TCP and passthrough:* tokens and balancer counts match the connections, the gauge does until its series is deleted and is never more afterwards (`CountsTrue`); nothing joins a WaitGroup being waited on (`NoAddDuringWait`), a drained server is idle (`DrainedMeansIdle`), `Close` winds everything down (`CloseWindsDown`). *UDP:* no socket outlives its entry and sessions are never overcounted (`SessionsAccounted`), idle ones go (`IdleIsEvicted`), and `Close` leaves nothing (`DrainedMeansClosed`, `SessionsWindDown`). *HTTP:* tokens match open connections and, until a retry policy drifts, counts match requests in flight (`InFlightCounted`); no second attempt before the budget's window has run out (`RetriesWaitForWindow`). |
| `relay` | 2 chunks each way, a window of 1, with and without a timeout of 2 ticks, with and without passthrough | Nothing is lost or cut off (`NothingLost`). Relay returns after a half-close if both ends read what they are sent and, with a timeout, once nothing has been forwarded for that long, whatever the ends do (`RelayEnds`). |
| `balancers` | weights 1, 3, 2, two callers, all algorithms | `Pick` refuses only when it must (`RefusalIsTrue`); rotations keep their shares, `least_conn` is off by no more than the number of callers, `random` and `ip_hash` draw in proportion (`SharesKept`); rotations starve nobody (`NobodyStarves`). |
| `rate_limit` | 1 client, 2 callers, a burst of 2 tokens, delays of up to 2 ticks | A client never loses what it has earned and, as the eviction time is long enough for a bucket to fill up, never gains more than the callers' delays (`BudgetKept`), a refusal was deserved at the time the caller read (`RefusalDeserved`), idle buckets go and `Stop` returns (`IdleBucketsGo`). |
| `lifecycle` | 1 proxy listener with `_admin` and `_metrics`, 1 restart request and SIGUSR2, 2 children, 1 viewer | A restart leaves no listener unserved (`NoServingGap`), handoffs are one at a time (`OneHandoff`) and end (`HandoffsEnd`), a shutdown ends unless a viewer overtook `Close` (`ShutdownEnds`), lost viewers leave nothing behind (`NoViewerLeak`). |

The type invariant is a conjunct of one of the invariants above in `TCPServer`
(`CountsTrue`), `Relay` (`NothingLost`), `UDPSessions` (`SessionsAccounted`),
`HTTPRequests` (`InFlightCounted`) and `Balancers` (`SharesKept`); in the other modules
the proofs establish the types.

Each property of a passing run has a mutant in `PROJECT.json`: a slip somebody
could make in the code, under which TLC finds the property violated.

### Where code and documentation disagree

Three runs end in a counterexample, on purpose.

* `breaker_in_proxy` (`OpenCircuitHalfOpens`): the README says that an open circuit
  turns half-open after `open_duration`. Only `Allow` and `State` do that and the program
  calls neither, so a circuit that has opened stays open until its pool is rebuilt.
* `relay_idle` (`CutOnlyWhenIdle`): `tcp.go:337-339` says that the relay's deadline
  "resets whenever either direction forwards data". It is set once per direction, so a
  busy connection is cut when it is `tcp_idle_timeout` old.
* `discovery_reload` (`DiscoveryErrorsNeverEmpty`): the README says that discovery errors
  never empty a pool. A poll that fails does leave the pool alone, but a reload goes on
  with an empty list, and the poller, which sees no change, does not repair it.

Other disagreements, which the models reproduce (the code's behaviour is what they
have); where a property comes close to one it says so in its statement:

* The README's half-open state is decided by a probe. The code lets the first outcome
  decide that is reported then, also that of an earlier request: `Overtake`.
* `lb_connections_active` is documented as the connections that are active now. When an
  update removes a backend its series is deleted while connections to it go on; their
  ends take from a new series, which then is below the true number and below zero
  when they are all gone. `CountsTrue`, `SessionsAccounted` and `InFlightCounted` are exact
  until then.
* `connreleaser.go:17-19` has `Release` called when a connection ends. With
  a retry policy a retryable status and an unreadable request body release nothing and a
  retry releases the backend of the first attempt (`transport.go:163-165`, `237`).
  `InFlightCounted` states the exact count up to the first of these, and the lower
  bound that is left afterwards.
* `retry.go:53`: each request has a budget of its own, and a failed attempt is
  recorded in it before it is asked, so the first question is refused for every ratio up
  to 1 unless the window of 10 seconds has run out: what `RetriesWaitForWindow` states.
* `tcp.go:365`: for TLS passthrough the client's connection is a `bufferedConn` and not
  a `*net.TCPConn`, so a backend's half-close is not passed on to the client. `RelayEnds`
  promises a return after the backend's half-close for plain TCP only.
* The README lists health checks as hot-reloadable. `UpdatePoolBackends` goes by the
  configuration of the start and keeps the checker of a pool that has none there, so that
  the first partial update after such a reload starts the checker a second time and then
  waits for ever in its `Stop`. TLC finds this in `reload_and_admin` when `NobodyHangs` is
  checked alone; `StopNeverHangs` is the claim with `kept = {}`.
* The README says that after a failed reload the current configuration "remains
  untouched". TLS listeners that come before the one whose certificate cannot be loaded
  already serve the new certificates.
* The README says of `POST /admin/restart` that it returns 202 immediately and that
  the handoff is asynchronous. The handler calls `Trigger` and answers when it returns.
* `restart.go:63-67` says that `Trigger` calls `os.Exit` on success. It returns nil, and
  main shuts down in its own order.
* `handoff_e2e_test.go:187-190` expects dropped connections from a "gap between
  parent draining and child accepting". There is none in the listeners themselves: the
  parent closes its own only after a child is ready (`NoServingGap`).
* `signal_unix.go:37`: the handler of SIGUSR2 closes `done`, which the stop function
  has closed already, and panics, unless main has returned first. The proxies have
  drained by then.
* `websocket.go:85-88` says that `wg` is incremented before a handler starts, so that
  none is left after `Close`. The handler itself adds to it (129-130): a viewer that is
  hijacked before `Close` and counted after its wait is still there afterwards, and one
  that is tracked after `Close` has closed the tracked ones (`server.go:275-282`) keeps
  its connection while `Close`, or the second call of it, waits for the viewer to leave.
  `ShutdownEnds` excepts exactly this.

### Bounds, and why they are enough

* *Actors.* Two or more requests, connections, callers or sessions: the races are
  between two of them, or between one and a closing or updating goroutine. The stream
  and the HTTP listener have one connection more than the limit, so the limit is met.
  Four requests meet a threshold of 3 with one left over that reports late. One UDP client
  has two session objects, the one in the table and one whose reader has not ended;
  clients share nothing but the table's lock and the accounts, and the safety
  properties are proved for any number of them.
* *Generations* of a pool. The proxies need two, the one acquired and the one
  current at release. The control plane reuses freed generations; three are enough
  for a published one and one built by each of two updaters, and an update that
  finds none free waits, which only delays it.
* *Updates* of a listener's pool: one at a time, which removes a backend, with or without
  the deletion of its series. Races of updaters are the matter of the control plane.
* *Time* is counted only up to the timeout that is compared with.
* *Chunks* and *window.* Two chunks tell the first from the last, and the replayed
  ClientHello from what follows it; with a window of one the second write may block.
* *Attempts.* Two, the least with a retry; a ratio of 0.6 refuses the first question and
  allows one after the window has run out.
* *Delays and ages* of the rate limiter. `MaxDelay` bounds how long a caller is
  overtaken; ages beyond `AgeCap`, where a bucket is full and idle whatever delay is
  subtracted, are not told apart.
* *Children* alive at a time: two, so that a second handoff may start while the first
  child is ready; a dead child's place is used again.
* `MaxRequests` and `MaxConns` cap histories whose counters would grow; the slot of
  a finished connection is used again.
* `reload_and_admin` has one admin request at a time, racing the watcher.
* Deadlock is checked where the system goes on for ever (`breaker`, `balancers`,
  `rate_limit`);
  the others may stop: after a shutdown, a `Close`, the last request.

### Fairness, and why the code justifies it

Weak fairness for goroutines that can run, because Go schedules them, and for steps
that end by a timeout (dials, response headers, backoff, the relay's deadline, the
handoff, the contexts of a shutdown). Strong fairness for the goroutines whose
`select` keeps finding the done channel ready (`ContextDone`, `EvictorReturns`,
`SweeperReturns`, `ReaderNoticed`): it chooses at random, so the ticker does not win
for ever. `breaker`: requests keep arriving and end, and time passes, but nobody needs
to read `State`. `relay`: of the two ends it is assumed that one that has been told of
the other's end closes its own half some day; that both keep reading is a premise of
the first part of `RelayEnds` and not of the second. `listeners`: a relay ends some
day. `balancers`: callers keep picking. `rate_limit`: callers that wait for a lock get
it, and time passes. Never fair: edits of the file, changes of a discovery source,
admin requests, signals, flags, failures, pool swaps, the backends themselves, a
child's becoming ready or failing, and a viewer's leaving.

## What is proved

TLAPS checks these for every value of the constants that satisfies the named
assumptions of the modules: `BreakerAssumption`, `HealthAssumption`,
`ServedPoolAssumption`, `SnapshotAssumption`, `SourceAssumption`, `TLSAssumption` (the
TLS listeners have certificates in the first configuration), `TCPServerAssumption`,
`UDPAssumption`, `HTTPAssumption`, `WeightsAssumption` (a list of positive weights),
`RelayAssumption`, `LimiterAssumption` (a burst of at least one token),
`RestartAssumption`, `AdminAssumption` and `LifecycleAssumption`. All are evaluated by
TLC in the runs.

| Module | Theorem | Statement |
| --- | --- | --- |
| `RequestProofs` | `BreakerInvariant` | `TypeOK` and `BreakerAccounts` always hold |
| | `BreakerRefinesPhases` | the breaker implements `CircuitPhases`, with its threshold, cool-down and bound on probes |
| | `CheckerTypes`, `ChangesEarned` | types of the health checker; every recovery and every active removal is earned |
| | `RequestsAreCounted` | `InFlightCounted`: the HTTP listener's limit, counts and gauges |
| | `RetriesAlwaysWait` | `RetriesWaitForWindow`, for every ratio that validation admits |
| `PickProofs` | `RefusalsAreTrue` | no `Pick` refuses while a backend stays eligible |
| `ShareProofs` | `SharesAreKept` | the shares of all five algorithms |
| `ControlPlaneProofs` | `ControlPlaneTypes` | types of the whole control plane |
| | `PublishedAreStarted` | every published checker has been started |
| | `ListenersNeverChange` | no step changes the published listeners |
| `ControlPlaneSafety` | `CertificatesFirst` | `CertsBeforePublish`, for any number of TLS listeners |
| | `StopsNeverHang` | `StopNeverHangs`: until a partial update carries a checker over, no `Checker.Stop` waits for ever |
| | `LoneUpdaterLeavesNoGap` | no monitoring gap, given `LoneUpdater(u)` |
| | `LoneUpdaterLeaksNothing` | no leaked checker, given `LoneUpdater(u)` |
| `ClientProofs` | `SessionsAlwaysAccounted`, `DrainedIsClosed` | the UDP proxy's accounts and its drained state |
| | `BudgetAlwaysKept`, `RefusalsDeserved` | the rate limiter's budget (its upper bound for eviction times in which a bucket fills up) and refusals |
| | `RelayLosesNothing` | the relay loses nothing and cuts nothing off |
| `ServerProofs` | `CountsAlwaysTrue`, `DrainedIsIdle`, `NothingAddedDuringWait` | the stream proxies' accounts, their drained state and their WaitGroup |
| | `RestartsLeaveNoGap`, `HandoffsAreGuarded` | no listener is left unserved; handoffs are one at a time |

`SumProofs` has the lemmas about sums over finite sets that `PickProofs`,
`ShareProofs` and `RequestProofs` use. `RequestProofs` extends `Breaker`,
`HealthChecker` and `HTTPRequests`, `ClientProofs` extends `UDPSessions`, `RateLimiter`
and `Relay`, and `ServerProofs` extends `TCPServer` and `Lifecycle`. The components of
one module are independent, and no statement is about two of them. They are
extended together, so they have no name in common: the specification of
`HealthChecker` is `CheckerSpec`, that of `HTTPRequests` is `HTTPSpec`, then
`TCPSpec`, `UDPSpec`, `LimiterSpec`, `RelaySpec` and `LifecycleSpec`. A proxy's theorems
are about its own specification, a listener of its protocol; the steps of `Listeners` are
the steps of these.

One hypothesis appears, and the properties are false without it. `LoneUpdater(u)`: there
are no admin requests, and u is the watcher in a process with no poller, or the one
poller in a process without reloads. A lone admin request is not enough: it may come
before main has started the first checkers. (The run `poller_only` has drain requests as
well, which do not load a snapshot to replace it.)

*Breaker.* The invariant adds to the three properties that each counter is at rest
outside its state: failures are below the threshold while closed and zero otherwise,
probes are zero unless half-open. Without it a stale counter could open a circuit
early. The cardinality of the probes in flight changes by one in `Allow` and to zero
when an episode is decided. The refinement maps the probes of the episode to `probes`
and every other request in flight to `earlier`; it needs the same invariant, for the
bound on probes and for the transitions that reset them.

*Health checker.* The counter that decides a backend's next change equals the run
the history variable records, and is below its threshold. Only that one: the other
counter may hold left-overs, because `ReportFailure` does not clear
`consecutiveFailure`; the invariant shows why this is harmless.

*HTTP.* `RequestInv` adds what the stage of a request says of its record: which stages
have a backend, and that a request which asks the budget within its first window has
one failure recorded and no question asked. `FirstQuestionRefused` is the arithmetic
of that. The exact counts are sizes of sets of requests, up to `drifted`. Afterwards a
release may go to another backend than the acquisition, so
that only the sum of a balancer's counts can be bounded; `Release` takes one from it at
most, and only when a request stops being in flight.

*Sums.* `SumFunction` is a fold, that is a recursive function over subsets. What it
computes is proved by taking a smallest set for which it is not so (`MinimalSet`, from
the library's theorem that strict inclusion of finite sets is well-founded), since the
induction rules that take a predicate cannot be used.

*Balancers, refusals.* `ScanInv`: a `Pick` has seen every backend it has passed that
stayed eligible, and it passes them all, from wherever it starts and around the end of
the list (`Positions`). For `random` and `ip_hash` also: the walk along the weights
ends at a candidate for every target (`ByWeightIs`).

*Balancers, shares.* `RotationInv` counts how many times each position has been
handed out; a backend is short of that only by the picks still on their way. `DriftInv`
is about sets of backends rather than single ones: a set of k of the N
backends is never in debt by more than the largest weight times k (N - k). The bound on
single weights is not inductive by itself; for sets it is, because the winner, who pays,
has at least the weight of every other candidate. All weights add up to zero, which
turns the bound on the debt of the others into one on the credit of a backend. While
all backends are eligible current weights and picks are in step
(`CycleInv`: current weight = picks in the cycle times weight - times served times total),
hence the exact shares at the end of a cycle. `LeastInv`
bounds the connections and the choices on their way together.

*Control plane.* `TypeInv` adds to `TypeOK` that a live `cancel` has a live
context (so `Stop` never cancels what does not exist), that only an existing pool
state has servers, and that a drain in progress names a server of the snapshot it
loaded. Every step is shown to be of one of six kinds (quiet, start-up, start, swap,
build of one pool, build of all), and the safety proofs go through the kinds
rather than through the actions of three updaters. `StartedInv` says of every
snapshot that is published or about to be: checkers outside the updater's scope
have been started by others, those in its scope by its own `StartNew`; the
difficulty is that a build may reuse a generation, which is sound because nothing
refers to it (`BuildKeepsCover`). `ListenersInv` rests on
`DiffListenersIsEquality`: a comparison by name that succeeds means equal sets.
`CertsInv` says that while certificates are being replaced every TLS listener
is still to come or serves the new ones. `HangInv` says, as long as `kept` is empty, that
`Start` is called once on a checker: what an updater has built and what main has still to
start has no context yet, and no two of them have the same checker. `LoneInv(u)`
follows the one updater: it still holds the published
snapshot when it swaps, its new checkers are not the old ones, outside its scope
nothing changes, and every checker that is probing is in the published snapshot or in
the scope it is about to publish or to stop. That a stopped checker is at rest is
`HangInv` again; a lone updater carries no checker over, because the watcher makes no
partial updates and a lone poller finds no checker in a pool that was started without
(`NoneKept`, `BareInv`).

*Rate limiter.* `BudgetKept` is inductive together with the types once it is known
that a client without a bucket stands for a full one (`AbsentIsFull`). The upper bound
is conditional in the property itself: a bucket that is deleted before it would have
filled up comes back full. The arithmetic of
one bucket (debit, refusal, tick, eviction) is in lemmas about integers.

*TCP and passthrough.* Each account is the size of a set of connections, and each
step moves one connection; `OneMoves` says what that does to the size. The invariant
adds that a handler between `Pick` and `Release` has a backend, and how far `Close` has
come. `Cleanup` sets a gauge to zero and marks the backend as cleaned, after which only
the upper bound is kept, here and in the other two proxies.

*Relay.* `RelayInv`: a goroutine that is about to write holds a chunk that was sent, the
ClientHello to replay counts as sent and not yet moved, a deadline is set once, so that
a connection that ran into it stays expired, and a direction that has ended on
unbroken connections has moved everything before its destination is told.

*UDP.* Gauge and WaitGroup are sizes of sets as well. The balancer's counts are not:
a session is released on the balancer of the moment of its end, so what is kept is a
bound, and it is not inductive by itself. When `evictExpired` has loaded a balancer that
was replaced since, it takes nothing from the new one; the sessions it removes must
not be counted there. They are not, because they are idle and the new balancer counts
busy ones only (`CountsBelow`). This uses that no session becomes idle between
loading the balancer and scanning the table, which `BecomesIdle` assumes.

*Restart.* Each step of `Lifecycle` is a step of `Restart` or leaves
it alone (`RestartPart`), so that an inductive invariant of `Restart` will do.
`RestartInv`: main leaves its wait, and is told to,
only with a child handed over or when asked to stop; a child handed over stays ready,
because nobody waits for it who could kill it; and only the holder of `inProgress`
waits.

### What is only model-checked

Everything that needs fairness: `RecoveredBackendCloses`, `FlagSettles`,
`StopReturns`, `ResolvedIsServed`, `ShutdownCompletes`, `CloseWindsDown`,
`SessionsWindDown`, `RelayEnds`, `IdleIsEvicted`, `NobodyStarves`, `IdleBucketsGo`,
`HandoffsEnd`, `ShutdownEnds`, `NoViewerLeak`; liveness is outside what the prover
handles. Every safety property of a passing run is proved.

## What is not modelled, and why

* The proxies treat the rate limiter's answer as a free choice; `RateLimiter` shows
  what the answer means.
* Configuration parsing and validation, discovery adapters, authentication, audit,
  logging, the text of metrics: sequential translation or input and output, with
  no state shared between goroutines that a property could be about. Configurations
  range over valid ones; a discovery source is a set of backends or an error.
* ClientHello bytes, HTTP headers, TLS settings, sticky cookies, the matching of
  routes, WebSocket frames, the dashboard's contents: decisions and data that the
  modules leave open.
* The descriptor table a child reads from its environment: a child inherits a set of
  listeners and binds the others.
* The inside of the HTTP server's own `Close`, the metrics server and the access log;
  main's shutdown waits for each in turn.
* Zero weights: validation forbids them in a file, the admin API lets them through;
  the balancers are modelled for positive weights (`WeightsAssumption`).
* The panic of a WaitGroup that is reused while a `Wait` returns (`server.go:282`).

### Known to fail with several updaters

`NoMonitoringGap` and `NoLeakedChecker` are stated for one updater (`poller_only`, and
the theorems with `LoneUpdater(u)`). Updaters do not exclude one another, and with
more of them TLC finds each violated: of two that load the same snapshot the later
swap wins, with two pools it may publish a checker of the other pool that has been
stopped, and it undoes the other's change to that pool; the checker of the one that
lost, or of an update that came before main started the first checkers, keeps probing.
`reload_and_admin` shows what does stay true under such races. The hazards in
`PROJECT.json` name the lines.

## Running

From this directory, for example:

    tlc -workers 2 -config Listeners.cfg Listeners
    tlc -workers 2 -config ReloadAndAdmin.cfg MCControlPlane
    tlapm ControlPlaneSafety.tla

The largest run, `reload_and_admin`, has 1.7 million distinct states and takes less than
two minutes, as do the others. The proofs of a module take a few
minutes. Many leaves cite `Zenon`, which proves them at once: the translation for the
SMT solver, which is tried first otherwise, slows down over the length of a module.
