----------------------------- MODULE RateLimiter -----------------------------
(***************************************************************************)
(* The per-client token buckets of internal/ratelimit, called by the       *)
(* handlers of one listener at the same time, with the goroutine that      *)
(* evicts idle buckets and Stop.                                           *)
(*                                                                         *)
(* Allow reads the clock, then takes the lock of the client's shard: a     *)
(* caller may be overtaken between the two and come to the bucket with a   *)
(* time that is past.  evict reads the clock once and then takes one lock  *)
(* after the other.                                                        *)
(*                                                                         *)
(* Tokens are floats that grow with time.  The unit here is what one tick  *)
(* of the clock adds; a token is Token units and the capacity (burst) is   *)
(* Capacity units.  Times are kept as ages, which is all the code looks    *)
(* at: how long ago a bucket's lastTime is, and how long ago a caller read *)
(* the clock.  Ages so large that a bucket is full and idle whatever delay *)
(* is subtracted from them are not told apart (AgeCap).                    *)
(***************************************************************************)
EXTENDS Integers

CONSTANTS
  IPs,        \* client addresses; two of one shard are two that follow each other
  NoIP,       \* not one of them
  Callers,    \* handlers that may be in Allow at a time
  Capacity,   \* burst, in units
  Token,      \* units in a token
  IdleTTL,    \* client_idle_eviction, in ticks
  MaxDelay    \* bound: ticks from reading the clock to having the lock

ASSUME LimiterAssumption ==
  /\ Token \in Nat \ {0} /\ Capacity \in Nat /\ Token <= Capacity
  /\ IdleTTL \in Nat \ {0} /\ MaxDelay \in Nat
  /\ NoIP \notin IPs

VARIABLES
  known,     \* the clients that have a bucket
  tokens,    \* what each bucket held at its lastTime; Capacity without a bucket
  age,       \* how long ago each bucket's lastTime is; 0 without a bucket
  call,      \* each caller: the client it asks for, its clock's age, its last answer
  sweeper,   \* evictLoop: its stage, its clock's age, the shards it has to visit
  stopper,   \* Stop: "none", "waiting", "returned"
  due,       \* history: what a bucket that is debited on the dot would hold
  slack      \* history: the delays of the calls that were answered, in all

buckets == <<known, tokens, age>>
limiterVars == <<known, tokens, age, call, sweeper, stopper, due, slack>>

AgeCap == Capacity + IdleTTL + MaxDelay + 1
Least(m, n) == IF m < n THEN m ELSE n
Most(m, n)  == IF m < n THEN n ELSE m

LimiterTypeOK ==
  /\ known \in SUBSET IPs
  /\ tokens \in [IPs -> 0 .. Capacity]
  /\ age \in [IPs -> 0 .. AgeCap]
  /\ call \in [Callers -> [client : IPs \cup {NoIP}, delay : 0 .. MaxDelay,
                           answer : {"none", "admitted", "refused"}]]
  /\ sweeper \in [stage : {"waiting", "sweeping", "returned"}, delay : 0 .. MaxDelay,
                  left : SUBSET IPs]
  /\ stopper \in {"none", "waiting", "returned"}
  /\ due \in [IPs -> 0 .. Capacity]
  /\ slack \in [IPs -> 0 .. Capacity]

(* NewLimiter: no buckets, and evictLoop running.                          *)
LimiterInit ==
  /\ known = {}
  /\ tokens = [c \in IPs |-> Capacity]
  /\ age = [c \in IPs |-> 0]
  /\ call = [g \in Callers |-> [client |-> NoIP, delay |-> 0, answer |-> "none"]]
  /\ sweeper = [stage |-> "waiting", delay |-> 0, left |-> {}]
  /\ stopper = "none"
  /\ due = [c \in IPs |-> Capacity]
  /\ slack = [c \in IPs |-> 0]

-----------------------------------------------------------------------------
(* Allow                                                                   *)

(* now := time.Now(), before the lock.                                     *)
ReadClock(g, c) ==
  /\ call[g].client = NoIP
  /\ call' = [call EXCEPT ![g] = [client |-> c, delay |-> 0, answer |-> "none"]]
  /\ UNCHANGED <<buckets, sweeper, stopper, due, slack>>

(* A plausible slip: the refill is not held to the capacity.               *)
RefilledUncapped(c, delay) ==
  IF age[c] > delay THEN tokens[c] + (age[c] - delay) ELSE tokens[c]

(* The refill for the time that passed between lastTime and now, none when *)
(* another caller has put lastTime after now.                              *)
Refilled(c, delay) ==
  IF age[c] > delay THEN Least(Capacity, tokens[c] + (age[c] - delay)) ELSE tokens[c]

(* A plausible slip: a bucket that holds exactly one token refuses.        *)
AllowStrict(g) ==
  LET c == call[g].client
      delay == call[g].delay
      admit == Refilled(c, delay) > Token
  IN /\ c # NoIP
     /\ known' = known \cup {c}
     /\ tokens' = [tokens EXCEPT ![c] = Refilled(c, delay) - (IF admit THEN Token ELSE 0)]
     /\ age' = [age EXCEPT ![c] = delay]
     /\ call' = [call EXCEPT ![g] = [client |-> NoIP, delay |-> 0,
                                     answer |-> IF admit THEN "admitted" ELSE "refused"]]
     /\ due' = IF admit THEN [due EXCEPT ![c] = Most(0, @ - Token)] ELSE due
     /\ slack' = [slack EXCEPT ![c] = Least(Capacity, @ + delay)]
     /\ UNCHANGED <<sweeper, stopper>>

(* The rest of Allow, under the lock: the bucket is made, full, when there *)
(* is none; it is refilled, debited if it holds a token, and its lastTime  *)
(* becomes now, whichever way the answer goes.                             *)
Allow(g) ==
  LET c == call[g].client
      delay == call[g].delay
      admit == Refilled(c, delay) >= Token
  IN /\ c # NoIP
     /\ known' = known \cup {c}
     /\ tokens' = [tokens EXCEPT ![c] = Refilled(c, delay) - (IF admit THEN Token ELSE 0)]
     /\ age' = [age EXCEPT ![c] = delay]
     /\ call' = [call EXCEPT ![g] = [client |-> NoIP, delay |-> 0,
                                     answer |-> IF admit THEN "admitted" ELSE "refused"]]
     /\ due' = IF admit THEN [due EXCEPT ![c] = Most(0, @ - Token)] ELSE due
     /\ slack' = [slack EXCEPT ![c] = Least(Capacity, @ + delay)]
     /\ UNCHANGED <<sweeper, stopper>>

-----------------------------------------------------------------------------
(* Eviction, Stop and the clock                                            *)

(* The ticker fires in evictLoop: evict reads the clock and visits every   *)
(* shard.                                                                  *)
Sweep ==
  /\ sweeper.stage = "waiting"
  /\ sweeper' = [stage |-> "sweeping", delay |-> 0, left |-> IPs]
  /\ UNCHANGED <<buckets, call, stopper, due, slack>>

(* evict in one shard, under its lock: a bucket untouched for longer than  *)
(* idleTTL, as of when evict began, is deleted.                            *)
IdleSince(c, delay) == c \in known /\ age[c] - delay > IdleTTL

(* A plausible slip: lastTime and now the wrong way round.                 *)
EvictSwapped(c) ==
  /\ sweeper.stage = "sweeping" /\ c \in sweeper.left
  /\ IF c \in known /\ sweeper.delay - age[c] > IdleTTL
     THEN /\ known' = known \ {c}
          /\ tokens' = [tokens EXCEPT ![c] = Capacity]
          /\ age' = [age EXCEPT ![c] = 0]
     ELSE UNCHANGED buckets
  /\ sweeper' = IF sweeper.left = {c}
                THEN [stage |-> "waiting", delay |-> 0, left |-> {}]
                ELSE [sweeper EXCEPT !.left = @ \ {c}]
  /\ UNCHANGED <<call, stopper, due, slack>>

EvictShard(c) ==
  /\ sweeper.stage = "sweeping" /\ c \in sweeper.left
  /\ IF IdleSince(c, sweeper.delay)
     THEN /\ known' = known \ {c}
          /\ tokens' = [tokens EXCEPT ![c] = Capacity]
          /\ age' = [age EXCEPT ![c] = 0]
     ELSE UNCHANGED buckets
  /\ sweeper' = IF sweeper.left = {c}
                THEN [stage |-> "waiting", delay |-> 0, left |-> {}]
                ELSE [sweeper EXCEPT !.left = @ \ {c}]
  /\ UNCHANGED <<call, stopper, due, slack>>

(* Stop: close(stop), then wait for done.                                  *)
Stop ==
  /\ stopper = "none"
  /\ stopper' = "waiting"
  /\ UNCHANGED <<buckets, call, sweeper, due, slack>>

(* evictLoop finds stop closed, between two sweeps, and closes done.       *)
SweeperReturns ==
  /\ stopper # "none" /\ sweeper.stage = "waiting"
  /\ sweeper' = [sweeper EXCEPT !.stage = "returned"]
  /\ UNCHANGED <<buckets, call, stopper, due, slack>>

StopReturns ==
  /\ stopper = "waiting" /\ sweeper.stage = "returned"
  /\ stopper' = "returned"
  /\ UNCHANGED <<buckets, call, sweeper, due, slack>>

(* The monotonic clock.  No one who has read it stays overtaken for more   *)
(* than MaxDelay ticks.                                                    *)
Tick ==
  /\ \A g \in Callers : call[g].client # NoIP => call[g].delay < MaxDelay
  /\ sweeper.stage = "sweeping" => sweeper.delay < MaxDelay
  /\ age' = [c \in IPs |-> IF c \in known THEN Least(AgeCap, age[c] + 1) ELSE 0]
  /\ call' = [g \in Callers |-> IF call[g].client = NoIP THEN call[g]
                                ELSE [call[g] EXCEPT !.delay = @ + 1]]
  /\ sweeper' = IF sweeper.stage = "sweeping" THEN [sweeper EXCEPT !.delay = @ + 1] ELSE sweeper
  /\ due' = [c \in IPs |-> Least(Capacity, due[c] + 1)]
  /\ UNCHANGED <<known, tokens, stopper, slack>>

LimiterNext ==
  \/ \E g \in Callers : Allow(g) \/ \E c \in IPs : ReadClock(g, c)
  \/ \E c \in IPs : EvictShard(c)
  \/ Sweep \/ Stop \/ SweeperReturns \/ StopReturns \/ Tick

(* Goroutines that can run do, time passes, the ticker fires; select has   *)
(* no order between a tick and stop, and takes either if both stay ready.  *)
LimiterSpec ==
  /\ LimiterInit /\ [][LimiterNext]_limiterVars
  /\ \A g \in Callers : WF_limiterVars(Allow(g))
  /\ \A c \in IPs : WF_limiterVars(EvictShard(c))
  /\ WF_limiterVars(Sweep) /\ WF_limiterVars(StopReturns) /\ WF_limiterVars(Tick)
  /\ SF_limiterVars(SweeperReturns)

-----------------------------------------------------------------------------
(* What a caller with a fresh clock would find in the bucket.              *)
Holds(c) == Least(Capacity, tokens[c] + age[c])

(* What a client may spend follows its budget, however the handlers of its *)
(* connections and the sweeper overtake each other: Allow never loses what *)
(* the client has earned, and it never gives more than the callers' delays *)
(* add up to, none when each answers with a fresh clock.  The second needs *)
(* an eviction time in which a bucket fills up: deleting a bucket sooner   *)
(* hands the client a full one (limiter.go:60-102, 123-135).               *)
BudgetKept ==
  \A c \in IPs :
    /\ due[c] <= Holds(c)
    /\ IdleTTL + 1 >= Capacity => Holds(c) <= due[c] + slack[c]

(* A refusal is deserved: at the time the caller read, the client's budget *)
(* held no token (bucket.allow, limiter.go:86-102).                        *)
RefusalDeserved ==
  [][\A g \in Callers :
       /\ call[g].client # NoIP /\ call'[g].client = NoIP
       /\ call'[g].answer = "refused"
       => due[call[g].client] - call[g].delay < Token]_limiterVars

(* A bucket nobody uses is deleted, until the limiter is stopped, and Stop *)
(* returns even if it meets a sweep (evictLoop and Stop,                   *)
(* limiter.go:106-147).                                                    *)
IdleBucketsGo ==
  /\ \A c \in IPs : IdleSince(c, 0) ~> (~IdleSince(c, 0) \/ stopper # "none")
  /\ stopper = "waiting" ~> stopper = "returned"
=============================================================================
