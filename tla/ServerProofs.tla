---------------------------- MODULE ServerProofs ----------------------------
(***************************************************************************)
(* Proofs about a listener and about the process: the L4 listener's        *)
(* accounts, for any number of connections, backends, updates of the pool  *)
(* and any limit, and the restart, for any listeners, requests, viewers    *)
(* and number of children.                                                 *)
(*                                                                         *)
(* Each account of the listener (semaphore, WaitGroup, LeastConnections'   *)
(* counts, gauge) is the size of a set of connections, and each step moves *)
(* one connection. OneMoves says what that does to the size of a set.      *)
(*                                                                         *)
(* Each step of Lifecycle is a step of Restart or leaves it alone          *)
(* (RestartPart), so that Restart has an inductive invariant of its own.   *)
(*                                                                         *)
(* TCPServer and Lifecycle are independent, and no statement is about both.*)
(***************************************************************************)
EXTENDS TCPServer, Lifecycle, FiniteSetTheorems, TLAPS

Slotted == {"held"} \cup (Handling \ {"ending"})
Holders == {c \in Conns : conn[c] \in Slotted}
Handled == {c \in Conns : conn[c] \in Handling}
On(g, b) == {c \in Conns : conn[c] \in Counted /\ picked[c] = [gen |-> g, backend |-> b]}
Live(b) == {c \in Active(b) : series[c]}

Picks == [gen : Gens, backend : Backends]

(* The pool's part of the types; the update under way fits.                *)
PoolTypes ==
  /\ protocol \in Stream
  /\ lb \in Gens
  /\ members \in [Gens -> SUBSET Backends]
  /\ next \in (SUBSET Backends) \cup {NoUpdate}
  /\ next # NoUpdate => lb + 1 \in Gens
  /\ cleaned \in SUBSET Backends

(* The part of the types that the accounts do not give.                    *)
Types ==
  /\ count \in [Gens -> [Backends -> Nat]]
  /\ gauge \in [Backends -> Int]
  /\ maxConn \in Limits
  /\ loop \in {"accepting", "holding", "returned"}
  /\ listening \in BOOLEAN
  /\ conn \in [Conns -> {"none", "backlog", "held"} \cup Handling]
  /\ picked \in [Conns -> Picks \cup {NoPick}]
  /\ series \in [Conns -> BOOLEAN]
  /\ connSem \in Int /\ connSem <= maxConn
  /\ closing \in BOOLEAN
  /\ closer \in {"none", "marked", "waiting", "drained", "timed out"}

(* A handler between Pick and Releases has a backend.                       *)
PickedKnown == \A c \in Conns : conn[c] \in {"acquiring"} \cup Counted => picked[c] \in Picks

(* Close waits with the flag set and the listener closed, and has drained  *)
(* when no handler is left.                                                *)
CloseOrder ==
  /\ closer # "none" => closing
  /\ closer \in {"waiting", "drained", "timed out"} => ~listening
  /\ closer = "drained" => Handled = {}

HandlersCounted == wg = Cardinality(Handled)
TokensCounted   == connSem = IF Limited THEN Cardinality(Holders) ELSE 0
BackendsCounted ==
  \A g \in Gens, b \in Backends : count[g][b] = Cardinality(On(g, b))

(* The gauge counts the connections that will lower it, less those that    *)
(* have not raised it: the ones whose series was deleted between With.Inc  *)
(* and the second With, of the deferred Dec.                               *)
GaugesCounted ==
  \A b \in Backends :
    /\ gauge[b] <= Cardinality(Live(b))
    /\ b \notin cleaned => gauge[b] = Cardinality(Live(b)) /\ Live(b) = Active(b)

IInv ==
  /\ PoolTypes /\ Types /\ PickedKnown /\ CloseOrder
  /\ HandlersCounted /\ TokensCounted /\ BackendsCounted /\ GaugesCounted

(* Of two sets of connections that differ at most in c.                    *)
LEMMA OneMoves ==
  ASSUME NEW S \in SUBSET Conns, NEW T \in SUBSET Conns, NEW c \in Conns,
         \A x \in Conns \ {c} : x \in S <=> x \in T
  PROVE  /\ Cardinality(S) \in Nat /\ Cardinality(T) \in Nat
         /\ c \in S /\ c \in T => Cardinality(T) = Cardinality(S)
         /\ c \notin S /\ c \notin T => Cardinality(T) = Cardinality(S)
         /\ c \notin S /\ c \in T => Cardinality(T) = Cardinality(S) + 1
         /\ c \in S /\ c \notin T => Cardinality(T) = Cardinality(S) - 1
<1>1. IsFiniteSet(S) /\ IsFiniteSet(T)
  BY TCPServerAssumption, FS_Subset
<1>2. Cardinality(S) \in Nat /\ Cardinality(T) \in Nat
  BY <1>1, FS_CardinalityType
<1>3. CASE c \in S <=> c \in T
  <2>1. S = T
    BY <1>3
  <2> QED BY <1>2, <1>3, <2>1
<1>4. CASE c \notin S /\ c \in T
  <2>1. T = S \cup {c}
    BY <1>4
  <2> QED BY <1>1, <1>2, <1>4, <2>1, FS_AddElement
<1>5. CASE c \in S /\ c \notin T
  <2>1. T = S \ {c}
    BY <1>5
  <2> QED BY <1>1, <1>2, <1>5, <2>1, FS_RemoveElement
<1> QED BY <1>3, <1>4, <1>5

(* The invariant at the start.                                             *)
LEMMA InitInv == PoolInit /\ protocol \in Stream /\ TCPInit => IInv
<1> SUFFICES ASSUME PoolInit, protocol \in Stream, TCPInit PROVE IInv
  OBVIOUS
<1>1. \A c \in Conns : conn[c] = "none"
  BY Zenon DEF TCPInit
<1>2. Handled = {} /\ Holders = {} /\ \A g, b : On(g, b) = {} /\ Active(b) = {} /\ Live(b) = {}
  BY <1>1 DEF Handled, Holders, On, Active, Live, Handling, Slotted, Counted
<1>3. HandlersCounted /\ TokensCounted /\ BackendsCounted /\ GaugesCounted
  <2>1. Cardinality({}) = 0
    BY FS_EmptySet, Zenon
  <2>2. connSem = 0 /\ wg = 0 /\ cleaned = {}
        /\ \A g \in Gens, b \in Backends : count[g][b] = 0 /\ gauge[b] = 0
    BY DEF PoolInit, TCPInit
  <2>3. HandlersCounted /\ TokensCounted /\ BackendsCounted
    BY <1>2, <2>1, <2>2, Zenon DEF HandlersCounted, TokensCounted, BackendsCounted
  <2>4. \A b \in Backends : gauge[b] = 0
    BY DEF PoolInit
  <2>5. GaugesCounted
    BY <1>2, <2>1, <2>4 DEF GaugesCounted
  <2> QED BY <2>3, <2>5
<1>4. Types
  <2>1. maxConn \in Nat
    BY TCPServerAssumption DEF TCPInit
  <2>2. connSem \in Int /\ connSem <= maxConn
    BY <2>1 DEF TCPInit
  <2>3. conn \in [Conns -> {"none", "backlog", "held"} \cup Handling]
    BY DEF TCPInit
  <2>4. picked \in [Conns -> Picks \cup {NoPick}]
    BY DEF TCPInit
  <2>5. count \in [Gens -> [Backends -> Nat]] /\ gauge \in [Backends -> Int]
    BY DEF PoolInit
  <2>6. series \in [Conns -> BOOLEAN] /\ listening \in BOOLEAN /\ closing \in BOOLEAN
    BY Zenon DEF TCPInit
  <2>7. maxConn \in Limits /\ loop \in {"accepting", "holding", "returned"}
        /\ closer \in {"none", "marked", "waiting", "drained", "timed out"}
    BY DEF TCPInit
  <2> QED BY <2>2, <2>3, <2>4, <2>5, <2>6, <2>7, Zenon DEF Types
<1>5. PickedKnown
  BY <1>1 DEF PickedKnown, Counted
<1>6. CloseOrder
  BY DEF TCPInit, CloseOrder
<1>7. PoolTypes
  <2>1. 1 \in Gens
    BY ServedPoolAssumption
  <2>2. members \in [Gens -> SUBSET Backends]
    BY Zenon DEF PoolInit
  <2> QED BY <2>1, <2>2, Zenon DEF PoolInit, PoolTypes
<1> QED BY <1>3, <1>4, <1>5, <1>6, <1>7 DEF IInv

(* An update keeps the pool's types, and only an update changes them.      *)
LEMMA PoolKept ==
  ASSUME IInv, [TCPNext]_tcpVars
  PROVE  PoolTypes'
<1>1. ASSUME NEW new \in Memberships, Cleanup(new) \/ Rebuild(new)
      PROVE  PoolTypes'
  <2>1. new \in SUBSET Backends
    BY ServedPoolAssumption
  <2>2. PoolTypes
    BY DEF IInv
  <2> QED BY <1>1, <2>1, <2>2 DEF Cleanup, Rebuild, PoolTypes
<1>2. CASE SwapPool
  <2>1. PoolTypes
    BY DEF IInv
  <2>2. next \in SUBSET Backends /\ lb + 1 \in Gens
    BY <1>2, <2>1, Zenon DEF SwapPool, PoolTypes
  <2>3. members' \in [Gens -> SUBSET Backends]
    BY <1>2, <2>1, <2>2, Zenon DEF SwapPool, PoolTypes
  <2> QED BY <1>2, <2>1, <2>2, <2>3, Zenon DEF SwapPool, PoolTypes
<1>3. CASE UNCHANGED <<protocol, lb, members, next, cleaned>>
  BY <1>3 DEF IInv, PoolTypes
<1>4. ASSUME NEW c \in Conns, Connect(c) \/ Refuse(c) \/ Accept(c) \/ Admit(c) \/ handleConn(c)
      PROVE  UNCHANGED <<protocol, lb, members, next, cleaned>>
  BY <1>4, Zenon DEF Connect, Refuse, Accept, Admit, handleConn, RateLimit, ReadClientHello, Pick,
              Acquires, DefersDec, Dial, RelayReturns, Releases, Released, FreeSlot, Done,
              poolVars, update
<1>5. ASSUME AcceptError \/ Close \/ UNCHANGED tcpVars
      PROVE  UNCHANGED <<protocol, lb, members, next, cleaned>>
  BY <1>5, Zenon DEF AcceptError, Close, CloseMark, CloseListener, CloseEnds, poolVars, tcpVars
<1> QED BY <1>1, <1>2, <1>3, <1>4, <1>5, Zenon DEF TCPNext, Serve, TCPPoolStep, TCPCleanup

(***************************************************************************)
(* Steps: first the types, then each account.                              *)
(***************************************************************************)
LEMMA TypesKept ==
  ASSUME IInv, [TCPNext]_tcpVars
  PROVE  Types'
<1> USE DEF IInv
<1>1. ASSUME NEW c \in Conns, Connect(c) \/ Refuse(c) \/ RateLimit(c) \/ ReadClientHello(c)
               \/ Dial(c) \/ RelayReturns(c)
      PROVE  Types'
  BY <1>1, Zenon DEF Types, Move, Connect, Refuse, RateLimit, ReadClientHello, Dial, RelayReturns,
              poolVars, server, Handling
<1>2. ASSUME NEW c \in Conns, Accept(c) \/ Admit(c) \/ FreeSlot(c) \/ Done(c)
      PROVE  Types'
  <2>1. connSem' \in Int /\ connSem' <= maxConn'
    <3>1. maxConn \in Nat /\ connSem \in Int /\ connSem <= maxConn
      BY TCPServerAssumption, Zenon DEF Types
    <3> QED BY <1>2, <3>1 DEF Accept, Admit, FreeSlot, Done, Slots, Limited
  <2>2. conn' \in [Conns -> {"none", "backlog", "held"} \cup Handling]
    BY <1>2, Zenon DEF Types, Move, Accept, Admit, FreeSlot, Done, Handling
  <2> QED BY <1>2, <2>1, <2>2, Zenon DEF Types, Accept, Admit, FreeSlot, Done, poolVars
<1>3. ASSUME NEW c \in Conns, Pick(c)
      PROVE  Types'
  <2>1. picked' \in [Conns -> Picks \cup {NoPick}]
    <3>1. CASE UNCHANGED picked
      BY <3>1, Zenon DEF Types
    <3>2. ASSUME NEW b \in members[lb], picked' = [picked EXCEPT ![c] = [gen |-> lb, backend |-> b]]
          PROVE  picked' \in [Conns -> Picks \cup {NoPick}]
      <4>1. lb \in Gens /\ b \in Backends
        BY <3>2, Zenon DEF PoolTypes
      <4>2. [gen |-> lb, backend |-> b] \in Picks
        BY <4>1 DEF Picks
      <4> QED BY <3>2, <4>2, Zenon DEF Types
    <3> QED BY <1>3, <3>1, <3>2 DEF Pick
  <2>2. conn' \in [Conns -> {"none", "backlog", "held"} \cup Handling]
    BY <1>3, Zenon DEF Types, Move, Pick, Handling
  <2> QED BY <1>3, <2>1, <2>2, Zenon DEF Types, Pick, poolVars, server
<1>4. ASSUME NEW c \in Conns, Acquires(c)
      PROVE  Types'
  <2>1. picked[c] \in Picks
    BY <1>4, Zenon DEF PickedKnown, Acquires
  <2>2. picked[c].gen \in Gens /\ picked[c].backend \in Backends
    BY <2>1 DEF Picks
  <2>a. count \in [Gens -> [Backends -> Nat]] /\ gauge \in [Backends -> Int]
    BY Zenon DEF Types
  <2>3. count' \in [Gens -> [Backends -> Nat]]
    <3>1. PICK g \in Gens, b \in Backends : g = picked[c].gen /\ b = picked[c].backend
      BY <2>2, Zenon
    <3>2. count' = [count EXCEPT ![g] = [count[g] EXCEPT ![b] = count[g][b] + 1]]
      BY <1>4, <2>a, <3>1 DEF Acquires, Acquire
    <3>3. count[g] \in [Backends -> Nat]
      BY <2>a
    <3>4. [count[g] EXCEPT ![b] = count[g][b] + 1] \in [Backends -> Nat]
      BY <3>3
    <3> QED BY <2>a, <3>2, <3>4
  <2>4. gauge' \in [Backends -> Int]
    BY <1>4, <2>2, <2>a DEF Acquires, Inc
  <2> QED BY <1>4, <2>3, <2>4, Zenon DEF Types, Acquires, Move, server, Handling
<1>5. ASSUME NEW c \in Conns, Releases(c)
      PROVE  Types'
  <2>1. picked[c] \in Picks
    BY <1>5 DEF PickedKnown, Releases, Counted
  <2>2. picked[c].gen \in Gens /\ picked[c].backend \in Backends
    BY <2>1 DEF Picks
  <2>a. count \in [Gens -> [Backends -> Nat]] /\ gauge \in [Backends -> Int]
    BY Zenon DEF Types
  <2>3. count' \in [Gens -> [Backends -> Nat]]
    <3>1. PICK g \in Gens, b \in Backends : g = picked[c].gen /\ b = picked[c].backend
      BY <2>2, Zenon
    <3>2. count' = [count EXCEPT ![g] = [count[g] EXCEPT ![b] = Minus(count[g][b], 1)]]
      BY <1>5, <2>a, <3>1 DEF Releases, Release
    <3>3. count[g] \in [Backends -> Nat]
      BY <2>a
    <3>4. [count[g] EXCEPT ![b] = Minus(count[g][b], 1)] \in [Backends -> Nat]
      BY <3>3 DEF Minus
    <3> QED BY <2>a, <3>2, <3>4
  <2>4. gauge' \in [Backends -> Int]
    BY <1>5, <2>2, <2>a DEF Releases, LowerGauge, Dec
  <2>5. picked' \in [Conns -> Picks \cup {NoPick}]
    BY <1>5, Zenon DEF Types, Releases, Released
  <2> QED BY <1>5, <2>3, <2>4, <2>5, Zenon DEF Types, Releases, Released, Move, server, Handling
<1>6. ASSUME NEW c \in Conns, DefersDec(c)
      PROVE  Types'
  BY <1>6, Zenon DEF Types, DefersDec, Move, poolVars, server, Handling
<1>7. CASE AcceptError \/ CloseMark \/ CloseListener \/ CloseEnds
  BY <1>7, Zenon DEF Types, AcceptError, CloseMark, CloseListener, CloseEnds, poolVars, server,
              Handling
<1>8. ASSUME NEW new \in Memberships, TCPCleanup(new)
      PROVE  Types'
  <2>a. 0 \in Int /\ \A b \in Backends : gauge[b] \in Int
    <3>1. gauge \in [Backends -> Int]
      BY Zenon DEF Types
    <3> QED BY <3>1
  <2>1. gauge' \in [Backends -> Int]
    BY <1>8, <2>a, Zenon DEF TCPCleanup, Cleanup
  <2> QED BY <1>8, <2>1, Zenon DEF Types, TCPCleanup, Cleanup, server
<1>9. CASE (SwapPool \/ \E new \in Memberships : Rebuild(new)) /\ UNCHANGED tcpOwnVars
  BY <1>9, Zenon DEF Types, SwapPool, Rebuild, tcpOwnVars
<1>10. CASE UNCHANGED tcpVars
  BY <1>10, Zenon DEF Types, tcpVars, tcpOwnVars, poolVars
<1> QED BY <1>1, <1>2, <1>3, <1>4, <1>5, <1>6, <1>7, <1>8, <1>9, <1>10, Zenon
        DEF TCPNext, Serve, handleConn, Close, TCPPoolStep

(* A handler that counts has picked a backend.                             *)
LEMMA PickedKept ==
  ASSUME IInv, [TCPNext]_tcpVars
  PROVE  PickedKnown'
<1> USE DEF IInv
<1>1. ASSUME NEW c \in Conns, Connect(c) \/ Refuse(c) \/ RateLimit(c) \/ ReadClientHello(c)
               \/ Dial(c) \/ RelayReturns(c) \/ Accept(c) \/ Admit(c) \/ FreeSlot(c) \/ Done(c)
               \/ Acquires(c) \/ DefersDec(c)
      PROVE  PickedKnown'
  <2>1. picked' = picked
    BY <1>1 DEF Connect, Refuse, RateLimit, ReadClientHello, Dial, RelayReturns, Accept, Admit,
                FreeSlot, Done, Acquires, DefersDec
  <2>2. \A x \in Conns : conn'[x] \in {"acquiring"} \cup Counted
                            => conn[x] \in {"acquiring"} \cup Counted
    BY <1>1, Zenon DEF Types, Move, Connect, Refuse, RateLimit, ReadClientHello, Dial, RelayReturns,
                Accept, Admit, FreeSlot, Done, Acquires, DefersDec, Counted
  <2> QED BY <2>1, <2>2, Zenon DEF PickedKnown
<1>2. ASSUME NEW c \in Conns, Pick(c)
      PROVE  PickedKnown'
  <2>1. \A x \in Conns \ {c} : conn'[x] = conn[x] /\ picked'[x] = picked[x]
    BY <1>2, Zenon DEF Types, Move, Pick
  <2>2. conn'[c] = "freeing" \/ picked'[c] \in Picks
    <3>1. lb \in Gens /\ members[lb] \subseteq Backends
      BY Zenon DEF PoolTypes
    <3>2. \A b \in members[lb] : [gen |-> lb, backend |-> b] \in Picks
      BY <3>1 DEF Picks
    <3> QED BY <1>2, <3>2, Zenon DEF Types, Move, Pick
  <2> QED BY <2>1, <2>2 DEF PickedKnown, Counted
<1>3. ASSUME NEW c \in Conns, Releases(c)
      PROVE  PickedKnown'
  BY <1>3, Zenon DEF PickedKnown, Types, Move, Releases, Released, Counted
<1>4. CASE AcceptError \/ CloseMark \/ CloseListener \/ CloseEnds \/ TCPPoolStep
  BY <1>4, Zenon DEF PickedKnown, Types, AcceptError, CloseMark, CloseListener, CloseEnds,
              TCPPoolStep, TCPCleanup, tcpOwnVars, Counted
<1>5. CASE UNCHANGED tcpVars
  BY <1>5 DEF PickedKnown, tcpVars, tcpOwnVars
<1> QED BY <1>1, <1>2, <1>3, <1>4, <1>5 DEF TCPNext, Serve, handleConn, Close

(* A step of one connection that neither enters nor leaves a set leaves    *)
(* that set's account right when it leaves the account alone.              *)
LEMMA SameHandlers ==
  ASSUME IInv, NEW c \in Conns, NEW to, Move(c, to), wg' = wg,
         conn[c] \in Handling <=> to \in Handling
  PROVE  HandlersCounted'
<1>1. conn'[c] = to /\ \A x \in Conns \ {c} : conn'[x] = conn[x]
  BY Zenon DEF IInv, Types, Move
<1>2. Handled' = Handled
  BY <1>1 DEF Handled
<1> QED BY <1>2 DEF IInv, HandlersCounted

(* A step that moves no connection into or out of Holders keeps the        *)
(* semaphore right.                                                        *)
LEMMA SameTokens ==
  ASSUME IInv, NEW c \in Conns, NEW to, Move(c, to), connSem' = connSem, maxConn' = maxConn,
         conn[c] \in Slotted <=> to \in Slotted
  PROVE  TokensCounted'
<1>1. conn'[c] = to /\ \A x \in Conns \ {c} : conn'[x] = conn[x]
  BY Zenon DEF IInv, Types, Move
<1>2. Holders' = Holders
  BY <1>1 DEF Holders
<1> QED BY <1>2 DEF IInv, TokensCounted, Limited

(* The same for the counts and the gauges.                                 *)
LEMMA SameBackends ==
  ASSUME IInv, NEW c \in Conns, NEW to, Move(c, to), UNCHANGED <<count, gauge, series, cleaned>>,
         conn[c] \in Counted <=> to \in Counted,
         picked' = picked \/ conn[c] \notin Counted,
         \A x \in Conns \ {c} : picked'[x] = picked[x]
  PROVE  BackendsCounted' /\ GaugesCounted'
<1>1. conn'[c] = to /\ \A x \in Conns \ {c} : conn'[x] = conn[x]
  BY Zenon DEF IInv, Types, Move
<1>2. \A x \in Conns : conn'[x] \in Counted <=> conn[x] \in Counted
  BY <1>1
<1>3. \A x \in Conns : conn[x] \in Counted => picked'[x] = picked[x]
  OBVIOUS
<1>4. ASSUME NEW g \in Gens, NEW b \in Backends
      PROVE  On(g, b)' = On(g, b)
  BY <1>2, <1>3 DEF On
<1>5. ASSUME NEW b \in Backends
      PROVE  Active(b)' = Active(b)
  BY <1>2, <1>3 DEF Active
<1>6. ASSUME NEW b \in Backends
      PROVE  Live(b)' = Live(b)
  BY <1>5, Zenon DEF Live
<1> QED BY <1>4, <1>5, <1>6, Zenon DEF IInv, BackendsCounted, GaugesCounted

(* A step of one connection that enters or leaves a set, with its account. *)
LEMMA HandlersMove ==
  ASSUME IInv, NEW c \in Conns, NEW to, Move(c, to),
         \/ conn[c] \notin Handling /\ to \in Handling /\ wg' = wg + 1
         \/ conn[c] \in Handling /\ to \notin Handling /\ wg' = wg - 1
  PROVE  HandlersCounted'
<1>1. conn'[c] = to /\ \A x \in Conns \ {c} : conn'[x] = conn[x]
  BY Zenon DEF IInv, Types, Move
<1>2. Handled \in SUBSET Conns /\ Handled' \in SUBSET Conns
  BY DEF Handled
<1>3. \A x \in Conns \ {c} : x \in Handled <=> x \in Handled'
  BY <1>1 DEF Handled
<1>4. (c \in Handled <=> conn[c] \in Handling) /\ (c \in Handled' <=> to \in Handling)
  BY <1>1, Zenon DEF Handled
<1> QED BY <1>2, <1>3, <1>4, OneMoves DEF IInv, HandlersCounted

(* One connection takes or gives back a token.                             *)
LEMMA TokensMove ==
  ASSUME IInv, NEW c \in Conns, NEW to, Move(c, to), maxConn' = maxConn,
         \/ conn[c] \notin Slotted /\ to \in Slotted /\ connSem' = connSem + Slots(1)
         \/ conn[c] \in Slotted /\ to \notin Slotted /\ connSem' = connSem - Slots(1)
  PROVE  TokensCounted'
<1>1. conn'[c] = to /\ \A x \in Conns \ {c} : conn'[x] = conn[x]
  BY Zenon DEF IInv, Types, Move
<1>2. Holders \in SUBSET Conns /\ Holders' \in SUBSET Conns
  BY Zenon DEF Holders
<1>3. \A x \in Conns \ {c} : x \in Holders <=> x \in Holders'
  BY <1>1 DEF Holders
<1>4. (c \in Holders <=> conn[c] \in Slotted) /\ (c \in Holders' <=> to \in Slotted)
  BY <1>1 DEF Holders
<1> QED BY <1>2, <1>3, <1>4, OneMoves DEF IInv, TokensCounted, Slots, Limited

(* A handler acquires its backend.                                         *)
LEMMA BackendsAcquire ==
  ASSUME IInv, NEW c \in Conns, Acquires(c)
  PROVE  BackendsCounted' /\ GaugesCounted'
<1>1. conn[c] = "acquiring" /\ conn'[c] = "gauging" /\ picked' = picked
      /\ \A x \in Conns \ {c} : conn'[x] = conn[x]
  BY Zenon DEF IInv, Types, Acquires, Move
<1>a. series'[c] /\ cleaned' = cleaned /\ \A x \in Conns \ {c} : series'[x] = series[x]
  BY Zenon DEF IInv, Types, Acquires, update
<1>2. picked[c] \in Picks
  BY <1>1, Zenon DEF IInv, PickedKnown
<1>3. PICK h \in Gens, e \in Backends : picked[c] = [gen |-> h, backend |-> e]
  BY <1>2 DEF Picks
<1>4. count \in [Gens -> [Backends -> Nat]] /\ gauge \in [Backends -> Int]
  BY Zenon DEF IInv, Types
<1>5. ASSUME NEW g \in Gens, NEW b \in Backends
      PROVE  count'[g][b] = Cardinality(On(g, b)')
  <2>1. count'[g][b] = IF g = h /\ b = e THEN count[g][b] + 1 ELSE count[g][b]
    BY <1>3, <1>4 DEF Acquires, Acquire
  <2>2. On(g, b) \in SUBSET Conns /\ On(g, b)' \in SUBSET Conns
        /\ \A x \in Conns \ {c} : x \in On(g, b) <=> x \in On(g, b)'
    BY <1>1, Zenon DEF On
  <2>3. c \notin On(g, b) /\ (c \in On(g, b)' <=> g = h /\ b = e)
    BY <1>1, <1>3 DEF On, Counted
  <2>4. count[g][b] = Cardinality(On(g, b))
    BY Zenon DEF IInv, BackendsCounted
  <2> QED BY <2>1, <2>2, <2>3, <2>4, OneMoves
<1>6. ASSUME NEW b \in Backends
      PROVE  /\ gauge'[b] <= Cardinality(Live(b)')
             /\ b \notin cleaned' => gauge'[b] = Cardinality(Live(b)') /\ Live(b)' = Active(b)'
  <2>1. gauge'[b] = IF b = e THEN gauge[b] + 1 ELSE gauge[b]
    BY <1>3, <1>4 DEF Acquires, Inc
  <2>2. \A x \in Conns \ {c} : x \in Active(b) <=> x \in Active(b)'
    BY <1>1, Zenon DEF Active
  <2>3. Live(b) \in SUBSET Conns /\ Live(b)' \in SUBSET Conns
        /\ \A x \in Conns \ {c} : x \in Live(b) <=> x \in Live(b)'
    BY <1>a, <2>2, Zenon DEF Live, Active
  <2>4. c \notin Active(b) /\ (c \in Active(b)' <=> b = e)
    BY <1>1, <1>3 DEF Active, Counted
  <2>5. c \notin Live(b) /\ (c \in Live(b)' <=> b = e)
    BY <1>a, <2>4, Zenon DEF Live
  <2>6. /\ gauge[b] <= Cardinality(Live(b)) /\ gauge[b] \in Int
        /\ b \notin cleaned => gauge[b] = Cardinality(Live(b)) /\ Live(b) = Active(b)
    BY <1>4, Zenon DEF IInv, GaugesCounted
  <2>7. b \notin cleaned' => Live(b)' = Active(b)'
    BY <1>a, <2>2, <2>3, <2>4, <2>5, <2>6, Zenon DEF Live, Active
  <2>8. /\ gauge'[b] <= Cardinality(Live(b)')
        /\ b \notin cleaned => gauge'[b] = Cardinality(Live(b)')
    BY <2>1, <2>3, <2>5, <2>6, OneMoves
  <2> QED BY <1>a, <2>7, <2>8, Zenon
<1> QED BY <1>5, <1>6, Zenon DEF BackendsCounted, GaugesCounted

(* A handler's defer statement looks the gauge up again.                   *)
LEMMA BackendsDefer ==
  ASSUME IInv, NEW c \in Conns, DefersDec(c)
  PROVE  BackendsCounted' /\ GaugesCounted'
<1>1. conn[c] = "gauging" /\ conn'[c] = "dialling" /\ UNCHANGED <<picked, count, gauge, cleaned>>
      /\ \A x \in Conns \ {c} : conn'[x] = conn[x]
  BY Zenon DEF IInv, Types, DefersDec, Move, poolVars
<1>2. series'[c] /\ \A x \in Conns \ {c} : series'[x] = series[x]
  BY Zenon DEF IInv, Types, DefersDec
<1>3. \A x \in Conns : conn'[x] \in Counted <=> conn[x] \in Counted
  BY <1>1 DEF Counted
<1>4. \A g, b : On(g, b)' = On(g, b) /\ Active(b)' = Active(b)
  BY <1>1, <1>3, Zenon DEF On, Active
<1>5. ASSUME NEW b \in Backends
      PROVE  /\ gauge'[b] <= Cardinality(Live(b)')
             /\ b \notin cleaned' => gauge'[b] = Cardinality(Live(b)') /\ Live(b)' = Active(b)'
  <2>1. Live(b) \in SUBSET Conns /\ Live(b)' \in SUBSET Conns
        /\ \A x \in Conns \ {c} : x \in Live(b) <=> x \in Live(b)'
    BY <1>2, <1>4, Zenon DEF Live, Active
  <2>2. c \in Live(b) => c \in Live(b)'
    BY <1>2, <1>4, Zenon DEF Live
  <2>3. /\ gauge[b] <= Cardinality(Live(b)) /\ gauge[b] \in Int
        /\ b \notin cleaned => gauge[b] = Cardinality(Live(b)) /\ Live(b) = Active(b)
    BY Zenon DEF IInv, GaugesCounted, Types
  <2>4. b \notin cleaned => Live(b)' = Live(b)
    BY <1>2, <1>4, <2>1, <2>2, <2>3, Zenon DEF Live, Active
  <2>5. Cardinality(Live(b)) <= Cardinality(Live(b)')
    BY <2>1, <2>2, OneMoves
  <2>6. Cardinality(Live(b)) \in Nat /\ Cardinality(Live(b)') \in Nat
    BY <2>1, OneMoves
  <2>7. gauge[b] <= Cardinality(Live(b)')
    BY <2>3, <2>5, <2>6
  <2> QED BY <1>1, <1>4, <2>3, <2>4, <2>7, Zenon
<1> QED BY <1>1, <1>4, <1>5, Zenon DEF IInv, BackendsCounted, GaugesCounted

(* A handler releases its backend.                                         *)
LEMMA BackendsRelease ==
  ASSUME IInv, NEW c \in Conns, Releases(c)
  PROVE  BackendsCounted' /\ GaugesCounted'
<1>1. conn[c] = "releasing" /\ conn'[c] = "freeing"
      /\ \A x \in Conns \ {c} : conn'[x] = conn[x] /\ picked'[x] = picked[x]
  BY Zenon DEF IInv, Types, Releases, Released, Move
<1>a. cleaned' = cleaned /\ \A x \in Conns \ {c} : series'[x] = series[x]
  BY Zenon DEF IInv, Types, Releases, Released, update
<1>2. picked[c] \in Picks
  BY <1>1, Zenon DEF IInv, PickedKnown, Counted
<1>3. PICK h \in Gens, e \in Backends : picked[c] = [gen |-> h, backend |-> e]
  BY <1>2 DEF Picks
<1>4. count \in [Gens -> [Backends -> Nat]] /\ gauge \in [Backends -> Int]
  BY Zenon DEF IInv, Types
<1>5. ASSUME NEW g \in Gens, NEW b \in Backends
      PROVE  count'[g][b] = Cardinality(On(g, b)')
  <2>1. count'[g][b] = IF g = h /\ b = e THEN Minus(count[g][b], 1) ELSE count[g][b]
    BY <1>3, <1>4 DEF Releases, Release
  <2>2. On(g, b) \in SUBSET Conns /\ On(g, b)' \in SUBSET Conns
        /\ \A x \in Conns \ {c} : x \in On(g, b) <=> x \in On(g, b)'
    BY <1>1, Zenon DEF On
  <2>3. c \notin On(g, b)' /\ (c \in On(g, b) <=> g = h /\ b = e)
    BY <1>1, <1>3 DEF On, Counted
  <2>4. count[g][b] = Cardinality(On(g, b))
    BY Zenon DEF IInv, BackendsCounted
  <2> QED BY <2>1, <2>2, <2>3, <2>4, OneMoves DEF Minus
<1>6. ASSUME NEW b \in Backends
      PROVE  /\ gauge'[b] <= Cardinality(Live(b)')
             /\ b \notin cleaned' => gauge'[b] = Cardinality(Live(b)') /\ Live(b)' = Active(b)'
  <2>1. gauge'[b] = IF b = e /\ series[c] THEN gauge[b] - 1 ELSE gauge[b]
    BY <1>3, <1>4 DEF Releases, LowerGauge, Dec
  <2>2. \A x \in Conns \ {c} : x \in Active(b) <=> x \in Active(b)'
    BY <1>1, Zenon DEF Active
  <2>3. Live(b) \in SUBSET Conns /\ Live(b)' \in SUBSET Conns
        /\ \A x \in Conns \ {c} : x \in Live(b) <=> x \in Live(b)'
    BY <1>a, <2>2, Zenon DEF Live, Active
  <2>4. c \notin Active(b)' /\ (c \in Active(b) <=> b = e)
    BY <1>1, <1>3 DEF Active, Counted
  <2>5. c \notin Live(b)' /\ (c \in Live(b) <=> b = e /\ series[c])
    BY <2>4, Zenon DEF Live
  <2>6. /\ gauge[b] <= Cardinality(Live(b)) /\ gauge[b] \in Int
        /\ b \notin cleaned => gauge[b] = Cardinality(Live(b)) /\ Live(b) = Active(b)
    BY <1>4, Zenon DEF IInv, GaugesCounted
  <2>7. b \notin cleaned' => Live(b)' = Active(b)'
    BY <1>a, <2>2, <2>3, <2>4, <2>5, <2>6, Zenon DEF Live, Active
  <2>8. /\ gauge'[b] <= Cardinality(Live(b)')
        /\ b \notin cleaned => gauge'[b] = Cardinality(Live(b)')
    BY <2>1, <2>3, <2>5, <2>6, OneMoves
  <2> QED BY <1>a, <2>7, <2>8, Zenon
<1> QED BY <1>5, <1>6, Zenon DEF BackendsCounted, GaugesCounted

(* An update deletes series: nobody lowers what it deleted.                *)
LEMMA BackendsCleanup ==
  ASSUME IInv, NEW new \in Memberships, TCPCleanup(new)
  PROVE  BackendsCounted' /\ GaugesCounted'
<1> DEFINE gone == members[lb] \ new
<1>1. UNCHANGED <<count, conn, picked>> /\ cleaned' = cleaned \cup gone
  BY Zenon DEF TCPCleanup, Cleanup
<1>2. \A g, b : On(g, b)' = On(g, b) /\ Active(b)' = Active(b)
  BY <1>1, Zenon DEF On, Active
<1>3. \A x \in Conns : series'[x] <=> series[x] /\ picked[x].backend \notin gone
  BY Zenon DEF TCPCleanup
<1>4. ASSUME NEW b \in Backends
      PROVE  /\ gauge'[b] <= Cardinality(Live(b)')
             /\ b \notin cleaned' => gauge'[b] = Cardinality(Live(b)') /\ Live(b)' = Active(b)'
  <2>1. gauge'[b] = IF b \in gone THEN 0 ELSE gauge[b]
    BY Zenon DEF TCPCleanup, Cleanup
  <2>2. CASE b \in gone
    <3>1. Live(b)' = {}
      BY <1>2, <1>3, <2>2, Zenon DEF Live, Active
    <3>2. Cardinality(Live(b)') = 0
      BY <3>1, FS_EmptySet, Zenon
    <3>3. gauge'[b] <= Cardinality(Live(b)')
      BY <2>1, <2>2, <3>2
    <3> QED BY <1>1, <2>2, <3>3, Zenon
  <2>3. CASE b \notin gone
    <3>1. Live(b)' = Live(b)
      BY <1>2, <1>3, <2>3, Zenon DEF Live, Active
    <3> QED BY <1>1, <1>2, <2>1, <2>3, <3>1, Zenon DEF IInv, GaugesCounted
  <2> QED BY <2>2, <2>3, Zenon
<1>5. BackendsCounted'
  BY <1>1, <1>2, Zenon DEF IInv, BackendsCounted
<1>6. GaugesCounted'
  BY <1>4, Zenon DEF GaugesCounted
<1> QED BY <1>5, <1>6, Zenon

(* One step per action, grouped by what it does to the account.            *)
LEMMA HandlersKept ==
  ASSUME IInv, [TCPNext]_tcpVars
  PROVE  HandlersCounted'
<1>1. ASSUME NEW c \in Conns, Connect(c) \/ Refuse(c) \/ Accept(c)
      PROVE  HandlersCounted'
  <2>1. \E to \in {"backlog", "none", "held"} : Move(c, to)
    BY <1>1, Zenon DEF Connect, Refuse, Accept
  <2>2. conn[c] \in {"none", "backlog"} /\ wg' = wg
    BY <1>1, Zenon DEF Connect, Refuse, Accept, server
  <2> QED BY <2>1, <2>2, SameHandlers DEF Handling
<1>2. ASSUME NEW c \in Conns, Admit(c)
      PROVE  HandlersCounted'
  <2>1. conn[c] = "held" /\ \/ Move(c, "none") /\ wg' = wg
                            \/ Move(c, "screening") /\ wg' = wg + 1
    BY <1>2 DEF Admit
  <2>2. "none" \notin Handling /\ "held" \notin Handling /\ "screening" \in Handling
    BY DEF Handling
  <2> QED BY <2>1, <2>2, SameHandlers, HandlersMove
<1>3. ASSUME NEW c \in Conns, RateLimit(c) \/ ReadClientHello(c) \/ Pick(c) \/ Acquires(c)
               \/ DefersDec(c) \/ Dial(c) \/ RelayReturns(c) \/ Releases(c) \/ FreeSlot(c)
      PROVE  HandlersCounted'
  <2>1. \E to \in Handling : Move(c, to)
    BY <1>3, Zenon DEF RateLimit, ReadClientHello, Pick, Acquires, DefersDec, Dial,
                RelayReturns, Releases, Released, FreeSlot, Handling
  <2>2. conn[c] \in Handling
    BY <1>3, Zenon DEF RateLimit, ReadClientHello, Pick, Acquires, DefersDec, Dial,
                RelayReturns, Releases, Released, FreeSlot, Handling
  <2>3. wg' = wg
    BY <1>3 DEF RateLimit, ReadClientHello, Pick, Acquires, DefersDec, Dial, RelayReturns,
                Releases, Released, FreeSlot, server
  <2> QED BY <2>1, <2>2, <2>3, SameHandlers, Zenon
<1>4. ASSUME NEW c \in Conns, Done(c)
      PROVE  HandlersCounted'
  <2>1. conn[c] = "ending" /\ Move(c, "none") /\ wg' = wg - 1
    BY <1>4 DEF Done
  <2>2. "none" \notin Handling /\ "ending" \in Handling
    BY DEF Handling
  <2> QED BY <2>1, <2>2, HandlersMove
<1>5. CASE CloseListener
  <2>1. Handled' = Handled
    BY <1>5 DEF CloseListener, Handled, IInv, Types, Handling
  <2> QED BY <1>5, <2>1, Zenon DEF IInv, CloseListener, HandlersCounted
<1>6. CASE AcceptError \/ CloseMark \/ CloseEnds \/ TCPPoolStep \/ UNCHANGED tcpVars
  BY <1>6, Zenon DEF AcceptError, CloseMark, CloseEnds, TCPPoolStep, TCPCleanup, tcpOwnVars, tcpVars,
              server, IInv, HandlersCounted, Handled
<1> QED BY <1>1, <1>2, <1>3, <1>4, <1>5, <1>6 DEF TCPNext, Serve, handleConn, Close

(* Every step keeps the semaphore right.                                   *)
LEMMA TokensKept ==
  ASSUME IInv, [TCPNext]_tcpVars
  PROVE  TokensCounted'
<1>a. /\ "none" \notin Slotted /\ "backlog" \notin Slotted /\ "ending" \notin Slotted
      /\ "held" \in Slotted /\ "screening" \in Slotted /\ "freeing" \in Slotted
  BY DEF Slotted, Handling
<1>1. ASSUME NEW c \in Conns, Connect(c) \/ Refuse(c) \/ Done(c)
      PROVE  TokensCounted'
  <2>1. \E to \in {"backlog", "none"} : Move(c, to)
    BY <1>1, Zenon DEF Connect, Refuse, Done
  <2>2. conn[c] \in {"none", "backlog", "ending"} /\ UNCHANGED <<connSem, maxConn>>
    BY <1>1, Zenon DEF Connect, Refuse, Done, server
  <2> QED BY <1>a, <2>1, <2>2, SameTokens
<1>2. ASSUME NEW c \in Conns, Accept(c)
      PROVE  TokensCounted'
  BY <1>a, <1>2, TokensMove DEF Accept
<1>3. ASSUME NEW c \in Conns, Admit(c)
      PROVE  TokensCounted'
  <2>1. conn[c] = "held" /\ maxConn' = maxConn
        /\ \/ Move(c, "none") /\ connSem' = connSem - Slots(1)
           \/ Move(c, "screening") /\ connSem' = connSem
    BY <1>3 DEF Admit
  <2> QED BY <1>a, <2>1, SameTokens, TokensMove
<1>4. ASSUME NEW c \in Conns, RateLimit(c) \/ ReadClientHello(c) \/ Pick(c) \/ Acquires(c)
               \/ DefersDec(c) \/ Dial(c) \/ RelayReturns(c) \/ Releases(c)
      PROVE  TokensCounted'
  <2>1. \E to \in Slotted : Move(c, to)
    BY <1>4, Zenon DEF RateLimit, ReadClientHello, Pick, Acquires, DefersDec, Dial,
                RelayReturns, Releases, Released, Slotted, Handling
  <2>2. conn[c] \in Slotted
    BY <1>4, Zenon DEF RateLimit, ReadClientHello, Pick, Acquires, DefersDec, Dial,
                RelayReturns, Releases, Released, Slotted, Handling
  <2>3. connSem' = connSem /\ maxConn' = maxConn
    BY <1>4 DEF RateLimit, ReadClientHello, Pick, Acquires, DefersDec, Dial, RelayReturns, Releases,
                Released, server
  <2> QED BY <2>1, <2>2, <2>3, SameTokens, Zenon
<1>5. ASSUME NEW c \in Conns, FreeSlot(c)
      PROVE  TokensCounted'
  BY <1>a, <1>5, TokensMove, Zenon DEF FreeSlot
<1>6. CASE CloseListener
  <2>1. Holders' = Holders
    BY <1>6 DEF CloseListener, Holders, IInv, Types, Slotted, Handling
  <2> QED BY <1>6, <2>1, Zenon DEF IInv, CloseListener, TokensCounted, Limited
<1>7. CASE AcceptError \/ CloseMark \/ CloseEnds \/ TCPPoolStep \/ UNCHANGED tcpVars
  BY <1>7, Zenon DEF AcceptError, CloseMark, CloseEnds, TCPPoolStep, TCPCleanup, tcpOwnVars, tcpVars,
              server, IInv, TokensCounted, Holders, Limited
<1> QED BY <1>1, <1>2, <1>3, <1>4, <1>5, <1>6, <1>7 DEF TCPNext, Serve, handleConn, Close

(* Every step keeps the counts and the gauge right.                        *)
LEMMA BackendsKept ==
  ASSUME IInv, [TCPNext]_tcpVars
  PROVE  BackendsCounted' /\ GaugesCounted'
<1>1. ASSUME NEW c \in Conns, Connect(c) \/ Refuse(c) \/ Accept(c) \/ Admit(c) \/ RateLimit(c)
               \/ ReadClientHello(c) \/ FreeSlot(c) \/ Done(c)
      PROVE  BackendsCounted' /\ GaugesCounted'
  <2>1. \E to \in {"backlog", "none", "held", "screening", "picking", "freeing", "ending"} :
          Move(c, to)
    BY <1>1, Zenon DEF Connect, Refuse, Accept, Admit, RateLimit, ReadClientHello, FreeSlot, Done
  <2>2. conn[c] \notin Counted /\ UNCHANGED <<count, gauge, picked, series, cleaned>>
    BY <1>1, Zenon DEF Connect, Refuse, Accept, Admit, RateLimit, ReadClientHello, FreeSlot, Done,
                Counted, poolVars
  <2> QED BY <2>1, <2>2, SameBackends DEF Counted
<1>2. ASSUME NEW c \in Conns, Pick(c)
      PROVE  BackendsCounted' /\ GaugesCounted'
  <2>1. \E to \in {"freeing", "acquiring"} : Move(c, to)
    BY <1>2, Zenon DEF Pick
  <2>2. conn[c] \notin Counted /\ UNCHANGED <<count, gauge, series, cleaned>>
    BY <1>2 DEF Pick, Counted, poolVars
  <2>3. \A x \in Conns \ {c} : picked'[x] = picked[x]
    BY <1>2, Zenon DEF Pick, IInv, Types
  <2> QED BY <2>1, <2>2, <2>3, SameBackends, Zenon DEF Counted
<1>3. ASSUME NEW c \in Conns, Dial(c) \/ RelayReturns(c)
      PROVE  BackendsCounted' /\ GaugesCounted'
  <2>1. \E to \in Counted : Move(c, to)
    BY <1>3, Zenon DEF Dial, RelayReturns, Counted
  <2>2. conn[c] \in Counted /\ UNCHANGED <<count, gauge, picked, series, cleaned>>
    BY <1>3, Zenon DEF Dial, RelayReturns, Counted, poolVars
  <2> QED BY <2>1, <2>2, SameBackends
<1>4. ASSUME NEW c \in Conns, Acquires(c) \/ DefersDec(c) \/ Releases(c)
      PROVE  BackendsCounted' /\ GaugesCounted'
  BY <1>4, BackendsAcquire, BackendsDefer, BackendsRelease, Zenon
<1>5. CASE CloseListener
  <2>1. \A x \in Conns : conn'[x] \in Counted <=> conn[x] \in Counted
    BY <1>5, Zenon DEF CloseListener, Counted
  <2>2. \A g, b : On(g, b)' = On(g, b) /\ Active(b)' = Active(b)
    BY <1>5, <2>1, Zenon DEF CloseListener, On, Active
  <2>3. UNCHANGED <<count, gauge, series, cleaned>>
    BY <1>5, Zenon DEF CloseListener, poolVars
  <2>4. ASSUME NEW b \in Backends
        PROVE  Active(b)' = Active(b) /\ Live(b)' = Live(b)
    BY <2>2, <2>3 DEF Live
  <2> QED BY <2>2, <2>3, <2>4, Zenon DEF IInv, BackendsCounted, GaugesCounted
<1>6. ASSUME NEW new \in Memberships, TCPCleanup(new)
      PROVE  BackendsCounted' /\ GaugesCounted'
  BY <1>6, BackendsCleanup, Zenon
<1>7. CASE \/ AcceptError \/ CloseMark \/ CloseEnds \/ UNCHANGED tcpVars
           \/ (SwapPool \/ \E new \in Memberships : Rebuild(new)) /\ UNCHANGED tcpOwnVars
  <2>1. UNCHANGED <<count, gauge, conn, picked, series, cleaned>>
    BY <1>7, Zenon DEF AcceptError, CloseMark, CloseEnds, SwapPool, Rebuild, tcpVars, tcpOwnVars,
                poolVars
  <2>2. \A g, b : On(g, b)' = On(g, b) /\ Active(b)' = Active(b)
    BY <2>1, Zenon DEF On, Active
  <2>3. ASSUME NEW b \in Backends
        PROVE  Active(b)' = Active(b) /\ Live(b)' = Live(b)
    BY <2>1, <2>2 DEF Live
  <2> QED BY <2>1, <2>2, <2>3, Zenon DEF IInv, BackendsCounted, GaugesCounted
<1> QED BY <1>1, <1>2, <1>3, <1>4, <1>5, <1>6, <1>7, Zenon
        DEF TCPNext, Serve, handleConn, Close, TCPPoolStep

(* Every step keeps Close in its order.                                    *)
LEMMA CloseKept ==
  ASSUME IInv, [TCPNext]_tcpVars
  PROVE  CloseOrder'
<1>1. ASSUME NEW c \in Conns, Connect(c) \/ Refuse(c) \/ Accept(c) \/ Admit(c) \/ handleConn(c)
      PROVE  CloseOrder'
  <2>1. UNCHANGED <<closer, closing, listening>>
    BY <1>1, Zenon DEF Connect, Refuse, Accept, Admit, handleConn, RateLimit, ReadClientHello, Pick,
                Acquires, DefersDec, Dial, RelayReturns, Releases, Released, FreeSlot, Done,
                server
  <2>2. ASSUME closer = "drained"
        PROVE  Handled' = {}
    <3>1. Handled = {} /\ closing
      BY <2>2 DEF IInv, CloseOrder
    <3>2. \A x \in Conns : conn[x] \notin Handling
      BY <3>1 DEF Handled
    <3>3. \A x \in Conns : conn'[x] \notin Handling
      BY <1>1, <3>1, <3>2, Zenon
         DEF IInv, Types, Connect, Refuse, Accept, Admit, handleConn, RateLimit, ReadClientHello,
             Pick, Acquires, DefersDec, Dial, RelayReturns, Releases, Released, FreeSlot, Done, Move,
             Handling
    <3> QED BY <3>3 DEF Handled
  <2> QED BY <2>1, <2>2, Zenon DEF IInv, CloseOrder
<1>2. CASE CloseMark \/ CloseListener
  BY <1>2, Zenon DEF CloseMark, CloseListener, IInv, CloseOrder
<1>3. CASE CloseEnds
  <2>1. ASSUME closer' = "drained"
        PROVE  Handled' = {}
    <3>1. wg = 0
      BY <1>3, <2>1, Zenon DEF CloseEnds
    <3>2. Handled \in SUBSET Conns /\ IsFiniteSet(Handled)
      BY TCPServerAssumption, FS_Subset DEF Handled
    <3>3. Handled = {}
      BY <3>1, <3>2, FS_EmptySet, Zenon DEF IInv, HandlersCounted
    <3> QED BY <1>3, <3>3, Zenon DEF CloseEnds, Handled
  <2> QED BY <1>3, <2>1, Zenon DEF CloseEnds, IInv, CloseOrder
<1>4. CASE AcceptError \/ TCPPoolStep \/ UNCHANGED tcpVars
  <2>1. UNCHANGED <<closer, closing, listening, conn>>
    BY <1>4 DEF AcceptError, TCPPoolStep, TCPCleanup, tcpVars, tcpOwnVars, server
  <2>2. Handled' = Handled
    BY <2>1 DEF Handled
  <2> QED BY <2>1, <2>2, Zenon DEF IInv, CloseOrder
<1> QED BY <1>1, <1>2, <1>3, <1>4 DEF TCPNext, Serve, Close

(* Every step keeps the invariant.                                         *)
LEMMA StepInv == IInv /\ [TCPNext]_tcpVars => IInv'
BY PoolKept, TypesKept, PickedKept, HandlersKept, TokensKept, BackendsKept, CloseKept DEF IInv

(* The invariant holds at every moment.                                    *)
LEMMA InvHolds == TCPSpec => []IInv
BY InitInv, StepInv, PTL DEF TCPSpec

(* What follows from the invariant.                                        *)
LEMMA CountsFromInv == IInv => CountsTrue
<1> SUFFICES ASSUME IInv PROVE CountsTrue
  OBVIOUS
<1>1. Handled \in SUBSET Conns /\ Holders \in SUBSET Conns
  BY Zenon DEF Handled, Holders
<1>a. IsFiniteSet(Handled) /\ IsFiniteSet(Holders) /\ Cardinality(Handled) <= Cardinality(Conns)
  BY <1>1, TCPServerAssumption, FS_Subset, Zenon
<1>2. /\ Cardinality(Handled) \in Nat /\ Cardinality(Handled) <= Cardinality(Conns)
      /\ Cardinality(Holders) \in Nat /\ Cardinality(Conns) \in Nat
  BY <1>a, TCPServerAssumption, FS_CardinalityType, Zenon
<1>3. connSem \in 0 .. maxConn /\ wg \in 0 .. Cardinality(Conns)
  <2>1. wg = Cardinality(Handled) /\ (connSem = Cardinality(Holders) \/ connSem = 0)
    BY DEF IInv, HandlersCounted, TokensCounted
  <2>2. connSem <= maxConn /\ maxConn \in Nat
    BY TCPServerAssumption, Zenon DEF IInv, Types
  <2> QED BY <1>2, <2>1, <2>2
<1>4. TCPTypeOK
  BY <1>3, Zenon DEF IInv, Types, PoolTypes, TCPTypeOK, PoolTypeOK, Protocols, Picks
<1>5. Limited => connSem = Cardinality({c \in Conns : conn[c] \in {"held"} \cup (Handling \ {"ending"})})
  BY Zenon DEF IInv, TokensCounted, Holders, Slotted
<1>6. ASSUME NEW b \in Backends
      PROVE  gauge[b] <= Cardinality(Active(b)) /\ (b \notin cleaned => gauge[b] = Cardinality(Active(b)))
  <2>1. Active(b) \subseteq Conns /\ Live(b) \subseteq Active(b)
    BY Zenon DEF Active, Live
  <2>2. IsFiniteSet(Active(b))
    BY <2>1, TCPServerAssumption, FS_Subset, Zenon
  <2>3. IsFiniteSet(Live(b)) /\ Cardinality(Live(b)) <= Cardinality(Active(b))
    BY <2>1, <2>2, FS_Subset, Zenon
  <2>4. Cardinality(Active(b)) \in Nat /\ Cardinality(Live(b)) \in Nat
    BY <2>2, <2>3, FS_CardinalityType, Zenon
  <2>5. gauge[b] \in Int /\ gauge[b] <= Cardinality(Live(b))
    BY Zenon DEF IInv, Types, GaugesCounted
  <2>6. gauge[b] <= Cardinality(Active(b))
    BY <2>3, <2>4, <2>5
  <2> QED BY <2>6, Zenon DEF IInv, GaugesCounted
<1> QED BY <1>4, <1>5, <1>6, Zenon DEF IInv, BackendsCounted, On, CountsTrue

(* The invariant says what DrainedMeansIdle says.                          *)
LEMMA IdleFromInv == IInv => DrainedMeansIdle
<1> SUFFICES ASSUME IInv, closer = "drained"
             PROVE  /\ \A c \in Conns : conn[c] \notin Handling
                    /\ \A g \in Gens, b \in Backends : count[g][b] = 0
                    /\ \A b \in Backends : gauge[b] <= 0 /\ (b \notin cleaned => gauge[b] = 0)
  BY DEF DrainedMeansIdle
<1>1. \A c \in Conns : conn[c] \notin Handling
  BY Zenon DEF IInv, CloseOrder, Handled
<1>2. \A g, b : On(g, b) = {} /\ Active(b) = {}
  BY <1>1 DEF On, Active, Counted, Handling
<1>3. \A b : Live(b) = {}
  BY <1>2, Zenon DEF Live
<1>4. Cardinality({}) = 0
  BY FS_EmptySet, Zenon
<1> QED BY <1>1, <1>2, <1>3, <1>4, Zenon DEF IInv, BackendsCounted, GaugesCounted

(* Serve and handleConn keep the semaphore, LeastConnections' counts and   *)
(* the gauge right on every path, for any connections, backends, updates   *)
(* of the pool and limit (tcp.go:121-301).                                 *)
THEOREM CountsAlwaysTrue == TCPSpec => []CountsTrue
BY InvHolds, CountsFromInv, PTL

(* After Close has reported that everything drained, no handler runs, all  *)
(* counts are zero, and so is every gauge whose series was never deleted,  *)
(* for good (Close, tcp.go:210-233).                                       *)
THEOREM DrainedIsIdle == TCPSpec => []DrainedMeansIdle
BY InvHolds, IdleFromInv, PTL

(* While Close waits, the WaitGroup is never added to.                     *)
LEMMA WaitGroupFalls ==
  ASSUME IInv, wg' = wg \/ wg' = wg - 1
  PROVE  wg' <= wg
<1>1. IsFiniteSet(Handled)
  BY TCPServerAssumption, FS_Subset DEF Handled
<1>2. wg \in Int
  BY <1>1, FS_CardinalityType DEF IInv, HandlersCounted
<1> QED BY <1>2

(* Serve adds nothing to the WaitGroup once Close has begun to wait.       *)
THEOREM NothingAddedDuringWait == TCPSpec => NoAddDuringWait
<1>1. ASSUME IInv, TCPNext, closer \in {"waiting", "drained", "timed out"}
      PROVE  wg' <= wg
  <2>1. closing
    BY <1>1, Zenon DEF IInv, CloseOrder
  <2>2. wg' = wg \/ wg' = wg - 1
    BY <1>1, <2>1, Zenon DEF TCPNext, Serve, handleConn, Close, Connect, Refuse, Accept, Admit, AcceptError,
        RateLimit, ReadClientHello, Pick, Acquires, DefersDec, Dial, RelayReturns, Releases, Released,
        FreeSlot, Done, CloseMark, CloseListener, CloseEnds, TCPPoolStep, TCPCleanup, tcpOwnVars, server
  <2> QED BY <1>1, <2>2, WaitGroupFalls, Zenon
<1>2. IInv /\ [TCPNext]_tcpVars => [(closer \in {"waiting", "drained", "timed out"}) => wg' <= wg]_tcpVars
  BY <1>1, Zenon
<1> QED BY <1>2, InvHolds, PTL DEF TCPSpec, NoAddDuringWait

-----------------------------------------------------------------------------
(* The restart.                                                            *)

Waiting(t) == stage[t] = "waiting"

(* Restart's inductive invariant.  Besides the types and OneHandoff: the   *)
(* listeners are open until main leaves its wait; it leaves it, and is     *)
(* told to, only with a child handed over or when asked to stop; a child   *)
(* handed over stays ready, for nobody waits for it who could kill it; and *)
(* only the holder of inProgress waits.                                    *)
RestartInv ==
  /\ RestartTypes
  /\ OneHandoff
  /\ main = "serving" => open = Listeners /\ ~done
  /\ main # "serving" /\ ~stopAsked => handedOver # {}
  /\ restartCh => handedOver # {}
  /\ \A t \in Triggers : stage[t] = "succeeded" => handedOver # {}
  /\ \A k \in handedOver : child[k] = "ready"
  /\ \A t \in Triggers : Waiting(t) => inProgress /\ childOf[t] \in Places \ handedOver
  /\ \A t, u \in Triggers : Waiting(t) /\ Waiting(u) => t = u

(* What the steps that leave the children, the triggers and handedOver     *)
(* alone have to keep.                                                     *)
MainPart ==
  /\ main = "serving" => open = Listeners /\ ~done
  /\ main # "serving" /\ ~stopAsked => handedOver # {}
  /\ restartCh => handedOver # {}

(* The invariant of Restart at the start.                                  *)
LEMMA RestartInitInv == RestartInit => RestartInv
<1> SUFFICES ASSUME RestartInit PROVE RestartInv
  OBVIOUS
<1>1. /\ \A t \in Triggers : stage[t] = "idle"
      /\ \A k \in Places : child[k] = "none"
      /\ handedOver = {}
  BY Zenon DEF RestartInit
<1>2. RestartTypes
  BY Zenon DEF RestartInit, RestartTypes, Stages, Listeners
<1>3. OneHandoff
  BY <1>1, Zenon DEF OneHandoff, Undecided
<1>4. main = "serving" /\ open = Listeners /\ ~done /\ ~restartCh
  BY DEF RestartInit
<1> QED BY <1>1, <1>2, <1>3, <1>4 DEF RestartInv, Waiting

(* A step of main or of the environment that does not end the process.     *)
LEMMA QuietMain ==
  ASSUME RestartInv, UNCHANGED <<triggers, children>>, RestartTypes', Alive' => Alive, MainPart'
  PROVE  RestartInv'
<1>1. Undecided' = Undecided
  BY Zenon DEF children, Undecided
<1>2. OneHandoff'
  BY <1>1 DEF RestartInv, OneHandoff, triggers
<1> QED BY <1>2, Zenon DEF RestartInv, MainPart, Waiting, triggers, children

(* The end of the process: nobody waits any more, and no child changes.    *)
LEMMA EndsInv ==
  ASSUME RestartInv, NEW how \in Gone, Ends(how), main # "serving" \/ stopAsked',
         stopAsked' = stopAsked \/ stopAsked' = TRUE
  PROVE  RestartInv'
<1>1. RestartTypes'
  BY Zenon DEF Ends, RestartInv, RestartTypes, Stages, children
<1>2. ~Alive'
  BY Zenon DEF Ends, Alive
<1>3. \A t \in Triggers : stage'[t] = "idle"
  BY DEF Ends
<1>4. Undecided' = Undecided
  BY Zenon DEF Ends, children, Undecided
<1>5. OneHandoff'
  BY <1>2, <1>4, Zenon DEF RestartInv, OneHandoff
<1>6. main' # "serving" /\ ~restartCh' /\ child' = child /\ handedOver' = handedOver
  BY Zenon DEF Ends, Gone, children
<1>7. ~stopAsked' => handedOver # {}
  BY DEF RestartInv, RestartTypes
<1> QED BY <1>1, <1>3, <1>5, <1>6, <1>7, Zenon DEF RestartInv, Waiting

(* Gather and Refused: a trigger that waits for no child, before and       *)
(* after.                                                                  *)
LEMMA NotWaitingInv ==
  ASSUME RestartInv, NEW t \in Triggers, NEW s \in {"idle", "gathered"},
         ~Waiting(t), stage' = [stage EXCEPT ![t] = s],
         UNCHANGED <<main, open, stopAsked, restartCh, done, childOf, inProgress, children>>,
         RestartTypes'
  PROVE  RestartInv'
<1>1. \A u \in Triggers : stage'[u] = IF u = t THEN s ELSE stage[u]
  BY DEF RestartInv, RestartTypes
<1>2. \A u \in Triggers : /\ stage'[u] = "waiting" <=> Waiting(u)
                          /\ stage'[u] = "succeeded" => stage[u] = "succeeded"
  BY <1>1 DEF Waiting
<1>3. Undecided' = Undecided
  BY Zenon DEF children, Undecided
<1>4. OneHandoff'
  BY <1>2, <1>3, Zenon DEF RestartInv, OneHandoff, Waiting, Alive
<1> QED BY <1>2, <1>4, Zenon DEF RestartInv, Waiting, children

(* Started: the caller got inProgress, so nobody was waiting, and the      *)
(* child it starts is the only one that is undecided.                      *)
LEMMA StartedInv ==
  ASSUME RestartInv, NEW t \in Triggers, NEW k \in Places, Started(t, k)
  PROVE  RestartInv'
<1>1. RestartTypes'
  BY Zenon DEF Started, RestartInv, RestartTypes, process, signals
<1>2. \A u \in Triggers : ~Waiting(u)
  BY Zenon DEF Started, RestartInv
<1>3. Undecided = {} /\ Alive /\ k \notin handedOver
  BY <1>2, Zenon DEF Started, RestartInv, OneHandoff, Waiting
<1>4. /\ \A u \in Triggers : stage'[u] = IF u = t THEN "waiting" ELSE stage[u]
      /\ \A u \in Triggers : childOf'[u] = IF u = t THEN k ELSE childOf[u]
      /\ \A j \in Places : child'[j] = IF j = k THEN "starting" ELSE child[j]
      /\ inProgress' = TRUE /\ handedOver' = handedOver
  BY Zenon DEF Started, RestartInv, RestartTypes
<1>5. UNCHANGED <<main, open, stopAsked, restartCh, done>>
  BY Zenon DEF Started, process, signals
<1>6. Undecided' = {k}
  BY <1>3, <1>4, Zenon DEF Undecided
<1>7. OneHandoff'
  BY <1>4, <1>6, Zenon DEF OneHandoff
<1>8. \A j \in handedOver : child'[j] = "ready"
  BY <1>3, <1>4, Zenon DEF RestartInv, RestartTypes
<1> QED BY <1>1, <1>2, <1>3, <1>4, <1>5, <1>7, <1>8, Zenon DEF RestartInv, Waiting

(* The only one who waits stops doing so.                                  *)
LEMMA LastWaiter ==
  ASSUME RestartInv, NEW t \in Triggers, Waiting(t), NEW s \in {"idle", "succeeded"},
         stage' = [stage EXCEPT ![t] = s]
  PROVE  \A u \in Triggers : /\ stage'[u] # "waiting"
                             /\ u # t => stage'[u] = stage[u]
                             /\ stage'[t] = s
BY Zenon DEF RestartInv, RestartTypes, Waiting

(* ReadyRead: the child is handed over, and it was the undecided one.      *)
LEMMA ReadyReadInv ==
  ASSUME RestartInv, NEW t \in Triggers, ReadyRead(t)
  PROVE  RestartInv'
<1> DEFINE k == childOf[t]
<1>1. Waiting(t) /\ k \in Places \ handedOver /\ child[k] = "ready" /\ Alive
  BY Zenon DEF ReadyRead, RestartInv, Waiting
<1>2. RestartTypes'
  BY <1>1, Zenon DEF ReadyRead, RestartInv, RestartTypes, process, signals
<1>3. \A u \in Triggers : stage'[u] # "waiting"
  BY <1>1, LastWaiter, Zenon DEF ReadyRead
<1>4. handedOver' = handedOver \cup {k} /\ child' = child
  BY DEF ReadyRead
<1>5. Undecided = {k}
  BY <1>1, Zenon DEF RestartInv, OneHandoff, Undecided
<1>6. Undecided' = {}
  BY <1>4, <1>5, Zenon DEF Undecided
<1>7. OneHandoff'
  BY <1>6, Zenon DEF OneHandoff
<1>8. UNCHANGED <<main, open, stopAsked, restartCh, done>>
  BY Zenon DEF ReadyRead, process, signals
<1>9. handedOver' # {} /\ \A j \in handedOver' : child'[j] = "ready"
  BY <1>1, <1>4, Zenon DEF RestartInv
<1> QED BY <1>2, <1>3, <1>7, <1>8, <1>9, Zenon DEF RestartInv, Waiting

(* TimesOut: the child that is killed is the undecided one.                *)
LEMMA TimesOutInv ==
  ASSUME RestartInv, NEW t \in Triggers, TimesOut(t)
  PROVE  RestartInv'
<1> DEFINE k == childOf[t]
<1>1. Waiting(t) /\ k \in Places \ handedOver /\ Alive
  BY Zenon DEF TimesOut, RestartInv, Waiting
<1>2. RestartTypes'
  BY <1>1, Zenon DEF TimesOut, RestartInv, RestartTypes, process, signals
<1>3. \A u \in Triggers : stage'[u] # "waiting" /\ (stage'[u] = "succeeded" => stage[u] = "succeeded")
  BY <1>1, LastWaiter, Zenon DEF TimesOut
<1>4. /\ handedOver' = handedOver
      /\ \A j \in Places : child'[j] = IF j = k THEN "none" ELSE child[j]
  BY <1>1 DEF TimesOut, RestartInv, RestartTypes
<1>5. Undecided \subseteq {k}
  BY <1>1, Zenon DEF RestartInv, OneHandoff, Waiting
<1>6. Undecided' = {}
  BY <1>4, <1>5, Zenon DEF Undecided
<1>7. OneHandoff'
  BY <1>6 DEF OneHandoff
<1>8. UNCHANGED <<main, open, stopAsked, restartCh, done>>
  BY Zenon DEF TimesOut, process, signals
<1>9. \A j \in handedOver : child'[j] = "ready"
  BY <1>1, <1>4, Zenon DEF RestartInv, RestartTypes
<1> QED BY <1>2, <1>3, <1>4, <1>7, <1>8, <1>9, Zenon DEF RestartInv, Waiting

(* Notify: main is told, and there is a child handed over.                 *)
LEMMA NotifyInv ==
  ASSUME RestartInv, NEW t \in Triggers, Notify(t)
  PROVE  RestartInv'
<1>1. RestartTypes'
  BY Zenon DEF Notify, RestartInv, RestartTypes, signals, children
<1>2. \A u \in Triggers : /\ stage'[u] = "waiting" <=> Waiting(u)
                          /\ stage'[u] = "succeeded" => stage[u] = "succeeded"
  BY Zenon DEF Notify, RestartInv, RestartTypes, Waiting
<1>3. handedOver # {} /\ UNCHANGED <<main, open, stopAsked, done, childOf, inProgress, children>>
  BY Zenon DEF Notify, RestartInv, signals
<1>4. Undecided' = Undecided
  BY <1>3, Zenon DEF children, Undecided
<1>5. OneHandoff'
  BY <1>2, <1>3, <1>4, Zenon DEF RestartInv, OneHandoff, Waiting, Alive
<1> QED BY <1>1, <1>2, <1>3, <1>5, Zenon DEF RestartInv, Waiting, children

(* A child that becomes ready or fails was starting, so not handed over.   *)
LEMMA ChildStepInv ==
  ASSUME RestartInv, NEW k \in Places, ChildReady(k) \/ ChildFails(k)
  PROVE  RestartInv'
<1>1. PICK c \in {"ready", "dead"} :
        /\ child[k] = "starting" /\ child' = [child EXCEPT ![k] = c]
        /\ inherited' = [inherited EXCEPT ![k] = {}]
        /\ UNCHANGED <<process, signals, triggers, handedOver>>
  BY Zenon DEF ChildReady, ChildFails
<1>2. RestartTypes'
  BY <1>1, Zenon DEF RestartInv, RestartTypes, process, signals, triggers
<1>3. \A j \in Places : child'[j] = IF j = k THEN c ELSE child[j]
  BY <1>1, Zenon DEF RestartInv, RestartTypes
<1>4. k \notin handedOver
  BY <1>1, Zenon DEF RestartInv
<1>5. Undecided' \subseteq Undecided
  BY <1>1, <1>3, Zenon DEF Undecided
<1>6. OneHandoff'
  BY <1>1, <1>5, Zenon DEF RestartInv, OneHandoff, process, triggers, Alive
<1>7. \A j \in handedOver : child'[j] = "ready"
  BY <1>3, <1>4, Zenon DEF RestartInv, RestartTypes
<1> QED BY <1>1, <1>2, <1>6, <1>7, Zenon DEF RestartInv, Waiting, process, triggers, signals

(* Each step of Trigger keeps it.                                          *)
LEMMA TriggerStepInv ==
  ASSUME RestartInv, NEW t \in Triggers, TriggerStep(t)
  PROVE  RestartInv'
<1>1. CASE Refused(t)
  <2>1. RestartTypes'
    BY <1>1, Zenon DEF Refused, RestartInv, RestartTypes, process, signals, children
  <2> QED BY <1>1, <2>1, NotWaitingInv, Zenon DEF Refused, Waiting, process, signals
<1>2. CASE ReadyRead(t)
  BY <1>2, ReadyReadInv, Zenon
<1>3. CASE TimesOut(t)
  BY <1>3, TimesOutInv
<1>4. CASE Notify(t)
  BY <1>4, NotifyInv
<1>5. ASSUME NEW k \in Places, Started(t, k) PROVE RestartInv'
  BY <1>5, StartedInv
<1> QED BY <1>1, <1>2, <1>3, <1>4, <1>5, Zenon DEF TriggerStep

(* GatherFiles changes nothing it speaks of.                               *)
LEMMA GatherInv ==
  ASSUME RestartInv, NEW t \in Triggers, Gather(t), usr2' \in BOOLEAN
  PROVE  RestartInv'
<1>1. RestartTypes'
  BY Zenon DEF Gather, RestartInv, RestartTypes, process, children
<1> QED BY <1>1, NotWaitingInv, Zenon DEF Gather, Waiting, process

(* main's own steps close listeners and go forward, once it has left its   *)
(* wait.                                                                   *)
LEMMA MainStepInv ==
  ASSUME RestartInv, MainStep
  PROVE  RestartInv'
<1>1. CASE Exit
  BY <1>1, EndsInv DEF Exit, Gone
<1>2. CASE MainStep /\ ~Exit
  <2>1. UNCHANGED <<triggers, children>> /\ Alive /\ main' # "serving"
    BY <1>2 DEF MainStep, LeaveService, AdminListenerCloses, AdminClosed, ProxiesClosed,
                ProxyCloses, StopSIGUSR2, AdminClosesAgain, AdminClosedAgain, Alive, Gone
  <2>2. RestartTypes'
    <3>1. main' \in Stages /\ open' \in SUBSET Listeners
      BY <1>2, Zenon DEF MainStep, LeaveService, AdminListenerCloses, AdminClosed, ProxiesClosed,
                  ProxyCloses, StopSIGUSR2, AdminClosesAgain, AdminClosedAgain, RestartInv,
                  RestartTypes, Stages
    <3>2. UNCHANGED <<stopAsked, restartCh, handoff, mtls, usr2>> /\ done' \in BOOLEAN
      BY <1>2, Zenon DEF MainStep, LeaveService, AdminListenerCloses, AdminClosed, ProxiesClosed,
                  ProxyCloses, StopSIGUSR2, AdminClosesAgain, AdminClosedAgain, RestartInv,
                  RestartTypes, signals
    <3> QED BY <2>1, <3>1, <3>2, Zenon DEF RestartInv, RestartTypes, triggers, children
  <2>3. stopAsked' = stopAsked /\ restartCh' = restartCh
    BY <1>2, Zenon DEF MainStep, LeaveService, AdminListenerCloses, AdminClosed, ProxiesClosed,
                ProxyCloses, StopSIGUSR2, AdminClosesAgain, AdminClosedAgain
  <2>4. main = "serving" => stopAsked \/ restartCh
    BY <1>2, Zenon DEF MainStep, LeaveService, AdminListenerCloses, AdminClosed, ProxiesClosed,
                ProxyCloses, StopSIGUSR2, AdminClosesAgain, AdminClosedAgain
  <2>5. MainPart'
    BY <2>1, <2>3, <2>4, Zenon DEF MainPart, RestartInv, children
  <2> QED BY <2>1, <2>2, <2>5, QuietMain, Zenon
<1> QED BY <1>1, <1>2

(* Every step of Restart keeps the invariant.                              *)
LEMMA RestartStepInv == RestartInv /\ [RestartNext]_restartVars => RestartInv'
<1> SUFFICES ASSUME RestartInv, [RestartNext]_restartVars PROVE RestartInv'
  BY Zenon
<1>1. CASE Usr2
  <2>1. RestartTypes' /\ MainPart' /\ UNCHANGED <<triggers, children>> /\ (Alive' => Alive)
    BY <1>1 DEF Usr2, RestartInv, RestartTypes, MainPart, process, triggers, children, Alive
  <2> QED BY <2>1, QuietMain, Zenon
<1>2. CASE SignalTaken
  BY <1>2, GatherInv, Zenon DEF SignalTaken, Triggers
<1>3. CASE StopSignal
  <2>1. RestartTypes' /\ MainPart' /\ UNCHANGED <<triggers, children>> /\ (Alive' => Alive)
    BY <1>3, Zenon
       DEF StopSignal, RestartInv, RestartTypes, MainPart, signals, triggers, children, Alive
  <2> QED BY <2>1, QuietMain
<1>4. CASE KillSignal
  BY <1>4, EndsInv, Zenon DEF KillSignal, Gone
<1>5. CASE HandlerReturns
  <2>1. main # "serving"
    BY <1>5, Zenon DEF HandlerReturns, RestartInv
  <2> QED BY <1>5, <2>1, EndsInv, Zenon DEF HandlerReturns, Gone
<1>6. ASSUME NEW r \in Posts, RestartRequest(r) PROVE RestartInv'
  BY <1>6, GatherInv, Zenon DEF RestartRequest, Triggers, RestartInv, RestartTypes
<1>7. ASSUME NEW t \in Triggers, TriggerStep(t) PROVE RestartInv'
  BY <1>7, TriggerStepInv, Zenon
<1>8. CASE ChildStep
  BY <1>8, ChildStepInv DEF ChildStep
<1>9. CASE MainStep
  BY <1>9, MainStepInv, Zenon
<1>10. CASE UNCHANGED restartVars
  <2>1. RestartTypes' /\ MainPart' /\ UNCHANGED <<triggers, children>> /\ (Alive' => Alive)
    BY <1>10, Zenon DEF restartVars, RestartInv, RestartTypes, MainPart, process, signals, triggers,
                 children, Alive
  <2> QED BY <2>1, QuietMain, Zenon
<1> QED BY <1>1, <1>2, <1>3, <1>4, <1>5, <1>6, <1>7, <1>8, <1>9, <1>10 DEF RestartNext

-----------------------------------------------------------------------------
(* The composition                                                         *)

(* A step of the process is a step of Restart or none of it.               *)
LEMMA RestartPart == [LifecycleNext]_lifecycleVars => [RestartNext]_restartVars
<1> SUFFICES ASSUME [LifecycleNext]_lifecycleVars PROVE [RestartNext]_restartVars
  BY Zenon
<1>1. CASE (Usr2 \/ SignalTaken \/ StopSignal) /\ UNCHANGED adminVars
  BY <1>1, Zenon DEF RestartNext
<1>2. CASE SignalStep
  BY <1>2, Zenon DEF SignalStep, RestartNext, Triggers
<1>3. ASSUME NEW r \in Posts, Asks(r) \/ PostStep(r) PROVE RestartNext
  BY <1>3, Zenon DEF Asks, PostStep, RestartNext, Triggers
<1>4. ASSUME NEW r \in Requests, RestStep(r) PROVE UNCHANGED restartVars
  BY <1>4 DEF RestStep
<1>5. ASSUME NEW v \in Viewers, Viewing(ViewerStep(v)) PROVE UNCHANGED restartVars
  BY <1>5, Zenon DEF Viewing
<1>6. CASE ChildStep /\ UNCHANGED adminVars
  BY <1>6, Zenon DEF RestartNext
<1>7. CASE ProcessStep
  BY <1>7, Zenon DEF ProcessStep, MainAlone, CallsClose, CloseReturned, Closing, MainExits,
              RestartNext, MainStep
<1>8. CASE HandlerPanics \/ Killed
  BY <1>8, Zenon DEF HandlerPanics, Killed, RestartNext
<1>9. CASE UNCHANGED lifecycleVars
  BY <1>9, Zenon DEF lifecycleVars
<1> QED BY <1>1, <1>2, <1>3, <1>4, <1>5, <1>6, <1>7, <1>8, <1>9 DEF LifecycleNext

-----------------------------------------------------------------------------
(* A restart leaves no listener unserved: whatever fails, times out or is  *)
(* asked for twice (restart.go:71-186, main.go:315-357).                   *)
THEOREM RestartsLeaveNoGap == LifecycleSpec => []NoServingGap
<1>1. RestartInv => NoServingGap
  BY Zenon DEF RestartInv, NoServingGap, RestartTypes
<1>2. LifecycleInit => RestartInv
  BY RestartInitInv, Zenon DEF LifecycleInit
<1> QED BY <1>1, <1>2, RestartPart, RestartStepInv, PTL DEF LifecycleSpec

(* At most one child is being started, and someone waits for it as long as *)
(* the process lives (restart.go:72-75, 157-185).                          *)
THEOREM HandoffsAreGuarded == LifecycleSpec => []OneHandoff
<1>1. RestartInv => OneHandoff
  BY Zenon DEF RestartInv
<1>2. LifecycleInit => RestartInv
  BY RestartInitInv DEF LifecycleInit
<1> QED BY <1>1, <1>2, RestartPart, RestartStepInv, PTL DEF LifecycleSpec

=============================================================================
