---------------------------- MODULE ClientProofs ----------------------------
(***************************************************************************)
(* Proofs about what the proxy does for its clients: the sessions of a UDP *)
(* listener, for any clients, backends, generations of the pool and number *)
(* of sessions; the token buckets of the rate limiter, for any clients,    *)
(* callers, rate, burst, eviction time and delay; and the relay of one     *)
(* connection, for any amount of data and any idle timeout.                *)
(*                                                                         *)
(* The WaitGroup of a UDP listener counts exactly, and so does the gauge   *)
(* of a backend until its series is deleted.                               *)
(* LeastConnections' counts do not, since a session is released on the     *)
(* balancer of the moment of its end; what is kept is a bound, and it      *)
(* rests on this: when evictExpired has loaded a balancer that was         *)
(* replaced since, the sessions it is about to remove are idle, and the    *)
(* new balancer counts only busy ones.                                     *)
(*                                                                         *)
(* BudgetKept of the rate limiter is inductive once it is known that a     *)
(* client without a bucket stands for a full one. The arithmetic is that   *)
(* of a single bucket and is stated apart, in lemmas about integers.       *)
(*                                                                         *)
(* The three components are independent, and no statement is about more    *)
(* than one of them.                                                       *)
(***************************************************************************)
EXTENDS UDPSessions, RateLimiter, Relay, FiniteSetTheorems, TLAPS

Obj == [backend : Backends \cup {Nil}, open : BOOLEAN, reader : BOOLEAN, idle : BOOLEAN]

Busy(b)  == {i \in On(b) : ~object[i].idle}
Readers  == {i \in Ids : object[i].reader}
Evicting == IF evictor \in {"waiting", "scanning"} THEN 1 ELSE 0

(* The pool's part of the types; the update under way fits.                *)
PoolTypes ==
  /\ protocol = "udp"
  /\ members \in [Gens -> SUBSET Backends]
  /\ next \in (SUBSET Backends) \cup {NoUpdate}
  /\ next # NoUpdate => lb + 1 \in Gens
  /\ cleaned \in SUBSET Backends

(* The part of the types that the accounts do not give.                    *)
Types ==
  /\ lb \in Gens
  /\ count \in [Gens -> [Backends -> Nat]]
  /\ gauge \in [Backends -> Int]
  /\ serve \in {"new", "reading", "handling", "forwarding", "returned"}
  /\ hand \in [client : Clients \cup {Nil}, gen : Gens \cup {Nil}, session : Ids \cup {Nil}]
  /\ bound \in BOOLEAN
  /\ sessions \in [Clients -> Ids \cup {Nil}]
  /\ object \in [Ids -> Obj]
  /\ evictor \in {"new", "waiting", "scanning", "returned"}
  /\ evictLb \in Gens \cup {Nil}
  /\ udpClosing \in BOOLEAN /\ udpCloser \in UDPStages

(* What Serve and the evictor have loaded is there, and not newer than the *)
(* snapshot.                                                               *)
Loaded ==
  /\ serve = "handling" => hand.client \in Clients /\ hand.gen \in Gens /\ hand.gen <= lb
  /\ serve = "forwarding" => hand.session \in Ids
  /\ evictor = "scanning" => evictLb \in Gens /\ evictLb <= lb

OpenListed == \A i \in Ids : object[i].open => i \in Listed

(* How far Close has come: the flag, the empty table, Serve's start, and   *)
(* the WaitGroup.                                                          *)
CloseOrder ==
  /\ serve = "new" <=> evictor = "new"
  /\ udpCloser # "none" => udpClosing
  /\ udpCloser \in {"swept", "waiting", "drained", "timed out"} => Listed = {}
  /\ udpCloser \in {"waiting", "drained", "timed out"} => serve # "new"
  /\ udpCloser = "drained" => udpWg = 0

GoroutinesCounted == udpWg = Cardinality(Readers) + Evicting
GaugeTrue ==
  \A b \in Backends : /\ gauge[b] <= Cardinality(On(b))
                      /\ b \notin cleaned => gauge[b] = Cardinality(On(b))
CountsBelow ==
  \A b \in Backends :
    /\ \A g \in Gens : g > lb => count[g][b] = 0
    /\ count[lb][b] <= Cardinality(On(b))
    /\ evictor = "scanning" /\ evictLb # lb => count[lb][b] <= Cardinality(Busy(b))

SessionInv ==
  Types /\ Loaded /\ OpenListed /\ CloseOrder /\ GoroutinesCounted /\ GaugeTrue /\ CountsBelow

IInv == PoolTypes /\ SessionInv

(* Sets of session objects are finite.                                     *)
LEMMA SetsOfIds ==
  ASSUME NEW S \in SUBSET Ids
  PROVE  IsFiniteSet(S) /\ Cardinality(S) \in Nat
<1>1. IsFiniteSet(Ids)
  BY UDPAssumption, FS_Interval
<1> QED BY <1>1, FS_Subset, FS_CardinalityType

(* The invariant at the start.                                             *)
LEMMA InitInv == PoolInit /\ protocol = "udp" /\ UDPInit => IInv
<1> SUFFICES ASSUME PoolInit, protocol = "udp", UDPInit PROVE IInv
  OBVIOUS
<1>0. 1 \in Gens /\ Nil \notin Ids
  BY UDPAssumption, ServedPoolAssumption DEF Nil
<1>1. Listed = {} /\ Readers = {}
  BY <1>0 DEF PoolInit, UDPInit, Listed, Readers, Free
<1>2. \A b : On(b) = {} /\ Busy(b) = {}
  BY <1>1 DEF On, Busy
<1>3. Types
  <2>1. Free \in Obj
    BY DEF Free, Obj
  <2>2. object \in [Ids -> Obj]
    BY <2>1 DEF PoolInit, UDPInit
  <2>3. hand \in [client : Clients \cup {Nil}, gen : Gens \cup {Nil}, session : Ids \cup {Nil}]
    BY DEF PoolInit, UDPInit, Nothing
  <2>4. count \in [Gens -> [Backends -> Nat]] /\ gauge \in [Backends -> Int]
        /\ sessions \in [Clients -> Ids \cup {Nil}] /\ lb \in Gens
    BY <1>0 DEF PoolInit, UDPInit
  <2>5. serve \in {"new", "reading", "handling", "forwarding", "returned"}
        /\ evictor \in {"new", "waiting", "scanning", "returned"} /\ udpCloser \in UDPStages
        /\ evictLb \in Gens \cup {Nil}
    BY DEF PoolInit, UDPInit, UDPStages
  <2>6. bound \in BOOLEAN /\ udpClosing \in BOOLEAN
    BY Zenon DEF PoolInit, UDPInit
  <2> QED BY <2>2, <2>3, <2>4, <2>5, <2>6, Zenon DEF Types
<1>4. Loaded
  BY DEF PoolInit, UDPInit, Loaded
<1>5. OpenListed
  BY DEF PoolInit, UDPInit, OpenListed, Free
<1>6. CloseOrder
  BY DEF PoolInit, UDPInit, CloseOrder
<1>7. GoroutinesCounted /\ GaugeTrue
  <2>1. Cardinality({}) = 0
    BY FS_EmptySet, Zenon
  <2>2. \A b \in Backends : gauge[b] = 0
    BY DEF PoolInit
  <2>3. GoroutinesCounted
    BY <1>1, <2>1 DEF UDPInit, GoroutinesCounted, Evicting
  <2>4. GaugeTrue
    BY <1>2, <2>1, <2>2 DEF GaugeTrue
  <2> QED BY <2>3, <2>4
<1>8. CountsBelow
  <2>1. \A g \in Gens, b \in Backends : count[g][b] = 0
    BY DEF PoolInit, UDPInit
  <2>2. lb \in Gens /\ evictor # "scanning"
    BY <1>0 DEF PoolInit, UDPInit
  <2> QED BY <1>2, <2>1, <2>2, FS_EmptySet DEF CountsBelow
<1>9. PoolTypes
  <2>1. members \in [Gens -> SUBSET Backends]
    BY Zenon DEF PoolInit
  <2> QED BY <2>1, Zenon DEF PoolInit, PoolTypes
<1> QED BY <1>3, <1>4, <1>5, <1>6, <1>7, <1>8, <1>9, Zenon DEF IInv, SessionInv

(* An update keeps the pool's types, and only an update changes them.      *)
LEMMA PoolKept ==
  ASSUME IInv, [UDPNext]_udpVars
  PROVE  PoolTypes'
<1>0. PoolTypes /\ lb \in Gens
  BY Zenon DEF IInv, SessionInv, Types
<1>1. ASSUME NEW new \in Memberships, Cleanup(new) \/ Rebuild(new)
      PROVE  PoolTypes'
  <2>1. new \in SUBSET Backends
    BY ServedPoolAssumption
  <2> QED BY <1>0, <1>1, <2>1 DEF Cleanup, Rebuild, PoolTypes
<1>2. CASE SwapPool
  <2>1. next \in SUBSET Backends /\ lb + 1 \in Gens
    BY <1>0, <1>2, Zenon DEF SwapPool, PoolTypes
  <2>2. members' \in [Gens -> SUBSET Backends]
    BY <1>0, <1>2, <2>1, Zenon DEF SwapPool, PoolTypes
  <2> QED BY <1>0, <1>2, <2>1, <2>2, Zenon DEF SwapPool, PoolTypes
<1>3. CASE UNCHANGED update
  BY <1>0, <1>3 DEF update, PoolTypes
<1>4. ASSUME \/ ServeUDP \/ Evict \/ CloseUDP \/ UNCHANGED udpVars
             \/ \E c \in Clients : Receive(c)
             \/ \E i \in Ids : Reply(i) \/ ReaderEnds(i) \/ BecomesIdle(i)
      PROVE  UNCHANGED update
  BY <1>4, Zenon DEF ServeUDP, ServeStarts, ReadFails, handleDatagram, Drop, Found, NewSession,
              Forward, Evict, EvictTick, evictExpired, EvictorReturns, CloseUDP, MarkClosing,
              CloseSocket, CloseSweep, CloseWaits, CloseReturns, Receive, Reply, ReaderEnds,
              BecomesIdle, poolVars, update, udpVars
<1> QED BY <1>1, <1>2, <1>3, <1>4, Zenon DEF UDPNext, UDPPoolStep

-----------------------------------------------------------------------------
(* Steps that leave the table and the session objects alone.               *)
LEMMA TableAlone ==
  ASSUME UNCHANGED <<sessions, object>>
  PROVE  /\ Listed' = Listed /\ Readers' = Readers
         /\ \A b : On(b)' = On(b) /\ Busy(b)' = Busy(b)
BY DEF Listed, Readers, On, Busy

(* Serve's start, its failing reads, and a datagram on its way in.         *)
LEMMA ServeInv ==
  ASSUME IInv,
         ServeStarts \/ ReadFails \/ (\E c \in Clients : Receive(c))
           \/ (serve = "handling" /\ (Drop \/ Found))
  PROVE  SessionInv'
<1> USE DEF IInv, SessionInv
<1>1. UNCHANGED <<sessions, object, poolVars, evictLb, shutdown>>
  BY DEF ServeStarts, ReadFails, Receive, Drop, Found, evicting
<1>2. Types'
  <2>1. serve' \in {"new", "reading", "handling", "forwarding", "returned"}
        /\ evictor' \in {"new", "waiting", "scanning", "returned"}
    BY DEF Types, ServeStarts, ReadFails, Receive, Drop, Found, evicting
  <2>2. hand' \in [client : Clients \cup {Nil}, gen : Gens \cup {Nil}, session : Ids \cup {Nil}]
    <3>1. CASE ServeStarts \/ ReadFails
      BY <3>1 DEF Types, ServeStarts, ReadFails
    <3>2. ASSUME NEW c \in Clients, Receive(c)
          PROVE  hand' \in [client : Clients \cup {Nil}, gen : Gens \cup {Nil},
                            session : Ids \cup {Nil}]
      BY <3>2 DEF Types, Receive
    <3>3. CASE serve = "handling" /\ Drop
      BY <3>3 DEF Drop, Nothing
    <3>4. CASE serve = "handling" /\ Found
      <4>1. sessions[hand.client] \in Ids \cup {Nil}
        BY <3>4 DEF Types, Loaded
      <4> QED BY <3>4, <4>1, Zenon DEF Types, Found
    <3> QED BY <3>1, <3>2, <3>3, <3>4
  <2> QED BY <1>1, <2>1, <2>2, Zenon DEF Types, poolVars, shutdown
<1>3. Loaded'
  <2>1. lb' = lb /\ lb \in Gens /\ lb <= lb /\ evictLb' = evictLb
    BY <1>1, UDPAssumption, ServedPoolAssumption DEF poolVars, Types
  <2>2. CASE ServeStarts \/ ReadFails
    BY <2>1, <2>2 DEF Loaded, ServeStarts, ReadFails, evicting
  <2>3. ASSUME NEW c \in Clients, Receive(c)
        PROVE  Loaded'
    BY <2>1, <2>3 DEF Loaded, Receive, evicting
  <2>4. CASE serve = "handling" /\ Drop
    BY <2>1, <2>4 DEF Loaded, Drop, evicting
  <2>5. CASE serve = "handling" /\ Found
    <3>1. sessions[hand.client] \in Ids
      BY <2>5 DEF Types, Loaded, Found
    <3>2. hand'.session = sessions[hand.client]
      BY <2>5 DEF Types, Found
    <3> QED BY <2>1, <2>5, <3>1, <3>2 DEF Loaded, Found, evicting
  <2> QED BY <2>2, <2>3, <2>4, <2>5
<1>4. OpenListed' /\ GaugeTrue'
  BY <1>1, TableAlone DEF OpenListed, GaugeTrue, poolVars
<1>5. udpWg' - Evicting' = udpWg - Evicting /\ (udpWg' # udpWg => serve = "new")
  <2>1. udpWg \in Int
    BY SetsOfIds DEF GoroutinesCounted, Readers, Evicting
  <2>2. CASE ServeStarts
    <3>1. serve = "new" /\ evictor' = "waiting" /\ udpWg' = udpWg + 1
      BY <2>2 DEF ServeStarts
    <3>2. evictor = "new"
      BY <3>1, Zenon DEF CloseOrder
    <3>3. Evicting = 0 /\ Evicting' = 1
      BY <3>1, <3>2 DEF Evicting
    <3> QED BY <2>1, <3>1, <3>3
  <2>3. CASE ~ServeStarts
    BY <2>1, <2>3 DEF Evicting, ReadFails, Receive, Drop, Found, evicting
  <2> QED BY <2>2, <2>3
<1>6. GoroutinesCounted'
  <2>1. Cardinality(Readers) \in Nat /\ Readers' = Readers
    BY <1>1, TableAlone, SetsOfIds DEF Readers
  <2> QED BY <1>5, <2>1 DEF GoroutinesCounted, Evicting, ServeStarts, ReadFails, Receive, Drop, Found
<1>7. CloseOrder'
  <2>1. serve' = "new" <=> evictor' = "new"
    BY Zenon DEF CloseOrder, ServeStarts, ReadFails, Receive, Drop, Found, evicting
  <2>2. serve # "new" => serve' # "new"
    BY DEF ServeStarts, ReadFails, Receive, Drop, Found
  <2>3. Listed' = Listed /\ udpCloser' = udpCloser /\ udpClosing' = udpClosing
    BY <1>1, TableAlone, Zenon DEF shutdown
  <2> QED BY <1>5, <2>1, <2>2, <2>3, Zenon DEF CloseOrder
<1>8. CountsBelow'
  <2>1. evictor' = "scanning" => evictor = "scanning"
    BY DEF ServeStarts, ReadFails, Receive, Drop, Found, evicting
  <2> QED BY <1>1, <2>1, TableAlone DEF CountsBelow, poolVars
<1> QED BY <1>2, <1>3, <1>4, <1>6, <1>7, <1>8

(* The evictor's ticks and its end, and Close except its sweep.            *)
LEMMA WaitingInv ==
  ASSUME IInv,
         EvictTick \/ EvictorReturns \/ MarkClosing \/ CloseSocket \/ CloseWaits \/ CloseReturns
  PROVE  SessionInv'
<1> USE DEF IInv, SessionInv
<1>1. UNCHANGED <<sessions, object, poolVars, serving>>
  BY Zenon DEF EvictTick, EvictorReturns, MarkClosing, CloseSocket, CloseWaits, CloseReturns
<1>2. lb \in Gens /\ lb <= lb /\ lb' = lb /\ serve' = serve /\ hand' = hand
  BY <1>1, UDPAssumption, ServedPoolAssumption DEF poolVars, serving, Types
<1>3. Types'
  <2>1. evictor' \in {"new", "waiting", "scanning", "returned"} /\ evictLb' \in Gens \cup {Nil}
    BY <1>2, Zenon DEF Types, EvictTick, EvictorReturns, MarkClosing, CloseSocket, CloseWaits,
                CloseReturns, evicting
  <2>2. udpCloser' \in UDPStages
    BY Zenon DEF Types, UDPStages, EvictTick, EvictorReturns, MarkClosing, CloseSocket, CloseWaits,
           CloseReturns, shutdown
  <2>3. udpClosing' \in BOOLEAN /\ bound' \in BOOLEAN
    BY Zenon DEF Types, EvictTick, EvictorReturns, MarkClosing, CloseSocket, CloseWaits,
           CloseReturns, shutdown
  <2> QED BY <1>1, <1>2, <2>1, <2>2, <2>3, Zenon DEF Types, poolVars
<1>4. Loaded'
  BY <1>2, Zenon DEF Loaded, EvictTick, EvictorReturns, MarkClosing, CloseSocket, CloseWaits,
              CloseReturns, evicting
<1>5. OpenListed' /\ GaugeTrue'
  BY <1>1, TableAlone DEF OpenListed, GaugeTrue, poolVars
<1>6. udpWg \in Int /\ Cardinality(Readers) \in Nat /\ Readers' = Readers
  BY <1>1, TableAlone, SetsOfIds DEF GoroutinesCounted, Readers, Evicting
<1>7. GoroutinesCounted'
  <2>1. CASE EvictorReturns
    <3>1. Evicting = 1 /\ Evicting' = 0
      BY <2>1 DEF Evicting, EvictorReturns
    <3> QED BY <1>6, <2>1, <3>1 DEF GoroutinesCounted, EvictorReturns
  <2>2. CASE ~EvictorReturns
    <3>1. udpWg' = udpWg /\ Evicting' = Evicting
      BY <2>2, Zenon DEF Evicting, EvictTick, MarkClosing, CloseSocket, CloseWaits, CloseReturns, evicting
    <3> QED BY <1>6, <3>1 DEF GoroutinesCounted
  <2> QED BY <2>1, <2>2
<1>8. CloseOrder'
  <2>1. Listed' = Listed
    BY <1>1, TableAlone
  <2>2. CASE EvictTick \/ EvictorReturns
    <3>1. udpCloser' = udpCloser /\ udpClosing' = udpClosing /\ evictor # "new" /\ evictor' # "new"
      BY <2>2 DEF EvictTick, EvictorReturns, shutdown
    <3>2. udpCloser = "drained" => udpWg' = 0
      <4>1. Evicting = 1 /\ (udpWg' = udpWg \/ udpWg' = udpWg - 1)
        BY <2>2 DEF Evicting, EvictTick, EvictorReturns
      <4>2. udpWg # 0
        BY <1>6, <4>1 DEF GoroutinesCounted
      <4> QED BY <4>2 DEF CloseOrder
    <3> QED BY <1>2, <2>1, <3>1, <3>2, Zenon DEF CloseOrder
  <2>3. CASE MarkClosing \/ CloseSocket \/ CloseWaits \/ CloseReturns
    <3>1. evictor' = evictor /\ udpWg' = udpWg
      BY <2>3, Zenon DEF MarkClosing, CloseSocket, CloseWaits, CloseReturns, evicting
    <3>2. udpClosing'
      BY <2>3, Zenon DEF CloseOrder, MarkClosing, CloseSocket, CloseWaits, CloseReturns
    <3>3. udpCloser' \in {"swept", "waiting", "drained", "timed out"} => Listed = {}
      BY <2>3, Zenon DEF CloseOrder, MarkClosing, CloseSocket, CloseWaits, CloseReturns
    <3>4. udpCloser' \in {"waiting", "drained", "timed out"} => serve # "new"
      BY <2>3, Zenon DEF CloseOrder, MarkClosing, CloseSocket, CloseWaits, CloseReturns
    <3>5. udpCloser' = "drained" => udpWg = 0
      BY <2>3, Zenon DEF MarkClosing, CloseSocket, CloseWaits, CloseReturns
    <3> QED BY <1>2, <2>1, <3>1, <3>2, <3>3, <3>4, <3>5, Zenon DEF CloseOrder
  <2> QED BY <2>2, <2>3
<1>9. CountsBelow'
  <2>1. evictor' = "scanning" /\ evictLb' # lb => evictor = "scanning" /\ evictLb # lb
    BY Zenon DEF EvictTick, EvictorReturns, MarkClosing, CloseSocket, CloseWaits, CloseReturns, evicting
  <2> QED BY <1>1, <2>1, TableAlone DEF CountsBelow, poolVars
<1> QED BY <1>3, <1>4, <1>5, <1>7, <1>8, <1>9

(* A new balancer: it counts nobody yet.                                   *)
LEMMA SwapInv ==
  ASSUME IInv, SwapPool, UNCHANGED udpOwnVars
  PROVE  SessionInv'
<1> USE DEF IInv, SessionInv
<1>1. lb' = lb + 1 /\ lb' \in Gens /\ lb \in Gens /\ lb \in Nat
      /\ UNCHANGED <<count, gauge, cleaned, serving, sessions, object, evicting, udpWg, shutdown>>
  BY UDPAssumption, ServedPoolAssumption DEF SwapPool, Types, PoolTypes, udpOwnVars, serving,
     evicting, shutdown
<1>2. Types'
  BY <1>1, Zenon DEF Types, serving, evicting, shutdown
<1>3. Loaded'
  <2>1. \A g \in Gens : g <= lb => g <= lb'
    BY <1>1, UDPAssumption, ServedPoolAssumption
  <2> QED BY <1>1, <2>1, Zenon DEF Loaded, serving, evicting
<1>4. OpenListed' /\ GaugeTrue' /\ GoroutinesCounted' /\ CloseOrder'
  BY <1>1, TableAlone, Zenon DEF OpenListed, GaugeTrue, GoroutinesCounted, Evicting, CloseOrder, serving,
                          evicting, shutdown
<1>5. CountsBelow'
  <2> SUFFICES ASSUME NEW b \in Backends
               PROVE  /\ \A g \in Gens : g > lb' => count'[g][b] = 0
                      /\ count'[lb'][b] <= Cardinality(On(b)')
                      /\ count'[lb'][b] <= Cardinality(Busy(b)')
    BY DEF CountsBelow
  <2>1. \A g \in Gens : g > lb' => g > lb
    BY <1>1, UDPAssumption, ServedPoolAssumption
  <2>2. count[lb + 1][b] = 0
    BY <1>1 DEF CountsBelow
  <2>3. Cardinality(On(b)) \in Nat /\ Cardinality(Busy(b)) \in Nat
    BY SetsOfIds DEF On, Busy, Listed
  <2>4. On(b)' = On(b) /\ Busy(b)' = Busy(b)
    BY <1>1, TableAlone, Zenon
  <2>5. count' = count /\ \A g \in Gens : g > lb => count[g][b] = 0
    BY <1>1, Zenon DEF CountsBelow
  <2> QED BY <1>1, <2>1, <2>2, <2>3, <2>4, <2>5
<1> QED BY <1>2, <1>3, <1>4, <1>5

(* Building the pool anew deletes series at most: their gauge is zero.     *)
LEMMA RebuildInv ==
  ASSUME IInv, UNCHANGED udpOwnVars, \E new \in Memberships : Cleanup(new) \/ Rebuild(new)
  PROVE  SessionInv'
<1> USE DEF IInv, SessionInv
<1>1. UNCHANGED <<lb, count, serving, sessions, object, evicting, udpWg, shutdown>>
  BY Zenon DEF Cleanup, Rebuild, udpOwnVars, serving, evicting, shutdown
<1>2. gauge \in [Backends -> Int]
  BY Zenon DEF Types
<1>3. /\ gauge' \in [Backends -> Int] /\ cleaned \subseteq cleaned'
      /\ \A b \in Backends : gauge'[b] = gauge[b] \/ (gauge'[b] = 0 /\ b \in cleaned')
  <2>1. PICK new \in Memberships : Cleanup(new) \/ Rebuild(new)
    BY Zenon
  <2>2. CASE Rebuild(new)
    BY <1>2, <2>2, Zenon DEF Rebuild
  <2>3. CASE Cleanup(new)
    <3>1. \A b \in Backends : gauge'[b] = IF b \in members[lb] \ new THEN 0 ELSE gauge[b]
      BY <2>3 DEF Cleanup
    <3>2. gauge' \in [Backends -> Int]
      BY <1>2, <2>3 DEF Cleanup
    <3>3. cleaned' = cleaned \cup (members[lb] \ new)
      BY <2>3, Zenon DEF Cleanup
    <3> QED BY <3>1, <3>2, <3>3, Zenon
  <2> QED BY <2>1, <2>2, <2>3, Zenon
<1>4. Types'
  BY <1>1, <1>3, Zenon DEF Types, serving, evicting, shutdown
<1>5. Loaded'
  BY <1>1, Zenon DEF Loaded, serving, evicting
<1>6. OpenListed' /\ GoroutinesCounted' /\ CloseOrder' /\ CountsBelow'
  BY <1>1, TableAlone, Zenon DEF OpenListed, GoroutinesCounted, Evicting, CloseOrder, CountsBelow,
              serving, evicting, shutdown
<1>7. GaugeTrue'
  <2> SUFFICES ASSUME NEW b \in Backends
               PROVE  /\ gauge'[b] <= Cardinality(On(b)')
                      /\ b \notin cleaned' => gauge'[b] = Cardinality(On(b)')
    BY DEF GaugeTrue
  <2>1. On(b)' = On(b)
    BY <1>1, TableAlone, Zenon
  <2>2. Cardinality(On(b)) \in Nat
    BY SetsOfIds DEF On, Listed
  <2>3. gauge[b] <= Cardinality(On(b)) /\ (b \notin cleaned => gauge[b] = Cardinality(On(b)))
    BY Zenon DEF GaugeTrue
  <2> QED BY <1>3, <2>1, <2>2, <2>3
<1> QED BY <1>4, <1>5, <1>6, <1>7

-----------------------------------------------------------------------------
(* Traffic on a session, its reader's end, and time.                       *)
LEMMA TouchInv ==
  ASSUME IInv,
         Forward \/ (\E i \in Ids : Reply(i) \/ ReaderEnds(i) \/ BecomesIdle(i))
  PROVE  SessionInv'
<1> USE DEF IInv, SessionInv
<1>1. PICK i \in Ids :
        \/ Forward /\ i = hand.session
        \/ Reply(i) \/ ReaderEnds(i) \/ BecomesIdle(i)
  BY Zenon DEF Forward, Loaded
<1>2. object[i] \in Obj /\ object \in [Ids -> Obj]
  BY Zenon DEF Types
<1>3. UNCHANGED <<sessions, poolVars, evicting, shutdown>>
  BY <1>1 DEF Forward, Reply, ReaderEnds, BecomesIdle
<1>4. PICK o \in Obj : /\ object' = [object EXCEPT ![i] = o]
                       /\ o.backend = object[i].backend
                       /\ o.open => object[i].open
                       /\ IF ReaderEnds(i) THEN object[i].reader /\ ~o.reader
                                           ELSE o.reader = object[i].reader
                       /\ o.idle => object[i].idle \/ evictor # "scanning"
  <2>1. CASE Forward /\ i = hand.session /\ ~ReaderEnds(i)
    <3> DEFINE o == [object[i] EXCEPT !.idle = FALSE]
    <3>1. object' = [object EXCEPT ![i] = o]
      BY <2>1 DEF Forward
    <3>2. o \in Obj /\ o.backend = object[i].backend /\ o.open = object[i].open
          /\ o.reader = object[i].reader /\ ~o.idle
      BY <1>2, Zenon DEF Obj
    <3> QED BY <2>1, <3>1, <3>2, Zenon
  <2>2. CASE Reply(i) /\ ~ReaderEnds(i)
    <3> DEFINE o == [object[i] EXCEPT !.idle = FALSE]
    <3>1. object' = [object EXCEPT ![i] = o]
      BY <2>2 DEF Reply
    <3>2. o \in Obj /\ o.backend = object[i].backend /\ o.open = object[i].open
          /\ o.reader = object[i].reader /\ ~o.idle
      BY <1>2, Zenon DEF Obj
    <3> QED BY <2>2, <3>1, <3>2, Zenon
  <2>3. CASE ReaderEnds(i)
    <3> DEFINE o == [[object[i] EXCEPT !.reader = FALSE] EXCEPT !.open = FALSE]
    <3>1. object' = [object EXCEPT ![i] = o] /\ object[i].reader
      BY <1>2, <2>3, Zenon DEF ReaderEnds, Obj
    <3>2. o \in Obj /\ o.backend = object[i].backend /\ ~o.open /\ ~o.reader
          /\ o.idle = object[i].idle
      BY <1>2, Zenon DEF Obj
    <3> QED BY <2>3, <3>1, <3>2, Zenon
  <2>4. CASE BecomesIdle(i) /\ ~ReaderEnds(i)
    <3> DEFINE o == [object[i] EXCEPT !.idle = TRUE]
    <3>1. object' = [object EXCEPT ![i] = o] /\ evictor # "scanning"
      BY <2>4 DEF BecomesIdle
    <3>2. o \in Obj /\ o.backend = object[i].backend /\ o.open = object[i].open
          /\ o.reader = object[i].reader
      BY <1>2, Zenon DEF Obj
    <3> QED BY <2>4, <3>1, <3>2, Zenon
  <2> QED BY <1>1, <2>1, <2>2, <2>3, <2>4, Zenon
<1>5. Listed' = Listed /\ \A b : On(b)' = On(b)
  <2>1. Listed' = Listed
    BY <1>3 DEF Listed
  <2>2. \A j \in Ids : object'[j].backend = object[j].backend
    BY <1>2, <1>4
  <2> QED BY <2>1, <2>2 DEF On, Listed
<1>6. evictor = "scanning" => \A b : Cardinality(Busy(b)) <= Cardinality(Busy(b)')
  <2> SUFFICES ASSUME evictor = "scanning", NEW b
               PROVE  Cardinality(Busy(b)) <= Cardinality(Busy(b)')
    OBVIOUS
  <2>1. \A j \in Ids : object'[j].idle => object[j].idle
    BY <1>2, <1>4, Zenon
  <2>2. Busy(b) \subseteq Busy(b)' /\ Busy(b)' \subseteq Ids
    BY <1>5, <2>1 DEF Busy, On, Listed
  <2> QED BY <2>2, SetsOfIds, FS_Subset
<1>7. Types'
  <2>1. serve' \in {"new", "reading", "handling", "forwarding", "returned"}
    BY <1>1, Zenon DEF Types, Forward, Reply, ReaderEnds, BecomesIdle, serving
  <2>2. hand' \in [client : Clients \cup {Nil}, gen : Gens \cup {Nil}, session : Ids \cup {Nil}]
    BY <1>1 DEF Types, Forward, Reply, ReaderEnds, BecomesIdle, serving, Nothing
  <2>3. object' \in [Ids -> Obj]
    BY <1>2, <1>4, Zenon
  <2> QED BY <1>3, <2>1, <2>2, <2>3, Zenon DEF Types, poolVars, evicting, shutdown
<1>8. Loaded'
  BY <1>1, <1>3, Zenon DEF Loaded, Forward, Reply, ReaderEnds, BecomesIdle, serving, poolVars, evicting
<1>9. OpenListed'
  BY <1>2, <1>4, <1>5 DEF OpenListed
<1>10. GaugeTrue'
  BY <1>3, <1>5, Zenon DEF GaugeTrue, poolVars
<1>11. CountsBelow'
  <2> SUFFICES ASSUME NEW b \in Backends
               PROVE  /\ \A g \in Gens : g > lb => count[g][b] = 0
                      /\ count[lb][b] <= Cardinality(On(b))
                      /\ evictor = "scanning" /\ evictLb # lb => count[lb][b] <= Cardinality(Busy(b)')
    BY <1>3, <1>5, Zenon DEF CountsBelow, poolVars, evicting
  <2>1. Cardinality(Busy(b)) \in Nat /\ Cardinality(Busy(b)') \in Nat /\ count[lb][b] \in Nat
    <3>1. Busy(b) \subseteq Ids /\ Busy(b)' \subseteq Ids
      BY DEF Busy, On, Listed
    <3> QED BY <3>1, SetsOfIds, Zenon DEF Types
  <2> QED BY <1>6, <2>1 DEF CountsBelow
<1>12. Evicting' = Evicting /\ Evicting \in {0, 1}
  BY <1>3 DEF Evicting, evicting
<1>13. IsFiniteSet(Readers) /\ Cardinality(Readers) \in Nat
  BY SetsOfIds DEF Readers
<1>14. GoroutinesCounted' /\ (udpWg' = udpWg \/ udpWg # 0)
  <2>1. CASE ReaderEnds(i)
    <3>1. i \in Readers /\ Readers' = Readers \ {i}
      BY <1>2, <1>4, <2>1 DEF Readers
    <3>2. Cardinality(Readers') = Cardinality(Readers) - 1
      BY <1>13, <3>1, FS_RemoveElement, Zenon
    <3>3. Cardinality(Readers) # 0
      BY <1>13, <3>1, FS_EmptySet, Zenon
    <3> QED BY <1>12, <1>13, <2>1, <3>2, <3>3 DEF GoroutinesCounted, ReaderEnds
  <2>2. CASE ~ReaderEnds(i)
    <3>1. Readers' = Readers
      BY <1>2, <1>4, <2>2, Zenon DEF Readers
    <3>2. udpWg' = udpWg
      BY <1>1, <2>2 DEF Forward, Reply, BecomesIdle
    <3> QED BY <1>12, <3>1, <3>2, Zenon DEF GoroutinesCounted
  <2> QED BY <2>1, <2>2
<1>15. CloseOrder'
  <2>1. serve' = serve \/ (serve # "new" /\ serve' # "new")
    BY <1>1 DEF Forward, Reply, ReaderEnds, BecomesIdle, serving
  <2>2. udpCloser = "drained" => udpWg' = 0
    BY <1>14 DEF CloseOrder
  <2> QED BY <1>3, <1>5, <2>1, <2>2, Zenon DEF CloseOrder, evicting, shutdown
<1> QED BY <1>7, <1>8, <1>9, <1>10, <1>11, <1>14, <1>15

(* A new session, counted on the balancer that Serve has loaded.           *)
LEMMA NewSessionInv ==
  ASSUME IInv, serve = "handling", ~udpClosing, NewSession
  PROVE  SessionInv'
<1> USE DEF IInv, SessionInv
<1>1. PICK b \in members[hand.gen], i \in Fresh :
        /\ object' = [object EXCEPT ![i] = [backend |-> b, open |-> TRUE,
                                            reader |-> TRUE, idle |-> FALSE]]
        /\ sessions' = [sessions EXCEPT ![hand.client] = i]
        /\ count' = [count EXCEPT ![hand.gen][b] = @ + 1]
        /\ gauge' = [gauge EXCEPT ![b] = @ + 1]
        /\ hand' = [hand EXCEPT !.session = i]
  BY Zenon DEF NewSession, Acquire, Inc
<1>2. i \in Ids /\ i \notin Listed /\ ~object[i].reader
  BY DEF Fresh, Unused
<1>3. sessions[hand.client] = Nil /\ udpWg' = udpWg + 1 /\ serve' = "forwarding"
      /\ UNCHANGED <<lb, cleaned, evicting, shutdown>>
  BY DEF NewSession, update
<1>4. hand.client \in Clients /\ hand.gen \in Gens /\ hand.gen <= lb
  BY Zenon DEF Loaded
<1>b. b \in Backends
  BY <1>4, Zenon DEF PoolTypes
<1>5. object \in [Ids -> Obj] /\ sessions \in [Clients -> Ids \cup {Nil}] /\ Nil \notin Ids
  BY UDPAssumption, ServedPoolAssumption DEF Types, Nil
<1>6. Listed' = Listed \cup {i}
  BY <1>1, <1>2, <1>3, <1>4, <1>5, Zenon DEF Listed
<1>7. /\ On(b)' = On(b) \cup {i} /\ i \notin On(b)
      /\ Busy(b)' = Busy(b) \cup {i} /\ i \notin Busy(b)
      /\ \A x \in Backends \ {b} : On(x)' = On(x) /\ Busy(x)' = Busy(x)
  <2>1. object'[i].backend = b /\ ~object'[i].idle /\ Listed \subseteq Ids
    BY <1>1, <1>2, <1>5 DEF Listed
  <2>2. \A j \in Listed : object'[j] = object[j]
    BY <1>1, <1>2, <1>5 DEF Listed
  <2> QED BY <1>2, <1>6, <2>1, <2>2 DEF On, Busy
<1>8. Readers' = Readers \cup {i} /\ i \notin Readers
  BY <1>1, <1>2, <1>5 DEF Readers
<1>9. \A x : /\ IsFiniteSet(On(x)) /\ Cardinality(On(x)) \in Nat
             /\ IsFiniteSet(Busy(x)) /\ Cardinality(Busy(x)) \in Nat
  <2>1. \A x : On(x) \subseteq Ids /\ Busy(x) \subseteq Ids
    BY DEF On, Busy, Listed
  <2> QED BY <2>1, SetsOfIds, Zenon
<1>10. /\ Cardinality(On(b)') = Cardinality(On(b)) + 1
       /\ Cardinality(Busy(b)') = Cardinality(Busy(b)) + 1
  BY <1>7, <1>9, FS_AddElement, Zenon
<1>11. Types'
  <2>1. object' \in [Ids -> Obj]
    <3>1. [backend |-> b, open |-> TRUE, reader |-> TRUE, idle |-> FALSE] \in Obj
      BY <1>b, Zenon DEF Obj
    <3> QED BY <1>1, <1>5, <3>1, Zenon
  <2>2. sessions' \in [Clients -> Ids \cup {Nil}]
    BY <1>1, <1>2, <1>5, Zenon
  <2>3. hand' \in [client : Clients \cup {Nil}, gen : Gens \cup {Nil}, session : Ids \cup {Nil}]
    BY <1>1, <1>2, Zenon DEF Types
  <2>4. count' \in [Gens -> [Backends -> Nat]] /\ gauge' \in [Backends -> Int]
    BY <1>1, <1>4, <1>b DEF Types
  <2>5. serve' \in {"new", "reading", "handling", "forwarding", "returned"}
    BY <1>3, Zenon
  <2> QED BY <1>3, <2>1, <2>2, <2>3, <2>4, <2>5, Zenon DEF Types, evicting, shutdown
<1>12. Loaded'
  <2>1. hand'.session = i
    BY <1>1, Zenon DEF Types
  <2> QED BY <1>2, <1>3, <2>1 DEF Loaded, evicting
<1>13. OpenListed'
  BY <1>1, <1>2, <1>5, <1>6, Zenon DEF OpenListed
<1>14. CloseOrder'
  <2>1. udpCloser = "none" /\ udpCloser' = "none" /\ udpClosing' = udpClosing /\ evictor' = evictor
    BY <1>3, Zenon DEF CloseOrder, shutdown, evicting
  <2>2. evictor # "new"
    BY Zenon DEF CloseOrder
  <2> QED BY <1>3, <2>1, <2>2 DEF CloseOrder
<1>15. GoroutinesCounted'
  <2>1. IsFiniteSet(Readers) /\ Cardinality(Readers) \in Nat
    BY SetsOfIds DEF Readers
  <2>2. Cardinality(Readers') = Cardinality(Readers) + 1
    BY <1>8, <2>1, FS_AddElement, Zenon
  <2>3. Evicting' = Evicting /\ Evicting \in {0, 1}
    BY <1>3 DEF Evicting, evicting
  <2> QED BY <1>3, <2>1, <2>2, <2>3 DEF GoroutinesCounted
<1>16. GaugeTrue'
  <2> SUFFICES ASSUME NEW x \in Backends
               PROVE  /\ gauge'[x] <= Cardinality(On(x)')
                      /\ x \notin cleaned => gauge'[x] = Cardinality(On(x)')
    BY <1>3, Zenon DEF GaugeTrue
  <2>1. gauge \in [Backends -> Int]
    BY Zenon DEF Types
  <2>2. gauge'[x] = IF x = b THEN gauge[x] + 1 ELSE gauge[x]
    BY <1>1, <1>b, <2>1, Zenon
  <2>3. Cardinality(On(x)') = IF x = b THEN Cardinality(On(x)) + 1 ELSE Cardinality(On(x))
    BY <1>7, <1>10, Zenon
  <2>4. gauge[x] <= Cardinality(On(x)) /\ (x \notin cleaned => gauge[x] = Cardinality(On(x)))
    BY Zenon DEF GaugeTrue
  <2>5. gauge[x] \in Int /\ Cardinality(On(x)) \in Nat
    BY <1>9, <2>1, Zenon
  <2> QED BY <2>2, <2>3, <2>4, <2>5
<1>17. CountsBelow'
  <2> SUFFICES ASSUME NEW x \in Backends
               PROVE  /\ \A g \in Gens : g > lb => count'[g][x] = 0
                      /\ count'[lb][x] <= Cardinality(On(x)')
                      /\ evictor = "scanning" /\ evictLb # lb
                           => count'[lb][x] <= Cardinality(Busy(x)')
    BY <1>3, Zenon DEF CountsBelow, evicting
  <2>0. lb \in Gens /\ lb \in Nat /\ Gens \subseteq Nat /\ count \in [Gens -> [Backends -> Nat]]
    <3>1. lb \in Gens /\ count \in [Gens -> [Backends -> Nat]]
      BY Zenon DEF Types
    <3> QED BY <3>1, UDPAssumption, ServedPoolAssumption
  <2>1. \A g \in Gens : g > lb => count'[g][x] = 0
    <3>1. \A g \in Gens : g > lb => count'[g] = count[g]
      BY <1>1, <1>4, <2>0
    <3> QED BY <3>1, Zenon DEF CountsBelow
  <2>2. count'[lb][x] = count[lb][x] \/ (x = b /\ count'[lb][x] = count[lb][x] + 1)
    BY <1>1, <1>4, <2>0
  <2>3. count[lb][x] \in Nat
    BY <2>0, Zenon
  <2>4. CASE x = b
    BY <1>9, <1>10, <2>1, <2>2, <2>3, <2>4 DEF CountsBelow
  <2>5. CASE x # b
    BY <1>7, <2>1, <2>2, <2>5, Zenon DEF CountsBelow
  <2> QED BY <2>4, <2>5, Zenon
<1> QED BY <1>11, <1>12, <1>13, <1>14, <1>15, <1>16, <1>17

-----------------------------------------------------------------------------
(* What the loop of evictExpired and of Close leaves of the table.         *)
LEMMA RemoveTable ==
  ASSUME IInv, NEW removed \in SUBSET Listed, NEW g \in Gens, Remove(removed, g), cleaned' = cleaned
  PROVE  /\ Listed' = Listed \ removed /\ Readers' = Readers
         /\ object' \in [Ids -> Obj] /\ sessions' \in [Clients -> Ids \cup {Nil}]
         /\ count' \in [Gens -> [Backends -> Nat]] /\ gauge' \in [Backends -> Int]
         /\ OpenListed' /\ GaugeTrue'
         /\ \A x \in Backends :
              /\ On(x)' = On(x) \ removed
              /\ Ended(x, removed) \in Nat /\ Cardinality(On(x)') \in Nat
              /\ Cardinality(On(x)') = Cardinality(On(x)) - Ended(x, removed)
<1> USE DEF IInv, SessionInv
<1>1. /\ object' = [i \in Ids |-> IF i \in removed
                              THEN [Free EXCEPT !.reader = object[i].reader] ELSE object[i]]
      /\ sessions' = [c \in Clients |-> IF sessions[c] \in removed THEN Nil ELSE sessions[c]]
      /\ count' = [count EXCEPT ![g] = [b \in Backends |-> Minus(@[b], Ended(b, removed))]]
      /\ gauge' = [b \in Backends |-> gauge[b] - Ended(b, removed)]
  BY Zenon DEF Remove
<1>2. object \in [Ids -> Obj] /\ sessions \in [Clients -> Ids \cup {Nil}]
      /\ count \in [Gens -> [Backends -> Nat]] /\ gauge \in [Backends -> Int]
      /\ Nil \notin Ids /\ Listed \subseteq Ids
  BY UDPAssumption, ServedPoolAssumption DEF Types, Nil, Listed
<1>3. Listed' = Listed \ removed
  BY <1>1, <1>2, Zenon DEF Listed
<1>4. \A i \in Ids : /\ object'[i] \in Obj
                     /\ i \notin removed => object'[i].backend = object[i].backend
                     /\ object'[i].reader = object[i].reader
                     /\ object'[i].open => object[i].open /\ i \notin removed
  <2> SUFFICES ASSUME NEW i \in Ids
               PROVE  /\ object'[i] \in Obj
                      /\ i \notin removed => object'[i].backend = object[i].backend
                      /\ object'[i].reader = object[i].reader
                      /\ object'[i].open => object[i].open /\ i \notin removed
    BY Zenon
  <2>1. object[i] \in Obj
    BY <1>2
  <2>2. CASE i \in removed
    <3>1. object'[i] = [Free EXCEPT !.reader = object[i].reader]
      BY <1>1, <2>2
    <3>2. Free \in Obj /\ ~Free.open
      BY DEF Free, Obj
    <3>3. object[i].reader \in BOOLEAN
      BY <2>1, Zenon DEF Obj
    <3>4. object'[i] \in Obj /\ object'[i].open = Free.open /\ object'[i].reader = object[i].reader
      BY <3>1, <3>2, <3>3, Zenon DEF Obj
    <3> QED BY <2>2, <3>2, <3>4, Zenon
  <2>3. CASE i \notin removed
    <3>1. object'[i] = object[i]
      BY <1>1, <2>3
    <3> QED BY <2>1, <2>3, <3>1, Zenon
  <2> QED BY <2>2, <2>3, Zenon
<1>5. object' \in [Ids -> Obj]
  BY <1>1, <1>4
<1>6. sessions' \in [Clients -> Ids \cup {Nil}]
  BY <1>1, <1>2
<1>7. Readers' = Readers /\ OpenListed'
  BY <1>3, <1>4, Zenon DEF Readers, OpenListed
<1>8. ASSUME NEW x \in Backends
      PROVE  /\ On(x)' = On(x) \ removed
             /\ Ended(x, removed) \in Nat /\ Cardinality(On(x)') \in Nat
             /\ Cardinality(On(x)') = Cardinality(On(x)) - Ended(x, removed)
  <2>1. On(x)' = On(x) \ removed
    BY <1>2, <1>3, <1>4, Zenon DEF On
  <2>2. {i \in removed : object[i].backend = x} = On(x) \cap removed
    BY Zenon DEF On
  <2>3. On(x) \subseteq Ids /\ On(x) \cap removed \subseteq Ids
    BY <1>2, Zenon DEF On
  <2>4. IsFiniteSet(On(x)) /\ Cardinality(On(x) \cap removed) \in Nat
        /\ Cardinality(On(x) \ removed) \in Nat
    BY <2>3, SetsOfIds
  <2>5. Cardinality(On(x) \ removed) = Cardinality(On(x))
                                             - Cardinality(On(x) \cap removed)
    BY <2>4, FS_Difference, Zenon
  <2> QED BY <2>1, <2>2, <2>4, <2>5, Zenon DEF Ended
<1>9. gauge' \in [Backends -> Int] /\ GaugeTrue'
  <2>1. gauge' \in [Backends -> Int]
    BY <1>1, <1>2, <1>8
  <2>2. ASSUME NEW x \in Backends
        PROVE  /\ gauge'[x] <= Cardinality(On(x)')
               /\ x \notin cleaned => gauge'[x] = Cardinality(On(x)')
    <3>1. gauge'[x] = gauge[x] - Ended(x, removed) /\ gauge[x] \in Int
      BY <1>1, <1>2, Zenon
    <3>2. gauge[x] <= Cardinality(On(x)) /\ (x \notin cleaned => gauge[x] = Cardinality(On(x)))
      BY Zenon DEF GaugeTrue
    <3>3. Cardinality(On(x)) \in Nat
      BY SetsOfIds DEF On, Listed
    <3> QED BY <1>8, <3>1, <3>2, <3>3
  <2> QED BY <2>1, <2>2, Zenon DEF GaugeTrue
<1>10. count' \in [Gens -> [Backends -> Nat]]
  <2>1. [b \in Backends |-> Minus(count[g][b], Ended(b, removed))] \in [Backends -> Nat]
    BY <1>2, <1>8 DEF Minus
  <2> QED BY <1>1, <1>2, <2>1, Zenon
<1> QED BY <1>3, <1>5, <1>6, <1>7, <1>8, <1>9, <1>10

(* evictExpired: on the pool's balancer it takes what it removes; on an    *)
(* older one it takes nothing from the pool's, which counts only the busy. *)
LEMMA EvictInv ==
  ASSUME IInv, evictExpired
  PROVE  SessionInv'
<1> USE DEF IInv, SessionInv
<1> DEFINE removed == {i \in Listed : object[i].idle}
<1>1. /\ evictor = "scanning" /\ Remove(removed, evictLb)
      /\ evictor' = "waiting" /\ evictLb' = Nil
      /\ UNCHANGED <<lb, cleaned, serving, udpWg, shutdown>>
  BY Zenon DEF evictExpired, update
<1>2. evictLb \in Gens /\ evictLb <= lb /\ lb \in Nat /\ Gens \subseteq Nat /\ lb \in Gens
  BY <1>1, UDPAssumption, ServedPoolAssumption DEF Loaded, Types
<1>3. /\ Listed' = Listed \ removed /\ Readers' = Readers
      /\ object' \in [Ids -> Obj] /\ sessions' \in [Clients -> Ids \cup {Nil}]
      /\ count' \in [Gens -> [Backends -> Nat]] /\ gauge' \in [Backends -> Int]
      /\ OpenListed' /\ GaugeTrue'
      /\ \A x \in Backends :
           /\ On(x)' = On(x) \ removed
           /\ Ended(x, removed) \in Nat /\ Cardinality(On(x)') \in Nat
           /\ Cardinality(On(x)') = Cardinality(On(x)) - Ended(x, removed)
  BY <1>1, <1>2, RemoveTable, Zenon
<1>4. count' = [count EXCEPT ![evictLb] = [b \in Backends |-> Minus(@[b], Ended(b, removed))]]
  BY <1>1 DEF Remove
<1> HIDE DEF removed
<1>5. Types'
  <2>1. evictor' \in {"new", "waiting", "scanning", "returned"} /\ evictLb' \in Gens \cup {Nil}
    BY <1>1, Zenon
  <2> QED BY <1>1, <1>3, <2>1, Zenon DEF Types, serving, shutdown
<1>6. Loaded'
  BY <1>1 DEF Loaded, serving
<1>7. CloseOrder'
  <2>1. Listed = {} => Listed' = {}
    BY <1>3, Zenon
  <2> QED BY <1>1, <2>1, Zenon DEF CloseOrder, serving, shutdown
<1>8. GoroutinesCounted'
  BY <1>1, <1>3, Zenon DEF GoroutinesCounted, Evicting
<1>9. CountsBelow'
  <2> SUFFICES ASSUME NEW x \in Backends
               PROVE  /\ \A g \in Gens : g > lb => count'[g][x] = 0
                      /\ count'[lb][x] <= Cardinality(On(x)')
    BY <1>1, Zenon DEF CountsBelow
  <2>0. count \in [Gens -> [Backends -> Nat]] /\ count[lb][x] \in Nat
    BY <1>2 DEF Types
  <2>1. \A g \in Gens : g > lb => count'[g][x] = 0
    <3>1. \A g \in Gens : g > lb => count'[g] = count[g]
      BY <1>2, <1>4, <2>0
    <3> QED BY <3>1, Zenon DEF CountsBelow
  <2>2. CASE evictLb = lb
    <3>1. count'[lb][x] = Minus(count[lb][x], Ended(x, removed))
      BY <1>2, <1>4, <2>0, <2>2, Zenon
    <3>2. count[lb][x] <= Cardinality(On(x)) /\ Cardinality(On(x)) \in Int
      <4>1. On(x) \subseteq Ids
        BY Zenon DEF On, Listed
      <4> QED BY <4>1, SetsOfIds DEF CountsBelow
    <3> QED BY <1>3, <2>0, <2>1, <3>1, <3>2 DEF Minus
  <2>3. CASE evictLb # lb
    <3>1. count'[lb] = count[lb]
      BY <1>2, <1>4, <2>0, <2>3
    <3>2. count[lb][x] <= Cardinality(Busy(x))
      BY <1>1, <2>3, Zenon DEF CountsBelow
    <3>3. Busy(x) \subseteq On(x)' /\ On(x)' \subseteq Ids
      BY <1>3, Zenon DEF Busy, On, Listed, removed
    <3>4. Cardinality(Busy(x)) <= Cardinality(On(x)') /\ Cardinality(Busy(x)) \in Nat
          /\ Cardinality(On(x)') \in Nat
      BY <3>3, SetsOfIds, FS_Subset, Zenon
    <3> QED BY <2>0, <2>1, <3>1, <3>2, <3>4
  <2> QED BY <2>2, <2>3
<1> QED BY <1>3, <1>5, <1>6, <1>7, <1>8, <1>9, Zenon

(* Close's sweep: nothing is left to count.                                *)
LEMMA SweepInv ==
  ASSUME IInv, CloseSweep
  PROVE  SessionInv'
<1> USE DEF IInv, SessionInv
<1>1. /\ udpCloser = "listener closed" /\ Remove(Listed, lb) /\ udpCloser' = "swept"
      /\ UNCHANGED <<lb, cleaned, serving, evicting, udpWg, bound, udpClosing>>
  BY Zenon DEF CloseSweep, update
<1>2. lb \in Nat /\ Gens \subseteq Nat /\ lb \in Gens
  BY UDPAssumption, ServedPoolAssumption DEF Types
<1>3. /\ Listed' = {} /\ Readers' = Readers
      /\ object' \in [Ids -> Obj] /\ sessions' \in [Clients -> Ids \cup {Nil}]
      /\ count' \in [Gens -> [Backends -> Nat]] /\ gauge' \in [Backends -> Int]
      /\ OpenListed' /\ GaugeTrue'
      /\ \A x \in Backends :
           /\ Ended(x, Listed) \in Nat /\ Cardinality(On(x)') \in Nat
           /\ Cardinality(On(x)') = Cardinality(On(x)) - Ended(x, Listed)
  BY <1>1, <1>2, RemoveTable, Zenon
<1>4. count' = [count EXCEPT ![lb] = [b \in Backends |-> Minus(@[b], Ended(b, Listed))]]
  BY <1>1, Zenon DEF Remove
<1>5. Types'
  <2>1. udpCloser' \in UDPStages
    BY <1>1, Zenon DEF UDPStages
  <2> QED BY <1>1, <1>3, <2>1, Zenon DEF Types, serving, evicting
<1>6. Loaded'
  BY <1>1, Zenon DEF Loaded, serving, evicting
<1>7. CloseOrder'
  BY <1>1, <1>3, Zenon DEF CloseOrder, serving, evicting
<1>8. GoroutinesCounted'
  BY <1>1, <1>3, Zenon DEF GoroutinesCounted, Evicting, evicting
<1>9. CountsBelow'
  <2> SUFFICES ASSUME NEW x \in Backends
               PROVE  /\ \A g \in Gens : g > lb => count'[g][x] = 0
                      /\ count'[lb][x] <= Cardinality(On(x)')
                      /\ count'[lb][x] <= Cardinality(Busy(x)')
    BY <1>1, Zenon DEF CountsBelow
  <2>0. count \in [Gens -> [Backends -> Nat]] /\ count[lb][x] \in Nat
    BY <1>2 DEF Types
  <2>1. \A g \in Gens : g > lb => count'[g][x] = 0
    <3>1. \A g \in Gens : g > lb => count'[g] = count[g]
      BY <1>2, <1>4, <2>0
    <3> QED BY <3>1, Zenon DEF CountsBelow
  <2>2. count'[lb][x] = Minus(count[lb][x], Ended(x, Listed))
    BY <1>2, <1>4, <2>0, Zenon
  <2>3. count[lb][x] <= Cardinality(On(x)) /\ Cardinality(On(x)) \in Int
    <3>1. On(x) \subseteq Ids
      BY Zenon DEF On, Listed
    <3> QED BY <3>1, SetsOfIds DEF CountsBelow
  <2>4. count'[lb][x] <= Cardinality(On(x)')
    BY <1>3, <2>0, <2>2, <2>3 DEF Minus
  <2>5. Busy(x)' = On(x)'
    BY <1>3, Zenon DEF Busy, On
  <2> QED BY <2>1, <2>4, <2>5
<1> QED BY <1>3, <1>5, <1>6, <1>7, <1>8, <1>9

-----------------------------------------------------------------------------
(* Every step keeps the invariant.                                         *)
LEMMA StepInv == IInv /\ [UDPNext]_udpVars => IInv'
<1> SUFFICES ASSUME IInv, [UDPNext]_udpVars PROVE SessionInv'
  BY PoolKept, Zenon DEF IInv
<1>1. CASE ServeUDP
  <2>1. CASE handleDatagram
    BY <2>1, ServeInv, NewSessionInv DEF handleDatagram
  <2> QED BY <1>1, <2>1, ServeInv, TouchInv, Zenon DEF ServeUDP
<1>2. CASE Evict
  BY <1>2, WaitingInv, EvictInv, Zenon DEF Evict
<1>3. CASE CloseUDP
  BY <1>3, WaitingInv, SweepInv DEF CloseUDP
<1>4. CASE UDPPoolStep
  BY <1>4, SwapInv, RebuildInv, Zenon DEF UDPPoolStep
<1>5. CASE \E c \in Clients : Receive(c)
  BY <1>5, ServeInv, Zenon
<1>6. CASE \E i \in Ids : Reply(i) \/ ReaderEnds(i) \/ BecomesIdle(i)
  BY <1>6, TouchInv
<1>7. CASE UNCHANGED udpVars
  <2>1. Listed' = Listed /\ Readers' = Readers
        /\ \A b : On(b)' = On(b) /\ Busy(b)' = Busy(b)
    BY <1>7, TableAlone, Zenon DEF udpVars, udpOwnVars
  <2>2. Types' /\ Loaded' /\ OpenListed'
    BY <1>7, <2>1 DEF IInv, SessionInv, udpVars, udpOwnVars, poolVars, Types, Loaded, OpenListed
  <2>3. CloseOrder' /\ GoroutinesCounted' /\ GaugeTrue' /\ CountsBelow'
    BY <1>7, <2>1, Zenon DEF IInv, SessionInv, udpVars, udpOwnVars, poolVars, CloseOrder, GoroutinesCounted, Evicting, GaugeTrue, CountsBelow
  <2> QED BY <2>2, <2>3, Zenon DEF SessionInv
<1> QED BY <1>1, <1>2, <1>3, <1>4, <1>5, <1>6, <1>7 DEF UDPNext

(* The invariant holds at every moment.                                    *)
LEMMA InvHolds == UDPSpec => []IInv
BY InitInv, StepInv, PTL DEF UDPSpec

(* Whatever datagrams, updates, evictions, failing readers and Close do to *)
(* each other, no socket is open that the table does not list, the         *)
(* balancer in use never counts more sessions on a backend than it has,    *)
(* and neither does the gauge (udp.go:228-391).                            *)
THEOREM SessionsAlwaysAccounted == UDPSpec => []SessionsAccounted
<1>1. ASSUME IInv PROVE SessionsAccounted
  <2> USE <1>1 DEF IInv, SessionInv
  <2>1. udpWg \in 0 .. Cardinality(Ids) + 1
    <3>1. Readers \subseteq Ids /\ IsFiniteSet(Ids) /\ Cardinality(Ids) \in Nat
      BY SetsOfIds, Zenon DEF Readers
    <3>2. Cardinality(Readers) \in Nat /\ Cardinality(Readers) <= Cardinality(Ids)
      BY <3>1, SetsOfIds, FS_Subset
    <3> QED BY <3>1, <3>2 DEF GoroutinesCounted, Evicting
  <2>2. UDPTypeOK
    BY <2>1, Zenon DEF Types, PoolTypes, UDPTypeOK, PoolTypeOK, Protocols, Obj
  <2> QED BY <2>2, Zenon DEF SessionsAccounted, OpenListed, CountsBelow, GaugeTrue
<1> QED BY <1>1, InvHolds, PTL

(* A Close that reports success left no entry, no socket, no goroutine and *)
(* nothing in a gauge whose series was never deleted, and no datagram      *)
(* brings a session back after it (udp.go:183-225).                        *)
THEOREM DrainedIsClosed == UDPSpec => []DrainedMeansClosed
<1>1. ASSUME IInv PROVE DrainedMeansClosed
  <2> SUFFICES ASSUME udpCloser = "drained"
               PROVE  /\ Listed = {} /\ evictor = "returned"
                      /\ \A i \in Ids : ~object[i].open /\ ~object[i].reader
                      /\ \A b \in Backends : gauge[b] <= 0 /\ (b \notin cleaned => gauge[b] = 0)
    BY DEF DrainedMeansClosed
  <2> USE <1>1 DEF IInv, SessionInv
  <2>1. Listed = {} /\ udpWg = 0 /\ serve # "new"
    BY DEF CloseOrder
  <2>2. IsFiniteSet(Readers) /\ Cardinality(Readers) \in Nat
    BY SetsOfIds, Zenon DEF Readers
  <2>3. Cardinality(Readers) = 0 /\ Evicting = 0
    BY <2>1, <2>2 DEF GoroutinesCounted, Evicting
  <2>4. Readers = {}
    BY <2>2, <2>3, FS_EmptySet, Zenon
  <2>5. evictor = "returned"
    BY <2>1, <2>3 DEF CloseOrder, Evicting, Types
  <2>6. \A i \in Ids : ~object[i].open /\ ~object[i].reader
    BY <2>1, <2>4, Zenon DEF OpenListed, Readers
  <2>7. \A b \in Backends : gauge[b] <= 0 /\ (b \notin cleaned => gauge[b] = 0)
    <3>1. \A b : On(b) = {}
      BY <2>1, Zenon DEF On
    <3>2. Cardinality({}) = 0
      BY FS_EmptySet, Zenon
    <3> QED BY <3>1, <3>2, Zenon DEF GaugeTrue
  <2> QED BY <2>1, <2>5, <2>6, <2>7
<1> QED BY <1>1, InvHolds, PTL

-----------------------------------------------------------------------------
(* The rate limiter.                                                       *)

(* A client that has no bucket will find a full one.                       *)
AbsentIsFull == \A c \in IPs : c \notin known => tokens[c] = Capacity /\ age[c] = 0

LimiterInv == LimiterTypeOK /\ AbsentIsFull /\ BudgetKept

(* What the budget says of one bucket: t tokens at a lastTime a ago, d due *)
(* and s of slack.                                                         *)
Within(t, a, d, s) ==
  /\ d <= Least(Capacity, t + a)
  /\ IdleTTL + 1 >= Capacity => Least(Capacity, t + a) <= d + s

(* The refill a call with a clock w old makes.                             *)
Refill(t, a, w) == IF a > w THEN Least(Capacity, t + (a - w)) ELSE t

(* A refill stays within the capacity and takes nothing away.              *)
LEMMA RefillRange ==
  ASSUME NEW t \in 0 .. Capacity, NEW a \in Nat, NEW w \in Nat
  PROVE  Refill(t, a, w) \in 0 .. Capacity
BY LimiterAssumption DEF Refill, Least

(* A call debits a bucket and its budget by the same token, and is off by  *)
(* its delay at most (bucket.allow).                                       *)
LEMMA DebitWithin ==
  ASSUME NEW t \in 0 .. Capacity, NEW a \in Nat, NEW w \in Nat,
         NEW d \in 0 .. Capacity, NEW s \in 0 .. Capacity,
         Within(t, a, d, s), Refill(t, a, w) >= Token
  PROVE  Within(Refill(t, a, w) - Token, w, Most(0, d - Token), Least(Capacity, s + w))
BY LimiterAssumption DEF Refill, Least, Most, Within

(* A refused call moves lastTime and debits nothing.                       *)
LEMMA RefusalWithin ==
  ASSUME NEW t \in 0 .. Capacity, NEW a \in Nat, NEW w \in Nat,
         NEW d \in 0 .. Capacity, NEW s \in 0 .. Capacity,
         Within(t, a, d, s), ~(Refill(t, a, w) >= Token)
  PROVE  Within(Refill(t, a, w), w, d, Least(Capacity, s + w))
BY LimiterAssumption DEF Refill, Least, Within

(* Time adds as much to the bucket as to the budget.                       *)
LEMMA TickWithin ==
  ASSUME NEW t \in 0 .. Capacity, NEW a \in 0 .. AgeCap,
         NEW d \in 0 .. Capacity, NEW s \in 0 .. Capacity,
         Within(t, a, d, s)
  PROVE  Within(t, Least(AgeCap, a + 1), Least(Capacity, d + 1), s)
BY LimiterAssumption DEF Least, Within, AgeCap

(* A full bucket stays one.                                                *)
LEMMA FullWithin ==
  ASSUME NEW d \in 0 .. Capacity, NEW s \in 0 .. Capacity, Within(Capacity, 0, d, s)
  PROVE  Within(Capacity, 0, Least(Capacity, d + 1), s)
BY LimiterAssumption DEF Least, Within

(* Deleting a bucket that is idle for IdleTTL is filling it up (evict).    *)
LEMMA EvictionWithin ==
  ASSUME NEW t \in 0 .. Capacity, NEW a \in Nat, NEW w \in Nat, a - w > IdleTTL,
         NEW d \in 0 .. Capacity, NEW s \in 0 .. Capacity,
         Within(t, a, d, s)
  PROVE  Within(Capacity, 0, d, s)
BY LimiterAssumption DEF Least, Within

(* A refusal with a clock w old means there was no token w ago.            *)
LEMMA RefusalMeansEmpty ==
  ASSUME NEW t \in 0 .. Capacity, NEW a \in Nat, NEW w \in Nat,
         NEW d \in 0 .. Capacity, NEW s \in 0 .. Capacity,
         Within(t, a, d, s), ~(Refill(t, a, w) >= Token)
  PROVE  d - w < Token
BY LimiterAssumption DEF Refill, Least, Within

(* The budget of all clients is the budget of each.                        *)
LEMMA BudgetOfEach ==
  BudgetKept <=> \A c \in IPs : Within(tokens[c], age[c], due[c], slack[c])
BY DEF BudgetKept, Within, Holds

-----------------------------------------------------------------------------
(* Every client begins with a full budget.                                 *)
LEMMA InitLimiter == LimiterInit => LimiterInv
<1> SUFFICES ASSUME LimiterInit PROVE LimiterInv
  BY Zenon
<1>1. LimiterTypeOK
  BY LimiterAssumption DEF LimiterInit, LimiterTypeOK, AgeCap
<1>2. AbsentIsFull
  BY Zenon DEF LimiterInit, AbsentIsFull
<1>3. BudgetKept
  <2>1. ASSUME NEW c \in IPs
        PROVE  tokens[c] = Capacity /\ age[c] = 0 /\ due[c] = Capacity /\ slack[c] = 0
    BY Zenon DEF LimiterInit
  <2>2. Within(Capacity, 0, Capacity, 0)
    BY LimiterAssumption DEF Within, Least
  <2> QED BY <2>1, <2>2, BudgetOfEach, Zenon
<1> QED BY <1>1, <1>2, <1>3, Zenon DEF LimiterInv

(* Allow under the lock: the caller's client is debited or refused, the    *)
(* other buckets are left alone.                                           *)
LEMMA AllowInv ==
  ASSUME LimiterInv, NEW g \in Callers, Allow(g)
  PROVE  LimiterInv'
<1> DEFINE c == call[g].client
           w == call[g].delay
           r == Refilled(c, w)
           admit == r >= Token
<1>1. c \in IPs /\ w \in 0 .. MaxDelay
  BY Zenon DEF LimiterInv, LimiterTypeOK, Allow
<1>2. /\ tokens[c] \in 0 .. Capacity /\ age[c] \in 0 .. AgeCap
      /\ due[c] \in 0 .. Capacity /\ slack[c] \in 0 .. Capacity
  BY <1>1, Zenon DEF LimiterInv, LimiterTypeOK
<1>3. age[c] \in Nat /\ w \in Nat /\ w <= AgeCap
  BY <1>1, <1>2, LimiterAssumption DEF AgeCap
<1>4. r = Refill(tokens[c], age[c], w)
  BY Zenon DEF Refilled, Refill
<1>5. r \in 0 .. Capacity
  BY <1>2, <1>3, <1>4, RefillRange, Zenon
<1>6. /\ tokens' = [tokens EXCEPT ![c] = r - (IF admit THEN Token ELSE 0)]
      /\ age' = [age EXCEPT ![c] = w]
      /\ known' = known \cup {c}
      /\ due' = IF admit THEN [due EXCEPT ![c] = Most(0, due[c] - Token)] ELSE due
      /\ slack' = [slack EXCEPT ![c] = Least(Capacity, slack[c] + w)]
      /\ call' = [call EXCEPT ![g] = [client |-> NoIP, delay |-> 0,
                                      answer |-> IF admit THEN "admitted" ELSE "refused"]]
      /\ UNCHANGED <<sweeper, stopper>>
  BY Zenon DEF Allow
<1> HIDE DEF c, w, r
<1>7. LimiterTypeOK'
  <2>1. known' \in SUBSET IPs
    BY <1>1, <1>6 DEF LimiterInv, LimiterTypeOK
  <2>2. r - (IF admit THEN Token ELSE 0) \in 0 .. Capacity
    BY <1>5, LimiterAssumption
  <2>3. tokens' \in [IPs -> 0 .. Capacity]
    BY <1>1, <1>6, <2>2, Zenon DEF LimiterInv, LimiterTypeOK
  <2>4. age' \in [IPs -> 0 .. AgeCap]
    BY <1>1, <1>3, <1>6 DEF LimiterInv, LimiterTypeOK
  <2>5. call' \in [Callers -> [client : IPs \cup {NoIP}, delay : 0 .. MaxDelay,
                               answer : {"none", "admitted", "refused"}]]
    <3>1. [client |-> NoIP, delay |-> 0, answer |-> IF admit THEN "admitted" ELSE "refused"]
            \in [client : IPs \cup {NoIP}, delay : 0 .. MaxDelay,
                 answer : {"none", "admitted", "refused"}]
      BY LimiterAssumption
    <3> QED BY <3>1, <1>6, Zenon DEF LimiterInv, LimiterTypeOK
  <2>6. Most(0, due[c] - Token) \in 0 .. Capacity
    BY <1>2, LimiterAssumption DEF Most
  <2>7. due' \in [IPs -> 0 .. Capacity]
    BY <1>1, <1>6, <2>6, Zenon DEF LimiterInv, LimiterTypeOK
  <2>8. Least(Capacity, slack[c] + w) \in 0 .. Capacity
    BY <1>2, <1>3, LimiterAssumption DEF Least
  <2>9. slack' \in [IPs -> 0 .. Capacity]
    BY <1>1, <1>6, <2>8, Zenon DEF LimiterInv, LimiterTypeOK
  <2> QED BY <2>1, <2>3, <2>4, <2>5, <2>7, <2>9, <1>6, Zenon DEF LimiterInv, LimiterTypeOK
<1>8. AbsentIsFull'
  BY <1>1, <1>6, Zenon DEF LimiterInv, LimiterTypeOK, AbsentIsFull
<1>9. Within(tokens[c], age[c], due[c], slack[c])
  BY <1>1, BudgetOfEach, Zenon DEF LimiterInv
<1>10. Within(tokens'[c], age'[c], due'[c], slack'[c])
  <2>1. age'[c] = w /\ slack'[c] = Least(Capacity, slack[c] + w)
    BY <1>1, <1>6, Zenon DEF LimiterInv, LimiterTypeOK
  <2>2. CASE admit
    <3>1. tokens'[c] = r - Token /\ due'[c] = Most(0, due[c] - Token)
      BY <1>1, <1>6, <2>2, Zenon DEF LimiterInv, LimiterTypeOK
    <3>2. Within(r - Token, w, Most(0, due[c] - Token), Least(Capacity, slack[c] + w))
      BY <1>2, <1>3, <1>4, <1>9, <2>2, DebitWithin, Zenon
    <3> QED BY <2>1, <3>1, <3>2, Zenon
  <2>3. CASE ~admit
    <3>1. tokens'[c] = r /\ due'[c] = due[c]
      BY <1>1, <1>5, <1>6, <2>3 DEF LimiterInv, LimiterTypeOK
    <3>2. Within(r, w, due[c], Least(Capacity, slack[c] + w))
      BY <1>2, <1>3, <1>4, <1>9, <2>3, RefusalWithin, Zenon
    <3> QED BY <2>1, <3>1, <3>2, Zenon
  <2> QED BY <2>2, <2>3, Zenon
<1>11. ASSUME NEW x \in IPs, x # c
       PROVE  Within(tokens'[x], age'[x], due'[x], slack'[x])
  <2>1. tokens'[x] = tokens[x] /\ age'[x] = age[x] /\ due'[x] = due[x] /\ slack'[x] = slack[x]
    BY <1>11, <1>6, Zenon DEF LimiterInv, LimiterTypeOK
  <2> QED BY <2>1, BudgetOfEach, Zenon DEF LimiterInv
<1>12. BudgetKept'
  BY <1>10, <1>11, Zenon DEF BudgetKept, Within, Holds
<1> QED BY <1>7, <1>8, <1>12, Zenon DEF LimiterInv

(* Evict: a bucket that goes is one that has filled up, if it could.       *)
LEMMA EvictLimiter ==
  ASSUME LimiterInv, NEW c \in IPs, EvictShard(c)
  PROVE  LimiterInv'
<1>1. /\ tokens[c] \in 0 .. Capacity /\ age[c] \in Nat /\ sweeper.delay \in Nat
      /\ due[c] \in 0 .. Capacity /\ slack[c] \in 0 .. Capacity
  BY LimiterAssumption DEF LimiterInv, LimiterTypeOK, AgeCap
<1>2. /\ known' \in SUBSET IPs /\ tokens' \in [IPs -> 0 .. Capacity]
      /\ age' \in [IPs -> 0 .. AgeCap]
  BY LimiterAssumption DEF EvictShard, LimiterInv, LimiterTypeOK, AgeCap, buckets
<1>3. sweeper' \in [stage : {"waiting", "sweeping", "returned"}, delay : 0 .. MaxDelay,
                    left : SUBSET IPs]
  <2>1. CASE sweeper.left = {c}
    BY <2>1, LimiterAssumption DEF EvictShard
  <2>2. CASE sweeper.left # {c}
    BY <2>2, Zenon DEF EvictShard, LimiterInv, LimiterTypeOK
  <2> QED BY <2>1, <2>2
<1>4. LimiterTypeOK'
  BY <1>2, <1>3 DEF EvictShard, LimiterInv, LimiterTypeOK
<1>5. AbsentIsFull'
  BY DEF EvictShard, LimiterInv, LimiterTypeOK, AbsentIsFull, buckets
<1>6. Within(tokens'[c], age'[c], due'[c], slack'[c])
  <2>1. due' = due /\ slack' = slack
    BY Zenon DEF EvictShard
  <2>2. CASE IdleSince(c, sweeper.delay)
    <3>1. tokens'[c] = Capacity /\ age'[c] = 0
      BY <2>2 DEF EvictShard, LimiterInv, LimiterTypeOK
    <3>2. age[c] - sweeper.delay > IdleTTL
      BY <2>2, Zenon DEF IdleSince
    <3>3. Within(tokens[c], age[c], due[c], slack[c])
      BY BudgetOfEach, Zenon DEF LimiterInv
    <3> QED BY <1>1, <2>1, <3>1, <3>2, <3>3, EvictionWithin, Zenon
  <2>3. CASE ~IdleSince(c, sweeper.delay)
    BY <2>1, <2>3, BudgetOfEach, Zenon DEF EvictShard, LimiterInv, buckets
  <2> QED BY <2>2, <2>3, Zenon
<1>7. ASSUME NEW x \in IPs, x # c
      PROVE  Within(tokens'[x], age'[x], due'[x], slack'[x])
  <2>1. tokens'[x] = tokens[x] /\ age'[x] = age[x] /\ due'[x] = due[x] /\ slack'[x] = slack[x]
    BY <1>7, Zenon DEF EvictShard, LimiterInv, LimiterTypeOK, buckets
  <2> QED BY <2>1, BudgetOfEach, Zenon DEF LimiterInv
<1>8. BudgetKept'
  BY <1>6, <1>7, Zenon DEF BudgetKept, Within, Holds
<1> QED BY <1>4, <1>5, <1>8, Zenon DEF LimiterInv

(* Tick: every bucket and every budget grow alike.                         *)
LEMMA TickInv ==
  ASSUME LimiterInv, Tick
  PROVE  LimiterInv'
<1>1. /\ known' = known /\ tokens' = tokens /\ stopper' = stopper /\ slack' = slack
      /\ age' = [c \in IPs |-> IF c \in known THEN Least(AgeCap, age[c] + 1) ELSE 0]
      /\ due' = [c \in IPs |-> Least(Capacity, due[c] + 1)]
  BY Zenon DEF Tick
<1>2. call' \in [Callers -> [client : IPs \cup {NoIP}, delay : 0 .. MaxDelay,
                             answer : {"none", "admitted", "refused"}]]
  <2>1. ASSUME NEW g \in Callers
        PROVE  (IF call[g].client = NoIP THEN call[g] ELSE [call[g] EXCEPT !.delay = @ + 1])
                 \in [client : IPs \cup {NoIP}, delay : 0 .. MaxDelay,
                      answer : {"none", "admitted", "refused"}]
    <3>1. CASE call[g].client = NoIP
      BY <3>1 DEF LimiterInv, LimiterTypeOK
    <3>2. CASE call[g].client # NoIP
      <4>1. call[g].delay + 1 \in 0 .. MaxDelay
        BY <3>2, LimiterAssumption DEF Tick, LimiterInv, LimiterTypeOK
      <4> QED BY <3>2, <4>1 DEF LimiterInv, LimiterTypeOK
    <3> QED BY <3>1, <3>2
  <2> QED BY <2>1, Zenon DEF Tick
<1>3. sweeper' \in [stage : {"waiting", "sweeping", "returned"}, delay : 0 .. MaxDelay,
                    left : SUBSET IPs]
  BY LimiterAssumption DEF Tick, LimiterInv, LimiterTypeOK
<1>4. ASSUME NEW c \in IPs
      PROVE  /\ Least(AgeCap, age[c] + 1) \in 0 .. AgeCap
             /\ Least(Capacity, due[c] + 1) \in 0 .. Capacity
  BY LimiterAssumption DEF LimiterInv, LimiterTypeOK, AgeCap, Least
<1>5. age' \in [IPs -> 0 .. AgeCap] /\ due' \in [IPs -> 0 .. Capacity]
  <2>1. 0 \in 0 .. AgeCap
    BY LimiterAssumption DEF AgeCap
  <2> QED BY <1>1, <1>4, <2>1, Zenon
<1>6. LimiterTypeOK'
  BY <1>1, <1>2, <1>3, <1>5, Zenon DEF LimiterInv, LimiterTypeOK
<1>7. AbsentIsFull'
  BY <1>1, Zenon DEF LimiterInv, AbsentIsFull
<1>8. ASSUME NEW c \in IPs
      PROVE  Within(tokens'[c], age'[c], due'[c], slack'[c])
  <2>1. /\ tokens[c] \in 0 .. Capacity /\ age[c] \in 0 .. AgeCap
        /\ due[c] \in 0 .. Capacity /\ slack[c] \in 0 .. Capacity
    BY Zenon DEF LimiterInv, LimiterTypeOK
  <2>2. Within(tokens[c], age[c], due[c], slack[c])
    BY BudgetOfEach, Zenon DEF LimiterInv
  <2>3. tokens'[c] = tokens[c] /\ due'[c] = Least(Capacity, due[c] + 1) /\ slack'[c] = slack[c]
    BY <1>1, Zenon
  <2>4. CASE c \in known
    <3>1. age'[c] = Least(AgeCap, age[c] + 1)
      BY <1>1, <2>4, Zenon
    <3> QED BY <2>1, <2>2, <2>3, <3>1, TickWithin, Zenon
  <2>5. CASE c \notin known
    <3>1. tokens[c] = Capacity /\ age[c] = 0 /\ age'[c] = 0
      BY <1>1, <2>5, Zenon DEF LimiterInv, AbsentIsFull
    <3> QED BY <2>1, <2>2, <2>3, <3>1, FullWithin, Zenon
  <2> QED BY <2>4, <2>5, Zenon
<1>9. BudgetKept'
  BY <1>8, Zenon DEF BudgetKept, Within, Holds
<1> QED BY <1>6, <1>7, <1>9 DEF LimiterInv

(* A step that leaves the buckets and the budgets alone.                   *)
LEMMA QuietInv ==
  ASSUME LimiterInv, UNCHANGED <<buckets, due, slack>>, LimiterTypeOK'
  PROVE  LimiterInv'
BY Zenon DEF LimiterInv, buckets, AbsentIsFull, BudgetKept, Holds

(* Every step of the limiter keeps the invariant.                          *)
LEMMA StepLimiter == LimiterInv /\ [LimiterNext]_limiterVars => LimiterInv'
<1> SUFFICES ASSUME LimiterInv, [LimiterNext]_limiterVars PROVE LimiterInv'
  BY Zenon
<1>1. ASSUME NEW g \in Callers, Allow(g) PROVE LimiterInv'
  BY <1>1, AllowInv, Zenon
<1>2. ASSUME NEW g \in Callers, NEW c \in IPs, ReadClock(g, c) PROVE LimiterInv'
  <2>1. [client |-> c, delay |-> 0, answer |-> "none"]
          \in [client : IPs \cup {NoIP}, delay : 0 .. MaxDelay,
               answer : {"none", "admitted", "refused"}]
    BY LimiterAssumption
  <2>2. LimiterTypeOK'
    BY <1>2, <2>1, Zenon DEF LimiterInv, LimiterTypeOK, ReadClock, buckets
  <2> QED BY <1>2, <2>2, QuietInv, Zenon DEF ReadClock
<1>3. ASSUME NEW c \in IPs, EvictShard(c) PROVE LimiterInv'
  BY <1>3, EvictLimiter, Zenon
<1>4. CASE Sweep
  <2>1. LimiterTypeOK'
    BY <1>4, LimiterAssumption DEF LimiterInv, LimiterTypeOK, Sweep, buckets
  <2> QED BY <1>4, <2>1, QuietInv, Zenon DEF Sweep
<1>5. CASE Stop
  <2>1. LimiterTypeOK'
    BY <1>5 DEF LimiterInv, LimiterTypeOK, Stop, buckets
  <2> QED BY <1>5, <2>1, QuietInv, Zenon DEF Stop
<1>6. CASE SweeperReturns
  <2>1. LimiterTypeOK'
    BY <1>6, Zenon DEF LimiterInv, LimiterTypeOK, SweeperReturns, buckets
  <2> QED BY <1>6, <2>1, QuietInv DEF SweeperReturns
<1>7. CASE StopReturns
  <2>1. LimiterTypeOK'
    BY <1>7, Zenon DEF LimiterInv, LimiterTypeOK, StopReturns, buckets
  <2> QED BY <1>7, <2>1, QuietInv, Zenon DEF StopReturns
<1>8. CASE Tick
  BY <1>8, TickInv, Zenon
<1>9. CASE UNCHANGED limiterVars
  <2>1. LimiterTypeOK'
    BY <1>9 DEF LimiterInv, LimiterTypeOK, limiterVars
  <2> QED BY <1>9, <2>1, QuietInv, Zenon DEF limiterVars, buckets
<1> QED BY <1>1, <1>2, <1>3, <1>4, <1>5, <1>6, <1>7, <1>8, <1>9, Zenon DEF LimiterNext

-----------------------------------------------------------------------------
(* Every client's bucket follows its budget, whatever the interleaving of  *)
(* Allow, evict and the clock: nothing earned is lost, and nothing is      *)
(* given beyond the callers' delays (limiter.go:60-135).                   *)
THEOREM BudgetAlwaysKept == LimiterSpec => []BudgetKept
<1>1. LimiterInit => LimiterInv
  BY InitLimiter
<1>2. LimiterInv /\ [LimiterNext]_limiterVars => LimiterInv'
  BY StepLimiter
<1>3. LimiterInv => BudgetKept
  BY DEF LimiterInv
<1> QED BY <1>1, <1>2, <1>3, PTL DEF LimiterSpec

(* Allow refuses only a client whose budget held no token at the time the  *)
(* caller read (limiter.go:86-102).                                        *)
THEOREM RefusalsDeserved == LimiterSpec => RefusalDeserved
<1>1. LimiterInv /\ [LimiterNext]_limiterVars =>
        [\A g \in Callers :
           /\ call[g].client # NoIP /\ call'[g].client = NoIP
           /\ call'[g].answer = "refused"
           => due[call[g].client] - call[g].delay < Token]_limiterVars
  <2> SUFFICES ASSUME LimiterInv, LimiterNext, NEW g \in Callers,
                      call[g].client # NoIP, call'[g].client = NoIP,
                      call'[g].answer = "refused"
               PROVE  due[call[g].client] - call[g].delay < Token
    BY Zenon
  <2>1. ASSUME NEW h \in Callers, Allow(h) PROVE due[call[g].client] - call[g].delay < Token
    <3>1. h = g
      BY <2>1, Zenon DEF Allow, LimiterInv, LimiterTypeOK
    <3> DEFINE c == call[g].client
               w == call[g].delay
    <3>2. /\ c \in IPs /\ w \in Nat /\ tokens[c] \in 0 .. Capacity /\ age[c] \in Nat
          /\ due[c] \in 0 .. Capacity /\ slack[c] \in 0 .. Capacity
      BY LimiterAssumption DEF LimiterInv, LimiterTypeOK, AgeCap
    <3>3. Within(tokens[c], age[c], due[c], slack[c])
      BY <3>2, BudgetOfEach, Zenon DEF LimiterInv
    <3>4. ~(Refilled(c, w) >= Token)
      BY <2>1, <3>1 DEF Allow, LimiterInv, LimiterTypeOK
    <3>5. ~(Refill(tokens[c], age[c], w) >= Token)
      BY <3>4, Zenon DEF Refilled, Refill
    <3> QED BY <3>2, <3>3, <3>5, RefusalMeansEmpty, Zenon
  <2>2. ASSUME NEW h \in Callers, NEW c \in IPs, ReadClock(h, c) PROVE FALSE
    BY <2>2, LimiterAssumption, Zenon DEF ReadClock, LimiterInv, LimiterTypeOK
  <2>3. CASE Tick
    BY <2>3 DEF Tick, LimiterInv, LimiterTypeOK
  <2>4. CASE \E c \in IPs : EvictShard(c)
    BY <2>4 DEF EvictShard
  <2>5. CASE Sweep \/ Stop \/ SweeperReturns \/ StopReturns
    BY <2>5, Zenon DEF Sweep, Stop, SweeperReturns, StopReturns
  <2> QED BY <2>1, <2>2, <2>3, <2>4, <2>5, Zenon DEF LimiterNext
<1>2. LimiterInit => LimiterInv
  BY InitLimiter
<1>3. LimiterInv /\ [LimiterNext]_limiterVars => LimiterInv'
  BY StepLimiter
<1> QED BY <1>1, <1>2, <1>3, PTL DEF LimiterSpec, RefusalDeserved

-----------------------------------------------------------------------------
(* The relay of one connection.                                            *)

(* The relay of one connection.  What the invariant adds to NothingLost:   *)
(* a goroutine that is about to write holds a chunk that was sent; the     *)
(* ClientHello to replay counts as sent and not yet moved; a deadline is   *)
(* set once, so that a connection that has run into it stays expired; and  *)
(* a direction that has ended on unbroken connections has moved            *)
(* everything, before its destination is told of the end.                  *)
Moving(d) ==
  /\ moved[d] <= sent[Src(d)]
  /\ copy[d] = "writing" => moved[d] < sent[Src(d)]
  /\ copy[d] = "starting" => elapsed[Dst(d)] = Unset
  /\ eof[Dst(d)] \/ returned => copy[d] = "done"
  /\ copy[d] \in {"closing", "done"} /\ Unbroken => Delivered(d)

RelayInv ==
  /\ RelayTypeOK
  /\ buffered > 0 => moved["up"] < sent["client"] /\ copy["up"] \in {"starting", "reading"}
  /\ \A d \in Dirs : Moving(d)

(* The two directions have different sources and destinations.             *)
LEMMA EndsOfADirection ==
  ASSUME NEW d \in Dirs
  PROVE  /\ Src(d) \in Sides /\ Dst(d) \in Sides
         /\ \A e \in Dirs : e # d => Src(e) # Src(d) /\ Dst(e) # Dst(d)
         /\ d = "up" <=> Src(d) = "client"
  BY Zenon DEF Dirs, Sides, Src, Dst

(* Another chunk sent leaves what has been moved behind.                   *)
LEMMA SentGrows == \A m, k \in Nat : \A l \in {k, k + 1} : m <= k => m <= l /\ (m < k => m < l)
  BY SMT

(* The relay's invariant at the start.                                     *)
LEMMA InitRelay == RelayInit => RelayInv
<1> SUFFICES ASSUME RelayInit PROVE RelayInv
  BY Zenon
<1>1. buffered \in 0 .. 1 /\ sent \in [Sides -> 0 .. Chunks] /\ timeout \in Nat
  BY RelayAssumption DEF RelayInit, Sides
<1>2. RelayTypeOK
  <2>1. elapsed \in [Sides -> Unset .. timeout] /\ moved \in [Dirs -> 0 .. Chunks]
    BY <1>1, RelayAssumption DEF RelayInit, Unset
  <2>2. unread \in [Sides -> 0 .. Window] /\ quiet \in 0 .. timeout
    BY <1>1, RelayAssumption DEF RelayInit
  <2> QED BY <1>1, <2>1, <2>2, Zenon DEF RelayInit, RelayTypeOK
<1>3. ASSUME NEW d \in Dirs PROVE Moving(d)
  BY <1>1, EndsOfADirection DEF RelayInit, Moving, Unset
<1>4. buffered > 0 => moved["up"] < sent["client"] /\ copy["up"] \in {"starting", "reading"}
  BY <1>1, Zenon DEF RelayInit, Sides, Dirs
<1> QED BY <1>2, <1>3, <1>4 DEF RelayInv

(* What the two ends do.                                                   *)
LEMMA EndsStep ==
  ASSUME RelayInv, NEW s \in Sides,
         Send(s) \/ Finish(s) \/ Consume(s) \/ Break(s)
  PROVE  RelayInv'
<1>1. CASE Send(s)
  <2>1. sent' = [sent EXCEPT ![s] = sent[s] + 1] /\ sent[s] \in 0 .. Chunks - 1
    BY <1>1, RelayAssumption DEF Send, RelayInv, RelayTypeOK
  <2>2. \A t \in Sides : sent'[t] = IF t = s THEN sent[t] + 1 ELSE sent[t]
    BY <2>1, Zenon DEF RelayInv, RelayTypeOK
  <2>3. sent' \in [Sides -> 0 .. Chunks]
    BY <2>1, RelayAssumption DEF RelayInv, RelayTypeOK
  <2>4. RelayTypeOK'
    BY <1>1, <2>3, Zenon DEF Send, config, clock, RelayInv, RelayTypeOK
  <2>5. ASSUME NEW d \in Dirs PROVE Moving(d)'
    <3>1. Unbroken' = Unbroken
      BY <1>1, Zenon DEF Send, config, clock, Unbroken, Expired
    <3>2. Src(d) \in Sides /\ moved[d] \in Nat /\ sent[Src(d)] \in Nat
      BY EndsOfADirection DEF RelayInv, RelayTypeOK
    <3>3. Delivered(d) => Delivered(d)'
      BY <1>1, <2>2, <3>2, Zenon DEF Send, Delivered
    <3>4. UNCHANGED <<moved, copy, elapsed, eof, returned>> /\ Moving(d)
      BY <1>1, Zenon DEF Send, clock, RelayInv
    <3>5. sent'[Src(d)] \in {sent[Src(d)], sent[Src(d)] + 1}
      BY <2>2, <3>2, Zenon
    <3>6. /\ moved'[d] <= sent'[Src(d)]
          /\ copy'[d] = "writing" => moved'[d] < sent'[Src(d)]
      <4>1. moved[d] <= sent[Src(d)] /\ (copy[d] = "writing" => moved[d] < sent[Src(d)])
        BY <3>4, Zenon DEF Moving
      <4>2. moved'[d] = moved[d] /\ copy'[d] = copy[d]
        BY <3>4, Zenon
      <4>3. moved[d] <= sent'[Src(d)] /\ (moved[d] < sent[Src(d)] => moved[d] < sent'[Src(d)])
        BY <3>2, <3>5, <4>1, SentGrows, Zenon
      <4> QED BY <4>1, <4>2, <4>3, Zenon
    <3> QED BY <3>1, <3>3, <3>4, <3>6, Zenon DEF Moving, Unset
  <2>6. buffered > 0 => moved["up"] < sent'["client"]
    BY <2>2 DEF RelayInv, RelayTypeOK, Sides, Dirs
  <2> QED BY <1>1, <2>4, <2>5, <2>6, Zenon DEF RelayInv, Send
<1>2. CASE Finish(s) \/ Break(s)
  <2>1. RelayTypeOK'
    BY <1>2, Zenon DEF Finish, Break, config, clock, RelayInv, RelayTypeOK
  <2>2. /\ Unbroken' => Unbroken
        /\ \A d \in Dirs : Delivered(d) => Delivered(d)'
    BY <1>2, EndsOfADirection
       DEF Finish, Break, config, clock, RelayInv, RelayTypeOK, Unbroken, Expired, Delivered
  <2>3. UNCHANGED <<buffered, sent, moved, copy, elapsed, eof, returned>>
    BY <1>2, Zenon DEF Finish, Break, clock
  <2> QED BY <2>1, <2>2, <2>3, Zenon DEF RelayInv, Moving, Unset
<1>3. CASE Consume(s)
  <2>1. unread' \in [Sides -> 0 .. Window]
    <3>1. unread \in [Sides -> 0 .. Window] /\ Window \in Nat
      BY RelayAssumption DEF RelayInv, RelayTypeOK
    <3> QED BY <1>3, <3>1 DEF Consume
  <2>2. RelayTypeOK'
    BY <1>3, <2>1, Zenon DEF Consume, config, peers, clock, RelayInv, RelayTypeOK
  <2> QED BY <1>3, <2>2, Zenon DEF Consume, config, peers, clock, RelayInv, Moving, Unbroken,
              Expired, Delivered, Unset
<1> QED BY <1>1, <1>2, <1>3, Zenon

(* Time passes: what has expired stays expired.                            *)
LEMMA TickStep ==
  ASSUME RelayInv, DeadlineTick
  PROVE  RelayInv'
<1>1. \A s \in Sides : elapsed'[s] = IF elapsed[s] \in 0 .. timeout - 1 THEN elapsed[s] + 1 ELSE elapsed[s]
  BY Zenon DEF DeadlineTick
<1>2. timeout \in Nat /\ \A s \in Sides : elapsed[s] \in Unset .. timeout
  BY RelayAssumption DEF RelayInv, RelayTypeOK
<1>3. elapsed' \in [Sides -> Unset .. timeout]
  BY <1>2 DEF DeadlineTick, Unset
<1>a. quiet' \in 0 .. timeout
  <2>1. quiet \in 0 .. timeout
    BY Zenon DEF RelayInv, RelayTypeOK
  <2> QED BY <1>2, <2>1 DEF DeadlineTick
<1>4. RelayTypeOK'
  BY <1>3, <1>a, Zenon DEF DeadlineTick, config, peers, clock, RelayInv, RelayTypeOK
<1>5. Unbroken' => Unbroken
  BY <1>1, <1>2 DEF DeadlineTick, config, peers, clock, Unbroken, Expired, Unset
<1>6. ASSUME NEW d \in Dirs, elapsed[Dst(d)] = Unset PROVE elapsed'[Dst(d)] = Unset
  BY <1>1, <1>6, EndsOfADirection DEF Unset
<1> QED BY <1>4, <1>5, <1>6, Zenon DEF RelayInv, Moving, DeadlineTick, config, peers, clock, Delivered

(* A goroutine of relay takes a step.  A direction's own step is the only  *)
(* one that changes its stage and its count; it never mends a connection.  *)
LEMMA CopyStep ==
  ASSUME RelayInv, NEW d \in Dirs, Copy(d)
  PROVE  RelayInv'
<1> DEFINE src == Src(d)
           dst == Dst(d)
<1>1. /\ src \in Sides /\ dst \in Sides
      /\ \A e \in Dirs : e # d => Dst(e) # dst
  BY EndsOfADirection, Zenon
<1>2. /\ timeout \in Nat
      /\ moved[d] \in 0 .. Chunks /\ sent[src] \in 0 .. Chunks /\ Chunks \in Nat
  BY <1>1, RelayAssumption DEF RelayInv, RelayTypeOK
<1>3. Moving(d) /\ \A e \in Dirs : Moving(e)
  BY Zenon DEF RelayInv
<1>4. CASE SetDeadline(d)
  <2>1. elapsed' = [elapsed EXCEPT ![dst] = IF timeout > 0 THEN 0 ELSE elapsed[dst]]
    BY <1>4, Zenon DEF SetDeadline
  <2>2. elapsed' \in [Sides -> Unset .. timeout]
    BY <1>1, <1>2, <2>1 DEF RelayInv, RelayTypeOK, Unset
  <2>3. RelayTypeOK'
    BY <1>4, <2>2, Zenon DEF SetDeadline, config, peers, clock, RelayInv, RelayTypeOK
  <2>4. elapsed[dst] = Unset
    BY <1>3, <1>4, Zenon DEF Moving, SetDeadline
  <2>5. Unbroken' => Unbroken
    BY <1>1, <1>2, <1>4, <2>1, <2>4
       DEF SetDeadline, config, peers, clock, Unbroken, Expired, Unset, RelayInv, RelayTypeOK
  <2>6. /\ copy'[d] = "reading"
        /\ \A e \in Dirs : e # d => copy'[e] = copy[e] /\ elapsed'[Dst(e)] = elapsed[Dst(e)]
    BY <1>1, <1>4, <2>1 DEF SetDeadline, RelayInv, RelayTypeOK
  <2>7. ASSUME NEW e \in Dirs PROVE Moving(e)'
    BY <1>3, <1>4, <2>5, <2>6, Zenon
       DEF SetDeadline, config, peers, clock, Moving, Delivered, Unset
  <2>8. buffered' > 0 => moved'["up"] < sent'["client"] /\ copy'["up"] \in {"starting", "reading"}
    BY <1>4, <2>6, Zenon DEF SetDeadline, config, peers, clock, RelayInv, Dirs
  <2> QED BY <2>3, <2>7, <2>8, Zenon DEF RelayInv
<1>5. CASE Read(d)
  <2>1. RelayTypeOK'
    BY <1>5 DEF Read, config, peers, clock, RelayInv, RelayTypeOK
  <2>2. /\ copy'[d] = "writing" /\ copy[d] = "reading"
        /\ \A e \in Dirs : e # d => copy'[e] = copy[e]
    BY <1>5, Zenon DEF Read, RelayInv, RelayTypeOK
  <2>3. moved[d] < sent[src]
    BY <1>2, <1>5 DEF Read, Replays, Pending, Src, RelayInv
  <2>4. Unbroken' = Unbroken
    BY <1>5, Zenon DEF Read, config, peers, clock, Unbroken, Expired
  <2>5. ASSUME NEW e \in Dirs PROVE Moving(e)'
    BY <1>3, <1>5, <2>2, <2>3, <2>4, Zenon
       DEF Read, config, peers, clock, Moving, Delivered, Unset
  <2>6. buffered' > 0 => moved'["up"] < sent'["client"] /\ copy'["up"] \in {"starting", "reading"}
    BY <1>5, <2>2 DEF Read, Replays, config, peers, clock, RelayInv, Dirs, RelayTypeOK
  <2> QED BY <2>1, <2>5, <2>6, Zenon DEF RelayInv
<1>6. CASE ReadEnds(d)
  <2>1. RelayTypeOK'
    BY <1>6, Zenon DEF ReadEnds, config, peers, clock, RelayInv, RelayTypeOK
  <2>2. /\ copy'[d] = "closing" /\ copy[d] = "reading"
        /\ \A e \in Dirs : e # d => copy'[e] = copy[e]
    BY <1>6, Zenon DEF ReadEnds, RelayInv, RelayTypeOK
  <2>3. Unbroken => Delivered(d)
    <3>1. Unbroken => fin[src] /\ Pending(d) = 0
      BY <1>1, <1>6, Zenon DEF ReadEnds, Usable, Unbroken
    <3>2. Pending(d) = 0 => moved[d] = sent[src]
      BY <1>2 DEF Pending
    <3> QED BY <3>1, <3>2, Zenon DEF Delivered
  <2>4. Unbroken' = Unbroken
    BY <1>6, Zenon DEF ReadEnds, config, peers, clock, Unbroken, Expired
  <2>5. ASSUME NEW e \in Dirs PROVE Moving(e)'
    BY <1>3, <1>6, <2>2, <2>3, <2>4, Zenon
       DEF ReadEnds, config, peers, clock, Moving, Delivered, Unset
  <2>6. buffered' > 0 => moved'["up"] < sent'["client"] /\ copy'["up"] \in {"starting", "reading"}
    BY <1>6, <2>2, Zenon DEF ReadEnds, Replays, config, peers, clock, RelayInv, Dirs
  <2> QED BY <2>1, <2>5, <2>6 DEF RelayInv
<1>7. CASE Write(d)
  <2>1. copy[d] = "writing" /\ moved[d] < sent[src]
    BY <1>3, <1>7, Zenon DEF Write, Moving
  <2>2. \/ /\ moved' = [moved EXCEPT ![d] = moved[d] + 1]
           /\ copy' = [copy EXCEPT ![d] = "reading"]
        \/ /\ ~Usable(dst)
           /\ copy' = [copy EXCEPT ![d] = "closing"] /\ moved' = moved
    BY <1>7, Zenon DEF Write
  <2>3. moved' \in [Dirs -> 0 .. Chunks]
    BY <1>2, <2>1, <2>2 DEF RelayInv, RelayTypeOK
  <2>a. unread' \in [Sides -> 0 .. Window] /\ quiet' \in 0 .. timeout
    <3>1. /\ unread \in [Sides -> 0 .. Window] /\ quiet \in 0 .. timeout
          /\ Window \in Nat /\ timeout \in Nat
      BY <1>2, RelayAssumption DEF RelayInv, RelayTypeOK
    <3> QED BY <1>1, <1>7, <3>1 DEF Write
  <2>b. copy' \in [Dirs -> {"starting", "reading", "writing", "closing", "done"}]
    BY <2>2, Zenon DEF RelayInv, RelayTypeOK
  <2>4. RelayTypeOK'
    BY <1>7, <2>a, <2>b, <2>3, Zenon DEF Write, config, peers, clock, RelayInv, RelayTypeOK
  <2>5. Unbroken' = Unbroken
    BY <1>7, Zenon DEF Write, config, peers, clock, Unbroken, Expired
  <2>6. /\ \/ copy'[d] = "reading"
           \/ copy'[d] = "closing" /\ ~Unbroken
        /\ moved'[d] <= sent[src]
        /\ \A e \in Dirs : e # d => copy'[e] = copy[e] /\ moved'[e] = moved[e]
    BY <1>1, <1>2, <2>1, <2>2 DEF Usable, Unbroken, RelayInv, RelayTypeOK
  <2>7. ASSUME NEW e \in Dirs PROVE Moving(e)'
    BY <1>3, <1>7, <2>1, <2>5, <2>6, Zenon
       DEF Write, config, peers, clock, Moving, Delivered, Unset
  <2>8. buffered' > 0 => moved'["up"] < sent'["client"] /\ copy'["up"] \in {"starting", "reading"}
    BY <1>7, <2>1, <2>6, Zenon DEF Write, config, peers, clock, RelayInv, Dirs
  <2> QED BY <2>4, <2>7, <2>8 DEF RelayInv
<1>8. CASE CloseWrite(d)
  <2>1. RelayTypeOK'
    BY <1>1, <1>8, Zenon DEF CloseWrite, config, peers, clock, RelayInv, RelayTypeOK
  <2>2. /\ copy'[d] = "done" /\ copy[d] = "closing"
        /\ \A e \in Dirs : e # d => copy'[e] = copy[e] /\ eof'[Dst(e)] = eof[Dst(e)]
    BY <1>1, <1>8 DEF CloseWrite, RelayInv, RelayTypeOK
  <2>3. Unbroken' = Unbroken
    BY <1>8, Zenon DEF CloseWrite, config, peers, clock, Unbroken, Expired
  <2>4. ASSUME NEW e \in Dirs PROVE Moving(e)'
    BY <1>3, <1>8, <2>2, <2>3, Zenon
       DEF CloseWrite, config, peers, clock, Moving, Delivered, Unset
  <2>5. buffered' > 0 => moved'["up"] < sent'["client"] /\ copy'["up"] \in {"starting", "reading"}
    BY <1>8, <2>2, Zenon DEF CloseWrite, config, peers, clock, RelayInv, Dirs
  <2> QED BY <2>1, <2>4, <2>5 DEF RelayInv
<1> QED BY <1>4, <1>5, <1>6, <1>7, <1>8, Zenon DEF Copy

(* Every step keeps it.                                                    *)
LEMMA RelayStep == RelayInv /\ [RelayNext]_relayVars => RelayInv'
<1> SUFFICES ASSUME RelayInv, [RelayNext]_relayVars PROVE RelayInv'
  BY Zenon
<1>1. CASE \E d \in Dirs : Copy(d)
  BY <1>1, CopyStep, Zenon
<1>2. CASE \E s \in Sides : Send(s) \/ Finish(s) \/ Consume(s) \/ Break(s)
  BY <1>2, EndsStep, Zenon
<1>3. CASE Return
  BY <1>3, Zenon DEF Return, config, peers, clock, RelayInv, Moving, RelayTypeOK, Unbroken,
              Expired, Delivered, Unset
<1>4. CASE DeadlineTick
  BY <1>4, TickStep, Zenon
<1>5. CASE UNCHANGED relayVars
  BY <1>5, Zenon DEF relayVars, RelayInv, Moving, RelayTypeOK, Unbroken, Expired, Delivered, Unset
<1> QED BY <1>1, <1>2, <1>3, <1>4, <1>5, Zenon DEF RelayNext

(* relay loses nothing, whatever the number of chunks, the timeout and the *)
(* amount of data its ends leave unread (tcp.go:324-372).                  *)
THEOREM RelayLosesNothing == RelaySpec => []NothingLost
<1>1. RelayInit => RelayInv
  BY InitRelay, Zenon
<1>2. RelayInv /\ [RelayNext]_relayVars => RelayInv'
  BY RelayStep
<1>3. RelayInv => NothingLost
  BY Zenon DEF RelayInv, Moving, NothingLost
<1> QED BY <1>1, <1>2, <1>3, PTL DEF RelaySpec

=============================================================================
