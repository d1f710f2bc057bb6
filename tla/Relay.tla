-------------------------------- MODULE Relay --------------------------------
(***************************************************************************)
(* relay of internal/proxy/l4/tcp.go: two goroutines, one per direction,   *)
(* that copy chunks between a client and a backend, close the write half   *)
(* of their destination when their source ends, and are both waited for.   *)
(* For TLS passthrough the client connection is wrapped in a bufferedConn, *)
(* which replays the ClientHello that the handler has already read and     *)
(* which is not a *net.TCPConn.                                            *)
(*                                                                         *)
(* A chunk is a number: TCP keeps a direction's chunks in order, so that   *)
(* how many have been moved says which.  A write blocks while the side it  *)
(* goes to leaves Window chunks unread.  The clock moves only where a      *)
(* timeout is configured, and no further than the timeout.                 *)
(***************************************************************************)
EXTENDS Integers

CONSTANTS
  Chunks,       \* how many chunks each side sends at most
  Window,       \* chunks a side may leave unread before writes to it block
  IdleTimeout   \* tcp_idle_timeout in ticks, where it is configured

ASSUME RelayAssumption ==
  Chunks \in Nat \ {0} /\ Window \in Nat \ {0} /\ IdleTimeout \in Nat \ {0}

VARIABLES
  wrapped,    \* the client's connection is a bufferedConn
  timeout,    \* relay's idleTimeout: 0 or IdleTimeout
  sent,       \* chunks each side has sent
  fin,        \* the side has closed its own write half
  gone,       \* the side's connection is broken
  unread,     \* chunks written to the side that it has not read
  buffered,   \* bufferedConn.remaining: the ClientHello still to replay
  copy,       \* what each direction's goroutine is doing
  moved,      \* chunks io.Copy has written to the direction's destination
  eof,        \* the write half towards the side has been closed
  elapsed,    \* ticks since the connection's deadline was set, or Unset
  quiet,      \* ticks since a chunk was last written, either way (history)
  returned    \* relay has returned, and handleConn closes both connections

config == <<wrapped, timeout>>
peers  == <<sent, fin, gone>>
clock  == <<elapsed, quiet>>
relayVars == <<wrapped, timeout, sent, fin, gone, unread, buffered, copy, moved, eof,
              elapsed, quiet, returned>>

Sides == {"client", "backend"}
Dirs  == {"up", "down"}
Src(d) == IF d = "up" THEN "client" ELSE "backend"
Dst(d) == IF d = "up" THEN "backend" ELSE "client"
Unset == -1

RelayTypeOK ==
  /\ wrapped \in BOOLEAN
  /\ timeout \in {0, IdleTimeout}
  /\ sent \in [Sides -> 0 .. Chunks]
  /\ fin \in [Sides -> BOOLEAN] /\ gone \in [Sides -> BOOLEAN]
  /\ unread \in [Sides -> 0 .. Window]
  /\ buffered \in 0 .. 1
  /\ copy \in [Dirs -> {"starting", "reading", "writing", "closing", "done"}]
  /\ moved \in [Dirs -> 0 .. Chunks]
  /\ eof \in [Sides -> BOOLEAN]
  /\ elapsed \in [Sides -> Unset .. timeout]
  /\ quiet \in 0 .. timeout
  /\ returned \in BOOLEAN

Expired(s) == timeout > 0 /\ elapsed[s] = timeout
Usable(s)  == ~gone[s] /\ ~Expired(s)

-----------------------------------------------------------------------------
(* A plain relay, or one of passthrough whose ClientHello was read.        *)
RelayInit ==
  /\ wrapped \in BOOLEAN
  /\ timeout \in {0, IdleTimeout}
  /\ buffered = (IF wrapped THEN 1 ELSE 0)
  /\ sent = [s \in Sides |-> IF s = "client" THEN buffered ELSE 0]
  /\ fin = [s \in Sides |-> FALSE] /\ gone = [s \in Sides |-> FALSE]
  /\ unread = [s \in Sides |-> 0]
  /\ copy = [d \in Dirs |-> "starting"]
  /\ moved = [d \in Dirs |-> 0]
  /\ eof = [s \in Sides |-> FALSE]
  /\ elapsed = [s \in Sides |-> Unset]
  /\ quiet = 0
  /\ returned = FALSE

(* What the two ends may do: send, close their write half, read, break.    *)
Send(s) ==
  /\ ~fin[s] /\ ~gone[s] /\ ~returned /\ sent[s] < Chunks
  /\ sent' = [sent EXCEPT ![s] = @ + 1]
  /\ UNCHANGED <<config, fin, gone, unread, buffered, copy, moved, eof, clock, returned>>

Finish(s) ==
  /\ ~fin[s] /\ ~gone[s] /\ ~returned
  /\ fin' = [fin EXCEPT ![s] = TRUE]
  /\ UNCHANGED <<config, sent, gone, unread, buffered, copy, moved, eof, clock, returned>>

Consume(s) ==
  /\ unread[s] > 0 /\ ~gone[s] /\ ~returned
  /\ unread' = [unread EXCEPT ![s] = @ - 1]
  /\ UNCHANGED <<config, peers, buffered, copy, moved, eof, clock, returned>>

Break(s) ==
  /\ ~gone[s] /\ ~returned
  /\ gone' = [gone EXCEPT ![s] = TRUE]
  /\ UNCHANGED <<config, sent, fin, unread, buffered, copy, moved, eof, clock, returned>>

DeadlineTick ==
  /\ timeout > 0 /\ ~returned
  /\ elapsed' = [s \in Sides |-> IF elapsed[s] \in 0 .. timeout - 1 THEN elapsed[s] + 1 ELSE elapsed[s]]
  /\ quiet' = IF quiet < timeout THEN quiet + 1 ELSE quiet
  /\ UNCHANGED <<config, peers, unread, buffered, copy, moved, eof, returned>>

-----------------------------------------------------------------------------
(* A goroutine starts: it sets a deadline, once, for the reads and the     *)
(* writes of its destination.                                              *)
SetDeadline(d) ==
  /\ copy[d] = "starting"
  /\ copy' = [copy EXCEPT ![d] = "reading"]
  /\ elapsed' = [elapsed EXCEPT ![Dst(d)] = IF timeout > 0 THEN 0 ELSE @]
  /\ UNCHANGED <<config, peers, unread, quiet, buffered, moved, eof, returned>>

Replays(d) == d = "up" /\ buffered > 0
Pending(d) == sent[Src(d)] - moved[d]

(* io.Copy reads a chunk: the replayed one first (bufferedConn.Read, which *)
(* needs no connection for it), then what the source has sent.             *)
Read(d) ==
  /\ copy[d] = "reading"
  /\ \/ Replays(d) /\ buffered' = 0
     \/ ~Replays(d) /\ Usable(Src(d)) /\ Pending(d) > 0 /\ UNCHANGED buffered
  /\ copy' = [copy EXCEPT ![d] = "writing"]
  /\ UNCHANGED <<config, peers, unread, moved, eof, clock, returned>>

(* io.Copy returns on the source's end, or on an error of its connection.  *)
ReadEnds(d) ==
  /\ copy[d] = "reading" /\ ~Replays(d)
  /\ ~Usable(Src(d)) \/ (fin[Src(d)] /\ Pending(d) = 0)
  /\ copy' = [copy EXCEPT ![d] = "closing"]
  /\ UNCHANGED <<config, peers, unread, buffered, moved, eof, clock, returned>>

(* io.Copy writes the chunk, which blocks while the destination's window   *)
(* is full, or returns because the write fails: the connection broke, or   *)
(* its deadline passed, perhaps while the write was blocked.               *)
Write(d) ==
  /\ copy[d] = "writing"
  /\ \/ /\ Usable(Dst(d)) /\ unread[Dst(d)] < Window
        /\ unread' = [unread EXCEPT ![Dst(d)] = @ + 1]
        /\ moved' = [moved EXCEPT ![d] = @ + 1]
        /\ quiet' = 0
        /\ copy' = [copy EXCEPT ![d] = "reading"]
     \/ /\ ~Usable(Dst(d))
        /\ copy' = [copy EXCEPT ![d] = "closing"]
        /\ UNCHANGED <<unread, moved, quiet>>
  /\ UNCHANGED <<config, peers, buffered, eof, elapsed, returned>>

(* A plausible slip: a destination is told of the end only after both      *)
(* directions have ended.                                                  *)
CloseWriteTogether(d) ==
  /\ copy[d] = "closing"
  /\ copy' = [copy EXCEPT ![d] = "done"]
  /\ eof' = IF \A e \in Dirs : copy[e] \in {"closing", "done"}
              THEN [s \in Sides |-> TRUE] ELSE eof
  /\ UNCHANGED <<config, peers, unread, buffered, moved, clock, returned>>

(* The write half of the destination is closed, if it is a *net.TCPConn,   *)
(* and the goroutine ends.                                                 *)
CloseWrite(d) ==
  /\ copy[d] = "closing"
  /\ copy' = [copy EXCEPT ![d] = "done"]
  /\ eof' = [eof EXCEPT ![Dst(d)] = ~(wrapped /\ Dst(d) = "client")]
  /\ UNCHANGED <<config, peers, unread, buffered, moved, clock, returned>>

(* A plausible slip: the first goroutine to end is enough.                 *)
ReturnEarly ==
  /\ \E d \in Dirs : copy[d] = "done"
  /\ ~returned /\ returned' = TRUE
  /\ UNCHANGED <<config, peers, unread, buffered, copy, moved, eof, clock>>

(* wg.Wait: both goroutines have ended.                                    *)
Return ==
  /\ \A d \in Dirs : copy[d] = "done"
  /\ ~returned /\ returned' = TRUE
  /\ UNCHANGED <<config, peers, unread, buffered, copy, moved, eof, clock>>

Copy(d) == SetDeadline(d) \/ Read(d) \/ ReadEnds(d) \/ Write(d) \/ CloseWrite(d)

RelayNext ==
  \/ \E d \in Dirs : Copy(d)
  \/ \E s \in Sides : Send(s) \/ Finish(s) \/ Consume(s) \/ Break(s)
  \/ Return \/ DeadlineTick

RelaySpec == RelayInit /\ [][RelayNext]_relayVars

(* Goroutines that can run do, a write that does not block among them, and *)
(* time passes.  Of the two ends only this is assumed: one that has been   *)
(* told of the other's end closes its own half some day.  That they read   *)
(* what is written to them is not assumed: RelayEnds says where it         *)
(* matters.                                                                *)
RelayFairness ==
  /\ \A d \in Dirs : WF_relayVars(Copy(d))
  /\ WF_relayVars(Return) /\ WF_relayVars(DeadlineTick)
  /\ \A s \in Sides : WF_relayVars(eof[s] /\ Finish(s))

FairRelaySpec == RelaySpec /\ RelayFairness

-----------------------------------------------------------------------------
Unbroken == \A s \in Sides : ~gone[s] /\ ~Expired(s)

Delivered(d) == fin[Src(d)] /\ moved[d] = sent[Src(d)]

(* Every variable has its type and, unless a connection broke or ran into  *)
(* its deadline, a side is told of the end of the other only when all that *)
(* the other sent has been written to it, the replayed ClientHello         *)
(* included; and relay returns, after which both connections are closed,   *)
(* only when both sides are through: the end of one direction does not cut *)
(* the other one off.                                                      *)
NothingLost ==
  /\ RelayTypeOK
  /\ Unbroken => \A d \in Dirs : eof[Dst(d)] \/ returned => Delivered(d)

BothKeepReading == \A s \in Sides : []<>(unread[s] = 0)

(* As long as both ends read what is written to them, relay returns once   *)
(* the client has closed its half, and for plain TCP also once the backend *)
(* has: the half-close is passed on to the other end, so that neither      *)
(* goroutine is left behind.  And where an idle timeout is configured it   *)
(* returns once nothing has been forwarded for that long, whether or not   *)
(* an end reads or closes: each goroutine sets the deadline that the other *)
(* one's reads, and its own writes, run into.                              *)
RelayEnds ==
  /\ BothKeepReading => /\ fin["client"] ~> returned
                        /\ (fin["backend"] /\ ~wrapped) ~> returned
  /\ (timeout > 0 /\ quiet = timeout) ~> returned

(* "The deadline resets whenever either direction forwards data, so this   *)
(* is an idle timeout - not a total connection lifetime cap" (relay's      *)
(* comment, and the README on tcp_idle_timeout): a deadline passes only    *)
(* when nothing has been forwarded for the whole timeout.                  *)
CutOnlyWhenIdle == \A s \in Sides : Expired(s) => quiet = timeout
=============================================================================
