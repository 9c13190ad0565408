--------------------------- MODULE RealtimeGateway ---------------------------
(***************************************************************************)
(* The WebSocket gateway with its subscriptions and the fan-out consumers  *)
(* (RealtimeGateway, SubscriptionService, FanoutConsumer).                 *)
(*                                                                         *)
(* Every handler is one synchronous callback of the Node process, so one   *)
(* step: a fan-out visits every subscription, the heartbeat every          *)
(* connection.  What interleaves is the order of the callbacks, the        *)
(* network draining the sockets, and peers that close, fail or go silent.  *)
(* A connection id is a fresh UUID: it is used once.                       *)
(***************************************************************************)
EXTENDS SendQueue, FiniteSets

CONSTANTS Conns,          \* connection ids
          BufferedLimit,  \* WS_BUFFERED_AMOUNT_LIMIT_BYTES, in messages
          MaxSerial,      \* bound: messages fanned out
          MaxBadMessages  \* bound: invalid client messages

ASSUME GatewayAssumption ==
  /\ IsFiniteSet(Conns)
  /\ BufferedLimit \in Nat \ {0}
  /\ MaxSerial \in Nat
  /\ MaxBadMessages \in Nat

\* A socket we closed ("shut") still hands over what arrives before the peer's close
\* frame; one that failed, was terminated, or got a close frame ("closing") does not.
Sockets == {"none", "open", "shut", "closing", "closed"}

VARIABLES
  up,          \* the gateway has not begun its shutdown
  connections, \* keys of the connections Map
  subscribed,  \* ids in SubscriptionService
  alive,       \* per connection: pong seen since the last heartbeat
  socket,      \* per connection: its state, see Sockets
  silent,      \* peers that vanished without a close
  queue,       \* per connection: its SendQueue
  buffered,    \* per connection: messages in ws.bufferedAmount
  active,      \* the ws_connections_active gauge
  serial,      \* messages fanned out so far
  bad,         \* invalid client messages so far
  sent,        \* history: per connection, stream messages given to ws.send
  offered,     \* history: per connection, messages fanned out to it
  evicted      \* history: per connection, positions the queue evicted

vars == <<up, connections, subscribed, alive, socket, silent, queue, buffered,
          active, serial, bad, sent, offered, evicted>>
histVars == <<sent, offered, evicted>>

TypeOK ==
  /\ up \in BOOLEAN
  /\ connections \subseteq Conns
  /\ subscribed \subseteq Conns
  /\ alive \in [Conns -> BOOLEAN]
  /\ socket \in [Conns -> Sockets]
  /\ silent \subseteq Conns
  /\ queue \in [Conns -> [positions : Seq(Message), others : Seq(Message)]]
  /\ buffered \in [Conns -> Nat]
  /\ active \in Int
  /\ serial \in 0..MaxSerial
  /\ bad \in 0..MaxBadMessages
  /\ sent \in [Conns -> Seq(Message)]
  /\ offered \in [Conns -> Seq(Message)]
  /\ evicted \in [Conns -> SUBSET Message]
  /\ \A c \in connections : socket[c] \in {"open", "closing"}

Init ==
  /\ up = TRUE
  /\ connections = {} /\ subscribed = {} /\ silent = {}
  /\ alive = [c \in Conns |-> FALSE]
  /\ socket = [c \in Conns |-> "none"]
  /\ queue = [c \in Conns |-> EmptyQueue]
  /\ buffered = [c \in Conns |-> 0]
  /\ active = 0 /\ serial = 0 /\ bad = 0
  /\ sent = [c \in Conns |-> <<>>]
  /\ offered = [c \in Conns |-> <<>>]
  /\ evicted = [c \in Conns |-> {}]

-----------------------------------------------------------------------------

\* Mutant: cleanup that does not look whether the connection is still there.
CleanupUnchecked(gone) ==
  /\ connections' = connections \ gone
  /\ subscribed' = subscribed \ gone
  /\ active' = active - Cardinality(gone)

\* cleanup, for each of the connections in gone that is still in the Map.
Cleanup(gone) ==
  LET there == gone \cap connections IN
  /\ connections' = connections \ there
  /\ subscribed' = subscribed \ there
  /\ active' = active - Cardinality(there)

\* handleConnection.
Connect(c) ==
  /\ up
  /\ socket[c] = "none"
  /\ socket' = [socket EXCEPT ![c] = "open"]
  /\ connections' = connections \cup {c}
  /\ alive' = [alive EXCEPT ![c] = TRUE]
  /\ active' = active + 1
  /\ UNCHANGED <<up, subscribed, silent, queue, buffered, serial, bad, histVars>>

\* The peer's frames are still read.
Readable(c) == socket[c] \in {"open", "shut"} /\ c \notin silent

\* A valid client message, whether the connection is still in the Map or not.
Subscribe(c) ==
  /\ Readable(c)
  /\ subscribed' = subscribed \cup {c}
  /\ UNCHANGED <<up, connections, alive, socket, silent, queue, buffered, active,
                 serial, bad, histVars>>

\* A client message that is no valid request: answered with an error, if open.
BadMessage(c) ==
  /\ Readable(c)
  /\ bad < MaxBadMessages
  /\ bad' = bad + 1
  /\ buffered' = IF socket[c] = "open" THEN [buffered EXCEPT ![c] = @ + 1] ELSE buffered
  /\ UNCHANGED <<up, connections, subscribed, alive, socket, silent, queue, active,
                 serial, histVars>>

\* ws.close().
Shut(c) == IF socket[c] = "open" THEN "shut" ELSE socket[c]

\* Mutant: flush without looking at bufferedAmount.
MayFlushAlways(c) == socket[c] = "open"

\* flush goes on to drain the queue.
MayFlush(c) == socket[c] = "open" /\ buffered[c] < BufferedLimit

\* FanoutConsumer's handler: enqueue for every subscription, in one callback.  A
\* refused message disconnects, after an error envelope if the socket is open; an
\* accepted one is flushed with the rest of its queue, or waits for the next one.
FanOut(v) ==
  LET msg == [vessel |-> v, serial |-> serial + 1]
      reached == subscribed \cap connections
      refused == {c \in reached : Refuses(queue[c], msg)}
      taken == reached \ refused
      flushed == {c \in taken : MayFlush(c)}
      after(c) == Enqueued(queue[c], msg) IN
  /\ serial < MaxSerial
  /\ serial' = serial + 1
  /\ queue' = [c \in Conns |-> IF c \in flushed THEN EmptyQueue
                               ELSE IF c \in taken THEN after(c) ELSE queue[c]]
  /\ sent' = [c \in Conns |-> IF c \in flushed THEN sent[c] \o Drained(after(c)) ELSE sent[c]]
  /\ buffered' = [c \in Conns |->
       IF c \in flushed THEN buffered[c] + Size(after(c))
       ELSE IF c \in refused /\ socket[c] = "open" THEN buffered[c] + 1
       ELSE buffered[c]]
  /\ offered' = [c \in Conns |-> IF c \in reached THEN Append(offered[c], msg) ELSE offered[c]]
  /\ evicted' = [c \in Conns |->
       IF c \in taken /\ Evicts(queue[c], msg)
         THEN evicted[c] \cup {Head(queue[c].positions)} ELSE evicted[c]]
  /\ socket' = [c \in Conns |-> IF c \in refused THEN Shut(c) ELSE socket[c]]
  /\ Cleanup(refused)
  /\ UNCHANGED <<up, alive, silent, bad>>

\* Mutant: a heartbeat that leaves the flag of those it pings as it was.
HeartbeatForgetful ==
  LET dead == {c \in connections : ~alive[c]} IN
  /\ up
  /\ socket' = [c \in Conns |-> IF c \in dead THEN "closing" ELSE socket[c]]
  /\ Cleanup(dead)
  /\ UNCHANGED <<up, alive, silent, queue, buffered, serial, bad, histVars>>

\* tickHeartbeat: those that did not answer the last ping are terminated, the
\* others are pinged.
Heartbeat ==
  LET dead == {c \in connections : ~alive[c]} IN
  /\ up
  /\ socket' = [c \in Conns |-> IF c \in dead THEN "closing" ELSE socket[c]]
  /\ alive' = [c \in Conns |-> alive[c] /\ c \notin connections]
  /\ Cleanup(dead)
  /\ UNCHANGED <<up, silent, queue, buffered, serial, bad, histVars>>

Pong(c) ==
  /\ Readable(c)
  /\ alive' = [alive EXCEPT ![c] = TRUE]
  /\ UNCHANGED <<up, connections, subscribed, socket, silent, queue, buffered, active,
                 serial, bad, histVars>>

\* The network takes a message off the socket's buffer.
Transmit(c) ==
  /\ buffered[c] > 0
  /\ Readable(c)
  /\ buffered' = [buffered EXCEPT ![c] = @ - 1]
  /\ UNCHANGED <<up, connections, subscribed, alive, socket, silent, queue, active,
                 serial, bad, histVars>>

\* The peer's close frame arrives; the 'close' event comes later.
PeerCloses(c) ==
  /\ Readable(c)
  /\ socket' = [socket EXCEPT ![c] = "closing"]
  /\ UNCHANGED <<up, connections, subscribed, alive, silent, queue, buffered, active,
                 serial, bad, histVars>>

\* The peer vanishes: no close frame, no pong, nothing read.
PeerVanishes(c) ==
  /\ socket[c] = "open"
  /\ silent' = silent \cup {c}
  /\ UNCHANGED <<up, connections, subscribed, alive, socket, queue, buffered, active,
                 serial, bad, histVars>>

\* The 'error' event, before 'close'.
SocketError(c) ==
  /\ socket[c] \in {"open", "shut"}
  /\ socket' = [socket EXCEPT ![c] = "closing"]
  /\ Cleanup({c})
  /\ UNCHANGED <<up, alive, silent, queue, buffered, serial, bad, histVars>>

\* Mutant: no 'close' listener.
SocketClosedUnheard(c) ==
  /\ socket[c] \in {"shut", "closing"}
  /\ socket' = [socket EXCEPT ![c] = "closed"]
  /\ UNCHANGED <<up, connections, subscribed, alive, silent, queue, buffered, active,
                 serial, bad, histVars>>

\* The 'close' event.
SocketClosed(c) ==
  /\ socket[c] \in {"shut", "closing"}
  /\ socket' = [socket EXCEPT ![c] = "closed"]
  /\ Cleanup({c})
  /\ UNCHANGED <<up, alive, silent, queue, buffered, serial, bad, histVars>>

\* onModuleDestroy: forgets the connections, without their cleanup.
Shutdown ==
  /\ up
  /\ up' = FALSE
  /\ socket' = [c \in Conns |-> IF c \in connections THEN Shut(c) ELSE socket[c]]
  /\ connections' = {}
  /\ UNCHANGED <<subscribed, alive, silent, queue, buffered, active, serial, bad, histVars>>

Next ==
  \/ \E c \in Conns :
       \/ Connect(c) \/ Subscribe(c) \/ BadMessage(c) \/ Pong(c) \/ Transmit(c)
       \/ PeerCloses(c) \/ PeerVanishes(c) \/ SocketError(c) \/ SocketClosed(c)
  \/ \E v \in Vessels \cup {NoVessel} : FanOut(v)
  \/ Heartbeat
  \/ Shutdown

Spec == Init /\ [][Next]_vars

\* The heartbeat interval keeps firing, and closed sockets report it.
FairSpec ==
  /\ Spec
  /\ WF_vars(Heartbeat)
  /\ \A c \in Conns : WF_vars(SocketClosed(c))

-----------------------------------------------------------------------------
(* Correctness.                                                            *)

\* A slow client holds a bounded queue, of at most one position per vessel
\* (SendQueue.enqueue under every mix of positions, statics and stalled sockets).
QueueBounded ==
  \A c \in Conns :
    /\ Size(queue[c]) <= MaxEntries
    /\ \A i, j \in DOMAIN queue[c].positions :
         queue[c].positions[i].vessel = queue[c].positions[j].vessel => i = j

\* What the connection was given and still holds.
Given(c) == sent[c] \o Drained(queue[c])

OthersIn(s) == {i \in DOMAIN s : IsOther(s[i])}

\* While a client stays connected no static or enrichment message is dropped or
\* overtaken by another, across evictions, stalled sockets and deferred flushes: what was
\* fanned out to it is given, in the order of the serial numbers, which is the fan-out's.
OthersInOrder ==
  \A c \in connections :
    LET g == Given(c)
        o == offered[c] IN
    /\ {g[i] : i \in OthersIn(g)} = {o[i] : i \in OthersIn(o)}
    /\ \A i, j \in OthersIn(g) : i < j => g[i].serial < g[j].serial

\* The positions of one vessel reach the client in fan-out order, and the newest one
\* is sent, queued or evicted, never lost to an older one it should have superseded.
NewestPositionWins ==
  \A c \in connections :
    LET g == Given(c)
        o == offered[c] IN
    /\ \A i, j \in DOMAIN g :
         i < j /\ IsPosition(g[i]) /\ g[i].vessel = g[j].vessel => g[i].serial < g[j].serial
    /\ \A i \in DOMAIN o :
         IsPosition(o[i]) /\ (\A j \in DOMAIN o : j > i => o[j].vessel # o[i].vessel)
           => o[i] \in evicted[c] \/ \E k \in DOMAIN g : g[k] = o[i]

\* One flush may overshoot the buffered limit by a queue and error envelopes, but a
\* stalled socket is not given more: memory per client stays bounded.
BufferBounded ==
  \A c \in Conns : buffered[c] < BufferedLimit + MaxEntries + 1 + MaxBadMessages

\* Overflow, socket errors, closes and heartbeats may all end one connection; the
\* gauge counts each end once.
GaugeAgrees == up => active = Cardinality(connections)

\* What a client costs is bounded and accounted for: its queue, the socket's buffer and the
\* gauge, however messages, stalls and the four ways to end a connection interleave.
ResourcesBounded == QueueBounded /\ BufferBounded /\ GaugeAgrees

\* realtime.md: an overflow "removes the subscription".  A message that arrives
\* between close() and the peer's close frame subscribes the dead id again, for good.
SubscriptionsLive ==
  up => \A c \in subscribed : socket[c] # "closed"

\* A peer that vanished without a close is dropped by the second heartbeat.
VanishedPeersLeave ==
  \A c \in Conns : (c \in connections /\ c \in silent) ~> (c \notin connections)
=============================================================================
