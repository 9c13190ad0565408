---------------------------- MODULE RealtimeProofs ----------------------------
(***************************************************************************)
(* The WebSocket gateway and its send queues, for any number of            *)
(* connections, vessels and messages and any limits.                       *)
(***************************************************************************)
EXTENDS RealtimeGateway, TLAPS, FiniteSetTheorems, SequenceTheorems

LEMMA GatewayFacts ==
  /\ NoVessel \notin Vessels /\ MaxEntries \in Nat \ {0}
  /\ IsFiniteSet(Conns) /\ BufferedLimit \in Nat \ {0}
  /\ MaxSerial \in Nat /\ MaxBadMessages \in Nat
BY QueueAssumption, GatewayAssumption

-----------------------------------------------------------------------------
(***************************************************************************)
(* The send queue.                                                         *)
(***************************************************************************)

Queues == [positions : Seq(Message), others : Seq(Message)]

\* At most MaxEntries messages, at most one position per vessel, and each in its half.
Bounded(q) ==
  /\ Size(q) <= MaxEntries
  /\ \A i, j \in DOMAIN q.positions :
       q.positions[i].vessel = q.positions[j].vessel => i = j

Sorted(q) ==
  /\ \A i \in DOMAIN q.others : IsOther(q.others[i])
  /\ \A i \in DOMAIN q.positions : IsPosition(q.positions[i])

LEMMA EmptyQueueTyped ==
  /\ EmptyQueue \in Queues /\ Bounded(EmptyQueue) /\ Sorted(EmptyQueue)
  /\ Size(EmptyQueue) = 0
  /\ EmptyQueue.positions = <<>> /\ EmptyQueue.others = <<>>
BY GatewayFacts DEF EmptyQueue, Queues, Bounded, Sorted, Size

LEMMA QueueFacts ==
  ASSUME NEW q \in Queues
  PROVE  /\ q.positions \in Seq(Message) /\ q.others \in Seq(Message)
         /\ Len(q.positions) \in Nat /\ Len(q.others) \in Nat
         /\ DOMAIN q.positions = 1..Len(q.positions) /\ DOMAIN q.others = 1..Len(q.others)
         /\ Size(q) \in Nat
BY DEF Queues, Size

\* Map.set keeps the length or adds one, and replaces only the vessel's own position.
LEMMA PutTyped ==
  ASSUME NEW ps \in Seq(Message), NEW msg \in Message
  PROVE  /\ Put(ps, msg) \in Seq(Message)
         /\ IF \E i \in DOMAIN ps : ps[i].vessel = msg.vessel
              THEN /\ Len(Put(ps, msg)) = Len(ps)
                   /\ \A i \in DOMAIN ps :
                        Put(ps, msg)[i] = IF ps[i].vessel = msg.vessel THEN msg ELSE ps[i]
              ELSE /\ Len(Put(ps, msg)) = Len(ps) + 1
                   /\ \A i \in DOMAIN ps : Put(ps, msg)[i] = ps[i]
                   /\ Put(ps, msg)[Len(ps) + 1] = msg
<1>1. Len(ps) \in Nat /\ DOMAIN ps = 1..Len(ps)
  OBVIOUS
<1>2. CASE \E i \in DOMAIN ps : ps[i].vessel = msg.vessel
  <2> DEFINE f == [i \in 1..Len(ps) |-> IF ps[i].vessel = msg.vessel THEN msg ELSE ps[i]]
  <2>1. Put(ps, msg) = f
    BY <1>1, <1>2 DEF Put
  <2>2. f \in [1..Len(ps) -> Message]
    BY <1>1
  <2>3. f \in Seq(Message) /\ Len(f) = Len(ps)
    BY <1>1, <2>2, SeqDef
  <2>4. QED
    BY <1>1, <1>2, <2>1, <2>3
<1>3. CASE ~\E i \in DOMAIN ps : ps[i].vessel = msg.vessel
  BY <1>1, <1>3 DEF Put
<1>4. QED
  BY <1>2, <1>3

\* What the queue's positions are put into: all of them, or all but the evicted one.
Kept(q, msg) == IF Evicts(q, msg) THEN Tail(q.positions) ELSE q.positions

LEMMA KeptTyped ==
  ASSUME NEW q \in Queues, NEW msg \in Message
  PROVE  /\ Kept(q, msg) \in Seq(Message)
         /\ IF Evicts(q, msg)
              THEN /\ Len(q.positions) >= 1 /\ Len(Kept(q, msg)) = Len(q.positions) - 1
                   /\ \A i \in DOMAIN Kept(q, msg) :
                        i + 1 \in DOMAIN q.positions /\ Kept(q, msg)[i] = q.positions[i + 1]
                   /\ Head(q.positions) = q.positions[1] /\ 1 \in DOMAIN q.positions
                   /\ \A i \in DOMAIN q.positions : i # 1 =>
                        i - 1 \in DOMAIN Kept(q, msg) /\ Kept(q, msg)[i - 1] = q.positions[i]
                   /\ ~\E i \in DOMAIN Kept(q, msg) : Kept(q, msg)[i].vessel = msg.vessel
              ELSE Kept(q, msg) = q.positions
<1>1. q.positions \in Seq(Message) /\ Len(q.positions) \in Nat
      /\ DOMAIN q.positions = 1..Len(q.positions)
  BY QueueFacts
<1>2. CASE Evicts(q, msg)
  <2>1. q.positions # <<>> /\ \A i \in DOMAIN q.positions : q.positions[i].vessel # msg.vessel
    BY <1>2 DEF Evicts, Holds
  <2>2. /\ Tail(q.positions) \in Seq(Message) /\ Len(q.positions) >= 1
        /\ Len(Tail(q.positions)) = Len(q.positions) - 1
        /\ \A i \in 1..(Len(q.positions) - 1) : Tail(q.positions)[i] = q.positions[i + 1]
        /\ Head(q.positions) = q.positions[1]
    BY <1>1, <2>1
  <2>3. DOMAIN Tail(q.positions) = 1..(Len(q.positions) - 1)
    BY <1>1, <2>2
  <2>4. Kept(q, msg) = Tail(q.positions)
    BY <1>2 DEF Kept
  <2>5. QED
    BY <1>1, <1>2, <2>1, <2>2, <2>3, <2>4
<1>3. QED
  BY <1>1, <1>2 DEF Kept

LEMMA EnqueuedParts ==
  ASSUME NEW q \in Queues, NEW msg \in Message
  PROVE  IF IsOther(msg)
           THEN /\ Enqueued(q, msg).positions = q.positions
                /\ Enqueued(q, msg).others = Append(q.others, msg)
           ELSE /\ Enqueued(q, msg).positions = Put(Kept(q, msg), msg)
                /\ Enqueued(q, msg).others = q.others
BY DEF Enqueued, Kept, Queues

LEMMA EnqueuedTyped ==
  ASSUME NEW q \in Queues, NEW msg \in Message
  PROVE  Enqueued(q, msg) \in Queues
<1>1. CASE IsOther(msg)
  <2>1. Append(q.others, msg) \in Seq(Message)
    BY QueueFacts
  <2>2. QED
    BY <1>1, <2>1 DEF Enqueued, Queues
<1>2. CASE ~IsOther(msg)
  <2>1. Put(Kept(q, msg), msg) \in Seq(Message)
    BY KeptTyped, PutTyped
  <2>2. QED
    BY <1>2, <2>1 DEF Enqueued, Kept, Queues
<1>3. QED
  BY <1>1, <1>2

\* A full queue refuses a message for which it finds no room, so it never grows past
\* MaxEntries, and it never holds two positions of one vessel.
LEMMA EnqueuedBounded ==
  ASSUME NEW q \in Queues, NEW msg \in Message, Bounded(q), Sorted(q), ~Refuses(q, msg)
  PROVE  Bounded(Enqueued(q, msg)) /\ Sorted(Enqueued(q, msg))
<1>5. Size(Enqueued(q, msg))
        = Len(Enqueued(q, msg).positions) + Len(Enqueued(q, msg).others)
  BY DEF Size
<1>0. Size(q) \in Nat /\ MaxEntries \in Nat /\ Size(q) <= MaxEntries
  BY QueueFacts, GatewayFacts DEF Bounded
<1>6. Size(q) = Len(q.positions) + Len(q.others)
  BY DEF Size
<1>7. PICK a \in Nat : a = Len(q.positions)
  BY QueueFacts
<1>8. PICK b \in Nat : b = Len(q.others)
  BY QueueFacts
<1>9. Size(q) = a + b
  BY <1>6, <1>7, <1>8
<1>1. /\ DOMAIN q.positions = 1..Len(q.positions) /\ DOMAIN q.others = 1..Len(q.others)
      /\ q.others \in Seq(Message) /\ Len(q.others) \in Nat
  BY QueueFacts
<1>2. CASE IsOther(msg)
  <2>1. ~Full(q)
    BY <1>2 DEF Refuses
  <2>2. /\ Len(Append(q.others, msg)) = Len(q.others) + 1
        /\ DOMAIN Append(q.others, msg) = 1..(Len(q.others) + 1)
        /\ \A i \in 1..Len(q.others) : Append(q.others, msg)[i] = q.others[i]
        /\ Append(q.others, msg)[Len(q.others) + 1] = msg
    BY <1>1
  <2>3. /\ Enqueued(q, msg).positions = q.positions
        /\ Enqueued(q, msg).others = Append(q.others, msg)
    BY <1>2, EnqueuedParts
  <2>4. Size(q) + 1 <= MaxEntries
    BY <1>0, <2>1 DEF Full
  <2>5. Bounded(Enqueued(q, msg))
    <3>1. Size(Enqueued(q, msg)) = Size(q) + 1
      <4>1. /\ Len(Enqueued(q, msg).positions) = Len(q.positions)
            /\ Len(Enqueued(q, msg).others) = Len(q.others) + 1
        BY <2>2, <2>3
      <4>2. Size(Enqueued(q, msg)) = a + (b + 1)
        BY <1>5, <1>7, <1>8, <4>1
      <4>3. QED
        BY <1>9, <4>2
    <3>2. QED
      BY <2>3, <2>4, <3>1 DEF Bounded
  <2>6. Sorted(Enqueued(q, msg))
    <3>1. \A i \in 1..(Len(q.others) + 1) : IsOther(Append(q.others, msg)[i])
      BY <1>1, <1>2, <2>2 DEF Sorted
    <3>2. QED
      BY <2>2, <2>3, <3>1 DEF Sorted
  <2>7. QED
    BY <2>5, <2>6
<1>3. CASE ~IsOther(msg)
  <2> DEFINE ps == Kept(q, msg)
             new == Put(ps, msg)
  <2>1. /\ ps \in Seq(Message) /\ new \in Seq(Message) /\ Len(ps) \in Nat
        /\ DOMAIN ps = 1..Len(ps) /\ DOMAIN new = 1..Len(new)
    BY KeptTyped, PutTyped
  <2>2. Enqueued(q, msg).positions = new /\ Enqueued(q, msg).others = q.others
    BY <1>3, EnqueuedParts
  <2>9. Size(Enqueued(q, msg)) = Len(new) + Len(q.others)
    BY <1>5, <2>2
  <2>3. /\ \A i \in DOMAIN ps : IsPosition(ps[i])
        /\ \A i, j \in DOMAIN ps : ps[i].vessel = ps[j].vessel => i = j
    <3>1. CASE Evicts(q, msg)
      <4>1. \A i \in DOMAIN ps : i + 1 \in DOMAIN q.positions /\ ps[i] = q.positions[i + 1]
        BY <3>1, KeptTyped
      <4>2. QED
        BY <2>1, <4>1 DEF Bounded, Sorted
    <3>2. CASE ~Evicts(q, msg)
      BY <3>2, KeptTyped DEF Bounded, Sorted
    <3>3. QED
      BY <3>1, <3>2
  <2>4. IsPosition(msg)
    BY <1>3 DEF IsOther, IsPosition
  <2>5. CASE \E i \in DOMAIN ps : ps[i].vessel = msg.vessel
    <3>1. /\ Len(new) = Len(ps)
          /\ \A i \in DOMAIN ps : new[i] = IF ps[i].vessel = msg.vessel THEN msg ELSE ps[i]
      BY <2>1, <2>5, PutTyped
    <3>2. ~Evicts(q, msg)
      BY <2>5, KeptTyped
    <3>3. Len(ps) = Len(q.positions)
      BY <3>2, KeptTyped
    <3>4. Size(Enqueued(q, msg)) <= MaxEntries
      BY <1>0, <1>6, <1>5, <2>2, <3>1, <3>3
    <3>5. \A i \in DOMAIN new : IsPosition(new[i]) /\ new[i].vessel = ps[i].vessel
      BY <2>1, <2>3, <2>4, <3>1
    <3>6. QED
      BY <2>1, <2>2, <2>3, <3>1, <3>4, <3>5 DEF Bounded, Sorted
  <2>6. CASE ~\E i \in DOMAIN ps : ps[i].vessel = msg.vessel
    <3>1. /\ Len(new) = Len(ps) + 1
          /\ \A i \in DOMAIN ps : new[i] = ps[i]
          /\ new[Len(ps) + 1] = msg
      BY <2>1, <2>6, PutTyped
    <3>2. Size(Enqueued(q, msg)) <= MaxEntries
      <4>1. CASE Evicts(q, msg)
        <5>1. Len(ps) = Len(q.positions) - 1
          BY <4>1, KeptTyped
        <5>2. Size(Enqueued(q, msg)) = ((a - 1) + 1) + b
          BY <1>7, <1>8, <2>9, <3>1, <5>1
        <5>3. QED
          BY <1>0, <1>9, <5>2
      <4>2. CASE ~Evicts(q, msg)
        <5>1. ps = q.positions
          BY <4>2, KeptTyped
        <5>2. ~Holds(q, msg.vessel)
          BY <2>6, <5>1 DEF Holds
        <5>3. ~Full(q)
          BY <2>4, <4>2, <5>2 DEF Evicts, Refuses
        <5>4. Size(q) + 1 <= MaxEntries
          BY <1>0, <5>3 DEF Full
        <5>5. Size(Enqueued(q, msg)) = (a + 1) + b
          BY <1>7, <1>8, <2>9, <3>1, <5>1
        <5>6. QED
          BY <1>0, <1>9, <5>4, <5>5
      <4>3. QED
        BY <4>1, <4>2
    <3>3. \A i \in DOMAIN new : IsPosition(new[i])
      BY <2>1, <2>3, <2>4, <3>1
    <3>4. \A i, j \in DOMAIN new : new[i].vessel = new[j].vessel => i = j
      BY <2>1, <2>3, <2>6, <3>1
    <3>5. QED
      BY <2>2, <3>2, <3>3, <3>4 DEF Bounded, Sorted
  <2>7. QED
    BY <2>5, <2>6
<1>4. QED
  BY <1>2, <1>3

-----------------------------------------------------------------------------
(***************************************************************************)
(* What a connection has been offered and given.                           *)
(***************************************************************************)

Has(a, msg) == \E i \in DOMAIN a : a[i] = msg

\* Messages of one vessel, and those of no vessel, in fan-out order.
Ordered(a) ==
  \A i, j \in DOMAIN a : i < j /\ a[i].vessel = a[j].vessel => a[i].serial < a[j].serial

Precedes(a, b) ==
  \A i \in DOMAIN a : \A j \in DOMAIN b :
    a[i].vessel = b[j].vessel => a[i].serial < b[j].serial

Increasing(a) == \A i, j \in DOMAIN a : i < j => a[i].serial < a[j].serial

Newest(a, i) == \A j \in DOMAIN a : j > i => a[j].vessel # a[i].vessel

\* s sent, q queued, o offered, e evicted, n messages fanned out: all that is given was
\* offered, in order; every other message offered is given, and every newest position
\* is given or evicted.
Sound(s, q, o, e, n) ==
  /\ Increasing(o)
  /\ \A i \in DOMAIN o : o[i].serial <= n
  /\ \A i \in DOMAIN s : Has(o, s[i])
  /\ \A i \in DOMAIN q.others : Has(o, q.others[i])
  /\ \A i \in DOMAIN q.positions : Has(o, q.positions[i])
  /\ Ordered(s) /\ Ordered(q.others)
  /\ Precedes(s, q.others) /\ Precedes(s, q.positions)
  /\ \A i \in DOMAIN o : IsOther(o[i]) => Has(s, o[i]) \/ Has(q.others, o[i])
  /\ \A i \in DOMAIN o : IsPosition(o[i]) /\ Newest(o, i) =>
       o[i] \in e \/ Has(s, o[i]) \/ Has(q.positions, o[i])

LEMMA MessageFacts ==
  /\ \A m \in Message : m.serial \in Nat /\ m.vessel \in Vessels \cup {NoVessel}
  /\ \A a \in Seq(Message) : \A i \in DOMAIN a : a[i] \in Message
<1>1. \A m \in Message : m.serial \in Nat /\ m.vessel \in Vessels \cup {NoVessel}
  BY DEF Message
<1>2. \A a \in Seq(Message) : \A i \in DOMAIN a : a[i] \in Message
  OBVIOUS
<1>3. QED
  BY <1>1, <1>2

LEMMA AppendFacts ==
  ASSUME NEW S, NEW a \in Seq(S), NEW m \in S
  PROVE  /\ Append(a, m) \in Seq(S)
         /\ DOMAIN a = 1..Len(a) /\ Len(a) \in Nat
         /\ DOMAIN Append(a, m) = 1..(Len(a) + 1)
         /\ \A i \in 1..Len(a) : Append(a, m)[i] = a[i]
         /\ Append(a, m)[Len(a) + 1] = m
OBVIOUS

LEMMA HasAppend ==
  ASSUME NEW a \in Seq(Message), NEW m \in Message, NEW x
  PROVE  Has(Append(a, m), x) <=> (Has(a, x) \/ x = m)
<1>1. ASSUME Has(a, x)
      PROVE  Has(Append(a, m), x)
  <2>1. PICK i \in DOMAIN a : a[i] = x
    BY <1>1 DEF Has
  <2>2. i \in DOMAIN Append(a, m) /\ Append(a, m)[i] = x
    BY <2>1, AppendFacts
  <2>3. QED
    BY <2>2 DEF Has
<1>2. ASSUME x = m
      PROVE  Has(Append(a, m), x)
  <2>1. Len(a) + 1 \in DOMAIN Append(a, m) /\ Append(a, m)[Len(a) + 1] = x
    BY <1>2, AppendFacts
  <2>2. QED
    BY <2>1 DEF Has
<1>3. ASSUME Has(Append(a, m), x), x # m
      PROVE  Has(a, x)
  <2>1. PICK i \in DOMAIN Append(a, m) : Append(a, m)[i] = x
    BY <1>3 DEF Has
  <2>2. i \in DOMAIN a /\ a[i] = x
    BY <1>3, <2>1, AppendFacts
  <2>3. QED
    BY <2>2 DEF Has
<1>4. QED
  BY <1>1, <1>2, <1>3

\* A new message is offered: everything before it stays as it was.
LEMMA OfferedNext ==
  ASSUME NEW o \in Seq(Message), NEW n \in Nat, NEW m \in Message, m.serial = n + 1,
         Increasing(o), \A i \in DOMAIN o : o[i].serial <= n
  PROVE  /\ Increasing(Append(o, m))
         /\ \A i \in DOMAIN Append(o, m) : Append(o, m)[i].serial <= n + 1
         /\ \A i \in DOMAIN Append(o, m) : i # Len(o) + 1 =>
              /\ i \in DOMAIN o /\ Append(o, m)[i] = o[i]
              /\ Newest(Append(o, m), i) => Newest(o, i) /\ o[i].vessel # m.vessel
<1>1. \A i \in DOMAIN o : o[i].serial \in Nat
  BY MessageFacts
<1>2. ASSUME NEW i \in DOMAIN Append(o, m), NEW j \in DOMAIN Append(o, m), i < j
      PROVE  Append(o, m)[i].serial < Append(o, m)[j].serial
  <2>1. i \in DOMAIN o /\ Append(o, m)[i] = o[i]
    BY <1>2, AppendFacts
  <2>2. CASE j \in DOMAIN o
    BY <1>2, <2>1, <2>2, AppendFacts DEF Increasing
  <2>3. CASE j \notin DOMAIN o
    <3>1. Append(o, m)[j] = m
      BY <2>3, AppendFacts
    <3>2. QED
      BY <1>1, <2>1, <3>1
  <2>4. QED
    BY <2>2, <2>3
<1>3. \A i \in DOMAIN Append(o, m) : Append(o, m)[i].serial <= n + 1
  <2>1. TAKE i \in DOMAIN Append(o, m)
  <2>2. CASE i \in DOMAIN o
    BY <1>1, <2>2, AppendFacts
  <2>3. CASE i \notin DOMAIN o
    BY <2>3, AppendFacts
  <2>4. QED
    BY <2>2, <2>3
<1>4. ASSUME NEW i \in DOMAIN Append(o, m), i # Len(o) + 1
      PROVE  /\ i \in DOMAIN o /\ Append(o, m)[i] = o[i]
             /\ Newest(Append(o, m), i) => Newest(o, i) /\ o[i].vessel # m.vessel
  <2>1. i \in DOMAIN o /\ Append(o, m)[i] = o[i]
    BY <1>4, AppendFacts
  <2>2. ASSUME Newest(Append(o, m), i)
        PROVE  Newest(o, i)
    <3>1. \A j \in DOMAIN o : j \in DOMAIN Append(o, m) /\ Append(o, m)[j] = o[j]
      BY AppendFacts
    <3>2. QED
      BY <2>1, <2>2, <3>1 DEF Newest
  <2>3. ASSUME Newest(Append(o, m), i)
        PROVE  o[i].vessel # m.vessel
    <3>1. /\ Len(o) + 1 \in DOMAIN Append(o, m) /\ Append(o, m)[Len(o) + 1] = m
          /\ Len(o) + 1 > i
      BY <2>1, AppendFacts
    <3>2. QED
      BY <2>1, <2>3, <3>1 DEF Newest
  <2>4. QED
    BY <2>1, <2>2, <2>3
<1>5. QED
  BY <1>2, <1>3, <1>4 DEF Increasing

\* All that was offered before is older than the message.
LEMMA OlderThan ==
  ASSUME NEW o \in Seq(Message), NEW n \in Nat, NEW m \in Message, m.serial = n + 1,
         \A i \in DOMAIN o : o[i].serial <= n, NEW x, Has(o, x)
  PROVE  x.serial < m.serial /\ x \in Message
<1>1. PICK i \in DOMAIN o : o[i] = x
  BY DEF Has
<1>2. x \in Message /\ x.serial \in Nat /\ x.serial <= n
  BY <1>1, MessageFacts
<1>3. QED
  BY <1>2

\* A static or enrichment message is queued behind the others.
LEMMA EnqueueOther ==
  ASSUME NEW s \in Seq(Message), NEW q \in Queues, NEW o \in Seq(Message), NEW e,
         NEW n \in Nat, NEW m \in Message, m.serial = n + 1, IsOther(m),
         Sound(s, q, o, e, n)
  PROVE  Sound(s, Enqueued(q, m), Append(o, m), e, n + 1)
<1> DEFINE r == Enqueued(q, m)
           p == Append(o, m)
<1>1. r.positions = q.positions /\ r.others = Append(q.others, m) /\ q.others \in Seq(Message)
  BY EnqueuedParts, QueueFacts
<1>2. \A x : Has(o, x) => x.serial < m.serial /\ x \in Message
  BY OlderThan DEF Sound
<1>3. \A x : Has(o, x) => Has(p, x)
  BY HasAppend
<1>4. Increasing(p) /\ \A i \in DOMAIN p : p[i].serial <= n + 1
  BY OfferedNext DEF Sound
<1>5. /\ \A i \in DOMAIN r.others : i \in DOMAIN q.others \/ i = Len(q.others) + 1
      /\ \A i \in DOMAIN q.others : r.others[i] = q.others[i]
      /\ r.others[Len(q.others) + 1] = m
      /\ \A i \in DOMAIN q.others : i < Len(q.others) + 1
      /\ Len(q.others) \in Nat /\ DOMAIN q.others = 1..Len(q.others)
  BY <1>1, AppendFacts
<1>6. /\ \A i \in DOMAIN s : Has(p, s[i])
      /\ \A i \in DOMAIN r.positions : Has(p, r.positions[i])
      /\ Ordered(s) /\ Precedes(s, r.positions)
  BY <1>1, <1>3 DEF Sound
<1>7. \A i \in DOMAIN r.others : Has(p, r.others[i])
  BY <1>3, <1>5, HasAppend DEF Sound
<1>8. Ordered(r.others)
  <2>1. SUFFICES ASSUME NEW i \in DOMAIN r.others, NEW j \in DOMAIN r.others, i < j,
                        r.others[i].vessel = r.others[j].vessel
                 PROVE  r.others[i].serial < r.others[j].serial
    BY DEF Ordered
  <2>2. CASE j \in DOMAIN q.others
    <3>1. i \in DOMAIN q.others
      BY <1>5, <2>1, <2>2
    <3>2. QED
      BY <1>5, <2>1, <2>2, <3>1 DEF Sound, Ordered
  <2>3. CASE j = Len(q.others) + 1
    <3>1. i \in DOMAIN q.others
      BY <1>5, <2>1, <2>3
    <3>2. Has(o, r.others[i])
      BY <1>5, <3>1 DEF Sound
    <3>3. QED
      BY <1>2, <1>5, <2>3, <3>2
  <2>4. QED
    BY <1>5, <2>2, <2>3
<1>9. Precedes(s, r.others)
  <2>1. SUFFICES ASSUME NEW i \in DOMAIN s, NEW j \in DOMAIN r.others,
                        s[i].vessel = r.others[j].vessel
                 PROVE  s[i].serial < r.others[j].serial
    BY DEF Precedes
  <2>2. CASE j \in DOMAIN q.others
    BY <1>5, <2>1, <2>2 DEF Sound, Precedes
  <2>3. CASE j = Len(q.others) + 1
    BY <1>2, <1>5, <2>3 DEF Sound
  <2>4. QED
    BY <1>5, <2>2, <2>3
<1>10. ASSUME NEW i \in DOMAIN p, IsOther(p[i])
       PROVE  Has(s, p[i]) \/ Has(r.others, p[i])
  <2>1. CASE i = Len(o) + 1
    BY <1>1, <2>1, AppendFacts, HasAppend
  <2>2. CASE i # Len(o) + 1
    <3>1. i \in DOMAIN o /\ p[i] = o[i]
      BY <2>2, AppendFacts
    <3>2. QED
      BY <1>1, <1>10, <3>1, HasAppend DEF Sound
  <2>3. QED
    BY <2>1, <2>2
<1>11. ASSUME NEW i \in DOMAIN p, IsPosition(p[i]), Newest(p, i)
       PROVE  p[i] \in e \/ Has(s, p[i]) \/ Has(r.positions, p[i])
  <2>1. i # Len(o) + 1
    BY <1>11, AppendFacts DEF IsOther, IsPosition
  <2>2. i \in DOMAIN o /\ p[i] = o[i] /\ Newest(o, i)
    BY <1>11, <2>1, OfferedNext DEF Sound
  <2>3. QED
    BY <1>1, <1>11, <2>2 DEF Sound
<1>12. QED
  BY <1>4, <1>6, <1>7, <1>8, <1>9, <1>10, <1>11 DEF Sound

\* A position replaces its vessel's, or goes to the end; the head may have made room.
LEMMA PositionsAfter ==
  ASSUME NEW q \in Queues, NEW m \in Message, ~IsOther(m)
  PROVE  LET np == Enqueued(q, m).positions IN
         /\ \A i \in DOMAIN np : np[i] = m \/ Has(q.positions, np[i])
         /\ Has(np, m)
         /\ \A x : Has(q.positions, x) /\ x.vessel # m.vessel =>
              Has(np, x) \/ (Evicts(q, m) /\ x = Head(q.positions))
<1> DEFINE ps == Kept(q, m)
           np == Put(ps, m)
<1>1. /\ ps \in Seq(Message) /\ np \in Seq(Message) /\ Len(ps) \in Nat
      /\ DOMAIN ps = 1..Len(ps) /\ DOMAIN np = 1..Len(np)
  BY KeptTyped, PutTyped
<1>2. Enqueued(q, m).positions = np
  BY EnqueuedParts
<1>3. \A i \in DOMAIN ps : Has(q.positions, ps[i])
  BY KeptTyped DEF Has
<1>4. \A x : Has(q.positions, x) => Has(ps, x) \/ (Evicts(q, m) /\ x = Head(q.positions))
  BY KeptTyped DEF Has
<1>5. CASE \E i \in DOMAIN ps : ps[i].vessel = m.vessel
  <2>1. /\ DOMAIN np = DOMAIN ps
        /\ \A i \in DOMAIN ps : np[i] = IF ps[i].vessel = m.vessel THEN m ELSE ps[i]
    BY <1>1, <1>5, PutTyped
  <2>2. \A i \in DOMAIN np : np[i] = m \/ Has(q.positions, np[i])
    BY <1>3, <2>1
  <2>3. Has(np, m)
    BY <1>5, <2>1 DEF Has
  <2>4. \A x : Has(ps, x) /\ x.vessel # m.vessel => Has(np, x)
    BY <2>1 DEF Has
  <2>5. QED
    BY <1>2, <1>4, <2>2, <2>3, <2>4
<1>6. CASE ~\E i \in DOMAIN ps : ps[i].vessel = m.vessel
  <2>1. /\ DOMAIN np = 1..(Len(ps) + 1)
        /\ \A i \in DOMAIN ps : np[i] = ps[i]
        /\ np[Len(ps) + 1] = m
    BY <1>1, <1>6, PutTyped
  <2>2. \A i \in DOMAIN np : np[i] = m \/ Has(q.positions, np[i])
    <3>1. \A i \in DOMAIN np : i \in DOMAIN ps \/ i = Len(ps) + 1
      BY <1>1, <2>1
    <3>2. QED
      BY <1>3, <2>1, <3>1
  <2>3. Has(np, m)
    <3>1. Len(ps) + 1 \in DOMAIN np
      BY <1>1, <2>1
    <3>2. QED
      BY <2>1, <3>1 DEF Has
  <2>4. \A x : Has(ps, x) => Has(np, x)
    <3>1. \A i \in DOMAIN ps : i \in DOMAIN np
      BY <1>1, <2>1
    <3>2. QED
      BY <2>1, <3>1 DEF Has
  <2>5. QED
    BY <1>2, <1>4, <2>2, <2>3, <2>4
<1>7. QED
  BY <1>5, <1>6

EvictedBy(q, m) == IF Evicts(q, m) THEN {Head(q.positions)} ELSE {}

\* A position is queued, in place of an older one of its vessel or of the first one.
LEMMA EnqueuePosition ==
  ASSUME NEW s \in Seq(Message), NEW q \in Queues, NEW o \in Seq(Message), NEW e,
         NEW n \in Nat, NEW m \in Message, m.serial = n + 1, ~IsOther(m),
         Sound(s, q, o, e, n)
  PROVE  Sound(s, Enqueued(q, m), Append(o, m), e \cup EvictedBy(q, m), n + 1)
<1> DEFINE np == Enqueued(q, m).positions
           p == Append(o, m)
<1>1. Enqueued(q, m).others = q.others
  BY EnqueuedParts
<1>2. \A x : Has(o, x) => x.serial < m.serial /\ x \in Message
  BY OlderThan DEF Sound
<1>3. \A x : Has(p, x) <=> Has(o, x) \/ x = m
  BY HasAppend
<1>4. Increasing(p) /\ \A i \in DOMAIN p : p[i].serial <= n + 1
  BY OfferedNext DEF Sound
<1>5. /\ \A i \in DOMAIN np : np[i] = m \/ Has(q.positions, np[i])
      /\ Has(np, m)
      /\ \A x : Has(q.positions, x) /\ x.vessel # m.vessel =>
           Has(np, x) \/ (Evicts(q, m) /\ x = Head(q.positions))
  BY PositionsAfter
<1>6. /\ \A i \in DOMAIN s : Has(p, s[i])
      /\ \A i \in DOMAIN q.others : Has(p, q.others[i])
      /\ Ordered(s) /\ Ordered(q.others) /\ Precedes(s, q.others)
  BY <1>3 DEF Sound
<1>7. \A x : Has(q.positions, x) => Has(o, x)
  BY DEF Sound, Has
<1>8. \A i \in DOMAIN np : Has(p, np[i])
  BY <1>3, <1>5, <1>7
<1>9. Precedes(s, np)
  <2>1. SUFFICES ASSUME NEW i \in DOMAIN s, NEW j \in DOMAIN np, s[i].vessel = np[j].vessel
                 PROVE  s[i].serial < np[j].serial
    BY DEF Precedes
  <2>2. CASE np[j] = m
    BY <1>2, <2>2 DEF Sound
  <2>3. CASE Has(q.positions, np[j])
    <3>1. PICK k \in DOMAIN q.positions : q.positions[k] = np[j]
      BY <2>3 DEF Has
    <3>2. QED
      BY <2>1, <3>1 DEF Sound, Precedes
  <2>4. QED
    BY <1>5, <2>2, <2>3
<1>10. ASSUME NEW i \in DOMAIN p, IsOther(p[i])
       PROVE  Has(s, p[i]) \/ Has(q.others, p[i])
  <2>1. i # Len(o) + 1
    BY <1>10, AppendFacts
  <2>2. i \in DOMAIN o /\ p[i] = o[i]
    BY <2>1, AppendFacts
  <2>3. QED
    BY <1>10, <2>2 DEF Sound
<1>11. ASSUME NEW i \in DOMAIN p, IsPosition(p[i]), Newest(p, i)
       PROVE  p[i] \in e \cup EvictedBy(q, m) \/ Has(s, p[i]) \/ Has(np, p[i])
  <2>1. CASE i = Len(o) + 1
    BY <1>5, <2>1, AppendFacts
  <2>2. CASE i # Len(o) + 1
    <3>1. i \in DOMAIN o /\ p[i] = o[i] /\ Newest(o, i) /\ o[i].vessel # m.vessel
      BY <1>11, <2>2, OfferedNext DEF Sound
    <3>2. o[i] \in e \/ Has(s, o[i]) \/ Has(q.positions, o[i])
      BY <1>11, <3>1 DEF Sound
    <3>3. QED
      BY <1>5, <3>1, <3>2 DEF EvictedBy
  <2>3. QED
    BY <2>1, <2>2
<1>12. QED
  BY <1>1, <1>4, <1>6, <1>8, <1>9, <1>10, <1>11 DEF Sound

LEMMA ConcatFacts ==
  ASSUME NEW a \in Seq(Message), NEW b \in Seq(Message)
  PROVE  /\ a \o b \in Seq(Message)
         /\ Len(a) \in Nat /\ DOMAIN a = 1..Len(a)
         /\ Len(b) \in Nat /\ DOMAIN b = 1..Len(b)
         /\ \A i \in DOMAIN (a \o b) :
              IF i <= Len(a) THEN i \in DOMAIN a /\ (a \o b)[i] = a[i]
                             ELSE i - Len(a) \in DOMAIN b /\ (a \o b)[i] = b[i - Len(a)]
         /\ \A i \in DOMAIN a : i \in DOMAIN (a \o b) /\ (a \o b)[i] = a[i]
         /\ \A i \in DOMAIN b : i + Len(a) \in DOMAIN (a \o b) /\ (a \o b)[i + Len(a)] = b[i]
         /\ DOMAIN (a \o b) \subseteq Nat
OBVIOUS

LEMMA HasConcat ==
  ASSUME NEW a \in Seq(Message), NEW b \in Seq(Message), NEW x
  PROVE  Has(a \o b, x) <=> Has(a, x) \/ Has(b, x)
<1>1. Has(a \o b, x) => Has(a, x) \/ Has(b, x)
  BY ConcatFacts DEF Has
<1>2. Has(a, x) => Has(a \o b, x)
  BY ConcatFacts DEF Has
<1>3. ASSUME Has(b, x)
      PROVE  Has(a \o b, x)
  <2>1. PICK i \in DOMAIN b : b[i] = x
    BY <1>3 DEF Has
  <2>2. i + Len(a) \in DOMAIN (a \o b) /\ (a \o b)[i + Len(a)] = x
    BY <2>1, ConcatFacts
  <2>3. QED
    BY <2>2 DEF Has
<1>4. QED
  BY <1>1, <1>2, <1>3

LEMMA OrderedConcat ==
  ASSUME NEW a \in Seq(Message), NEW b \in Seq(Message), Ordered(a), Ordered(b),
         Precedes(a, b)
  PROVE  Ordered(a \o b)
<1>1. SUFFICES ASSUME NEW i \in DOMAIN (a \o b), NEW j \in DOMAIN (a \o b), i < j,
                      (a \o b)[i].vessel = (a \o b)[j].vessel
               PROVE  (a \o b)[i].serial < (a \o b)[j].serial
  BY DEF Ordered
<1>2. i \in Nat /\ j \in Nat /\ Len(a) \in Nat
  BY ConcatFacts
<1>3. CASE j <= Len(a)
  <2>1. i <= Len(a)
    BY <1>1, <1>2, <1>3
  <2>2. QED
    BY <1>1, <1>3, <2>1, ConcatFacts DEF Ordered
<1>4. CASE i <= Len(a) /\ ~(j <= Len(a))
  BY <1>1, <1>4, ConcatFacts DEF Precedes
<1>5. CASE ~(i <= Len(a)) /\ ~(j <= Len(a))
  <2>1. i - Len(a) < j - Len(a)
    BY <1>1, <1>2
  <2>2. /\ i - Len(a) \in DOMAIN b /\ (a \o b)[i] = b[i - Len(a)]
        /\ j - Len(a) \in DOMAIN b /\ (a \o b)[j] = b[j - Len(a)]
    BY <1>5, ConcatFacts
  <2>3. QED
    BY <1>1, <2>1, <2>2 DEF Ordered
<1>6. QED
  BY <1>3, <1>4, <1>5

LEMMA PrecedesConcat ==
  ASSUME NEW s \in Seq(Message), NEW a \in Seq(Message), NEW b \in Seq(Message),
         Precedes(s, a), Precedes(s, b)
  PROVE  Precedes(s, a \o b)
<1>1. SUFFICES ASSUME NEW i \in DOMAIN s, NEW j \in DOMAIN (a \o b),
                      s[i].vessel = (a \o b)[j].vessel
               PROVE  s[i].serial < (a \o b)[j].serial
  BY DEF Precedes
<1>2. CASE j <= Len(a)
  <2>1. j \in DOMAIN a /\ (a \o b)[j] = a[j]
    BY <1>2, ConcatFacts
  <2>2. QED
    BY <1>1, <2>1 DEF Precedes
<1>3. CASE ~(j <= Len(a))
  <2>1. j - Len(a) \in DOMAIN b /\ (a \o b)[j] = b[j - Len(a)]
    BY <1>3, ConcatFacts
  <2>2. QED
    BY <1>1, <2>1 DEF Precedes
<1>4. QED
  BY <1>2, <1>3

\* What has been sent and is queued, one after the other, is in order and complete.
LEMMA GivenSound ==
  ASSUME NEW s \in Seq(Message), NEW q \in Queues, NEW o \in Seq(Message), NEW e,
         NEW n \in Nat, Bounded(q), Sorted(q), Sound(s, q, o, e, n)
  PROVE  LET g == s \o Drained(q) IN
         /\ g \in Seq(Message)
         /\ Ordered(g)
         /\ \A i \in DOMAIN g : Has(o, g[i])
         /\ \A i \in DOMAIN o : IsOther(o[i]) => Has(g, o[i])
         /\ \A i \in DOMAIN o : IsPosition(o[i]) /\ Newest(o, i) => o[i] \in e \/ Has(g, o[i])
<1> DEFINE d == q.others \o q.positions
           g == s \o d
<1>1. /\ q.others \in Seq(Message) /\ q.positions \in Seq(Message)
      /\ d \in Seq(Message) /\ g \in Seq(Message) /\ Drained(q) = d
  BY QueueFacts DEF Drained
<1>2. Ordered(q.positions) /\ Precedes(q.others, q.positions)
  <2>1. \A i, j \in DOMAIN q.positions : i < j => q.positions[i].vessel # q.positions[j].vessel
    BY <1>1 DEF Bounded
  <2>2. \A i \in DOMAIN q.others : \A j \in DOMAIN q.positions :
          q.others[i].vessel # q.positions[j].vessel
    BY DEF Sorted, IsOther, IsPosition
  <2>3. QED
    BY <2>1, <2>2 DEF Ordered, Precedes
<1>3. Ordered(g)
  <2>1. Ordered(d)
    BY <1>1, <1>2, OrderedConcat DEF Sound
  <2>2. Precedes(s, d)
    BY <1>1, PrecedesConcat DEF Sound
  <2>3. QED
    BY <1>1, <2>1, <2>2, OrderedConcat DEF Sound
<1>4. \A x : Has(g, x) <=> Has(s, x) \/ Has(q.others, x) \/ Has(q.positions, x)
  BY <1>1, HasConcat
<1>5. \A i \in DOMAIN g : Has(o, g[i])
  <2>1. \A i \in DOMAIN g : Has(g, g[i])
    BY DEF Has
  <2>2. \A x : Has(s, x) \/ Has(q.others, x) \/ Has(q.positions, x) => Has(o, x)
    BY DEF Sound, Has
  <2>3. QED
    BY <1>4, <2>1, <2>2
<1>6. \A i \in DOMAIN o : IsOther(o[i]) => Has(g, o[i])
  BY <1>4 DEF Sound
<1>7. \A i \in DOMAIN o : IsPosition(o[i]) /\ Newest(o, i) => o[i] \in e \/ Has(g, o[i])
  BY <1>4 DEF Sound
<1>8. QED
  BY <1>1, <1>3, <1>5, <1>6, <1>7

\* A flush sends what is queued.
LEMMA FlushSound ==
  ASSUME NEW s \in Seq(Message), NEW q \in Queues, NEW o \in Seq(Message), NEW e,
         NEW n \in Nat, Bounded(q), Sorted(q), Sound(s, q, o, e, n)
  PROVE  Sound(s \o Drained(q), EmptyQueue, o, e, n)
<1>1. DOMAIN EmptyQueue.positions = {} /\ DOMAIN EmptyQueue.others = {}
  BY EmptyQueueTyped
<1>2. Increasing(o) /\ \A i \in DOMAIN o : o[i].serial <= n
  BY DEF Sound
<1>3. QED
  BY <1>1, <1>2, GivenSound DEF Sound, Ordered, Precedes

-----------------------------------------------------------------------------
(***************************************************************************)
(* The invariant.                                                          *)
(***************************************************************************)

\* A connection that is no longer open got at most one envelope more than it could as open.
Extra(c) == IF socket[c] \in {"none", "open"} THEN 0 ELSE 1

BuffersBounded ==
  \A c \in Conns : buffered[c] <= BufferedLimit - 1 + MaxEntries + bad + Extra(c)

\* An id that was not used has left no trace.
FreshIds ==
  \A c \in Conns : socket[c] = "none" =>
    /\ queue[c] = EmptyQueue /\ buffered[c] = 0
    /\ sent[c] = <<>> /\ offered[c] = <<>> /\ evicted[c] = {}

ConnectionsSound ==
  \A c \in connections : Sound(sent[c], queue[c], offered[c], evicted[c], serial)

IInv ==
  /\ TypeOK
  /\ GaugeAgrees
  /\ \A c \in Conns : Bounded(queue[c]) /\ Sorted(queue[c])
  /\ BuffersBounded
  /\ FreshIds
  /\ ConnectionsSound

LEMMA TypeFacts ==
  ASSUME TypeOK
  PROVE  /\ connections \subseteq Conns /\ IsFiniteSet(connections)
         /\ bad \in Nat /\ serial \in Nat /\ active \in Int
         /\ \A c \in connections : socket[c] \in {"open", "closing"}
         /\ \A c \in Conns : /\ socket[c] \in Sockets /\ buffered[c] \in Nat
                             /\ queue[c] \in Queues
                             /\ sent[c] \in Seq(Message) /\ offered[c] \in Seq(Message)
                             /\ evicted[c] \in SUBSET Message
<1>1. connections \subseteq Conns /\ bad \in Nat /\ serial \in Nat
  BY GatewayFacts DEF TypeOK
<1>2. IsFiniteSet(connections)
  BY <1>1, GatewayFacts, FS_Subset
<1>3. QED
  BY <1>1, <1>2 DEF TypeOK, Queues

\* However often one connection is cleaned up, the gauge counts its end once.
LEMMA CleanupCounts ==
  ASSUME TypeOK, GaugeAgrees, up' = up, NEW gone, Cleanup(gone)
  PROVE  /\ connections' = connections \ gone /\ connections' \subseteq Conns
         /\ subscribed' \subseteq Conns
         /\ active' \in Int
         /\ GaugeAgrees'
<1>1. /\ connections' = connections \ gone
      /\ subscribed' = subscribed \ (gone \cap connections)
      /\ active' = active - Cardinality(gone \cap connections)
  BY DEF Cleanup
<1>2. IsFiniteSet(connections) /\ connections \subseteq Conns /\ active \in Int
  BY TypeFacts
<1>3. /\ IsFiniteSet(gone \cap connections) /\ IsFiniteSet(connections \ gone)
      /\ connections \cap gone = gone \cap connections
  BY <1>2, FS_Subset
<1>4. /\ Cardinality(gone \cap connections) \in Nat /\ Cardinality(connections) \in Nat
      /\ Cardinality(connections \ gone) \in Nat
  BY <1>2, <1>3, FS_CardinalityType
<1>5. Cardinality(connections \ gone)
        = Cardinality(connections) - Cardinality(gone \cap connections)
  BY <1>2, <1>3, FS_Difference
<1>6. GaugeAgrees'
  BY <1>1, <1>2, <1>4, <1>5 DEF GaugeAgrees
<1>7. QED
  BY <1>1, <1>2, <1>4, <1>6 DEF TypeOK

\* A step that fans nothing out and opens no connection.
LEMMA QuietStep ==
  ASSUME IInv, TypeOK', GaugeAgrees', UNCHANGED <<queue, serial, histVars>>,
         connections' \subseteq connections, bad' >= bad,
         \A c \in Conns :
           /\ buffered'[c] <= buffered[c] + (bad' - bad)
           /\ socket'[c] = "none" => socket[c] = "none" /\ buffered'[c] = buffered[c]
           /\ socket'[c] = "open" => socket[c] \in {"none", "open"}
  PROVE  IInv'
<1>1. TypeOK
  BY DEF IInv
<1>2. UNCHANGED <<queue, serial, sent, offered, evicted>>
  BY DEF histVars
<1>3. \A c \in Conns : Bounded(queue'[c]) /\ Sorted(queue'[c])
  BY <1>2 DEF IInv
<1>4. BuffersBounded'
  <2>1. SUFFICES ASSUME NEW c \in Conns
                 PROVE  buffered'[c] <= BufferedLimit - 1 + MaxEntries + bad' + Extra(c)'
    BY DEF BuffersBounded
  <2>2. Extra(c) \in Nat /\ Extra(c)' \in Nat /\ Extra(c) <= Extra(c)'
    BY DEF Extra
  <2>3. bad' \in Nat /\ buffered'[c] \in Nat
    <3>1. bad' \in 0..MaxBadMessages /\ buffered' \in [Conns -> Nat]
      BY DEF TypeOK
    <3>2. QED
      BY <3>1, GatewayFacts
  <2>4. buffered[c] <= BufferedLimit - 1 + MaxEntries + bad + Extra(c)
    BY DEF IInv, BuffersBounded
  <2>5. buffered[c] \in Nat /\ bad \in Nat /\ BufferedLimit \in Nat /\ MaxEntries \in Nat
    BY <1>1, TypeFacts, GatewayFacts
  <2>6. QED
    BY <2>2, <2>3, <2>4, <2>5
<1>5. FreshIds'
  BY <1>2 DEF IInv, FreshIds
<1>6. ConnectionsSound'
  BY <1>2 DEF IInv, ConnectionsSound
<1>7. QED
  BY <1>3, <1>4, <1>5, <1>6 DEF IInv

-----------------------------------------------------------------------------
(***************************************************************************)
(* The callbacks that fan nothing out.                                     *)
(***************************************************************************)

\* A connection opens under an id that has left no trace.
LEMMA ConnectKeeps ==
  ASSUME IInv, NEW c \in Conns, Connect(c)
  PROVE  IInv'
<1>0. TypeOK /\ GaugeAgrees
  BY DEF IInv
<1>1. /\ up /\ socket[c] = "none"
      /\ socket' = [socket EXCEPT ![c] = "open"]
      /\ connections' = connections \cup {c}
      /\ alive' = [alive EXCEPT ![c] = TRUE]
      /\ active' = active + 1
      /\ UNCHANGED <<up, subscribed, silent, queue, buffered, serial, bad, sent, offered,
                     evicted>>
  BY DEF Connect, histVars
<1>2. c \notin connections
  BY <1>0, <1>1, TypeFacts
<1>3. /\ socket' \in [Conns -> Sockets] /\ alive' \in [Conns -> BOOLEAN]
      /\ socket'[c] = "open" /\ \A d \in Conns \ {c} : socket'[d] = socket[d]
  BY <1>0, <1>1 DEF TypeOK, Sockets
<1>4. TypeOK'
  <2>1. \A d \in connections' : socket'[d] \in {"open", "closing"}
    BY <1>0, <1>1, <1>3, TypeFacts
  <2>2. QED
    BY <1>0, <1>1, <1>3, <2>1 DEF TypeOK
<1>5. GaugeAgrees'
  <2>1. Cardinality(connections \cup {c}) = Cardinality(connections) + 1
    BY <1>0, <1>2, TypeFacts, FS_AddElement
  <2>2. QED
    BY <1>0, <1>1, <2>1 DEF GaugeAgrees
<1>6. \A d \in Conns : Bounded(queue'[d]) /\ Sorted(queue'[d])
  BY <1>1 DEF IInv
<1>7. BuffersBounded'
  BY <1>1, <1>3 DEF IInv, BuffersBounded, Extra
<1>8. FreshIds'
  BY <1>1, <1>3 DEF IInv, FreshIds
<1>9. ConnectionsSound'
  <2>1. SUFFICES ASSUME NEW d \in connections'
                 PROVE  Sound(sent[d], queue[d], offered[d], evicted[d], serial)
    BY <1>1 DEF ConnectionsSound
  <2>2. CASE d \in connections
    BY <2>2 DEF IInv, ConnectionsSound
  <2>3. CASE d = c
    <3>1. queue[d] = EmptyQueue /\ sent[d] = <<>> /\ offered[d] = <<>>
      BY <1>1, <2>3 DEF IInv, FreshIds
    <3>2. DOMAIN EmptyQueue.positions = {} /\ DOMAIN EmptyQueue.others = {}
      BY EmptyQueueTyped
    <3>3. QED
      BY <3>1, <3>2 DEF Sound, Increasing, Ordered, Precedes
  <2>4. QED
    BY <1>1, <2>2, <2>3
<1>10. QED
  BY <1>4, <1>5, <1>6, <1>7, <1>8, <1>9 DEF IInv

\* A subscription, valid or late, and a pong touch no queue.
LEMMA SubscribeKeeps ==
  ASSUME IInv, NEW c \in Conns, Subscribe(c)
  PROVE  IInv'
<1>1. /\ subscribed' = subscribed \cup {c}
      /\ UNCHANGED <<up, connections, alive, socket, silent, queue, buffered, active,
                     serial, bad, sent, offered, evicted>>
  BY DEF Subscribe, histVars
<1>2. TypeOK'
  BY <1>1 DEF IInv, TypeOK
<1>3. GaugeAgrees'
  BY <1>1 DEF IInv, GaugeAgrees
<1>4. bad \in Nat /\ \A d \in Conns : buffered[d] \in Nat
  BY TypeFacts DEF IInv
<1>5. QED
  BY <1>1, <1>2, <1>3, <1>4, QuietStep DEF histVars

LEMMA PongKeeps ==
  ASSUME IInv, NEW c \in Conns, Pong(c)
  PROVE  IInv'
<1>1. /\ alive' = [alive EXCEPT ![c] = TRUE]
      /\ UNCHANGED <<up, connections, subscribed, socket, silent, queue, buffered, active,
                     serial, bad, sent, offered, evicted>>
  BY DEF Pong, histVars
<1>2. TypeOK'
  BY <1>1 DEF IInv, TypeOK
<1>3. GaugeAgrees'
  BY <1>1 DEF IInv, GaugeAgrees
<1>4. bad \in Nat /\ \A d \in Conns : buffered[d] \in Nat
  BY TypeFacts DEF IInv
<1>5. QED
  BY <1>1, <1>2, <1>3, <1>4, QuietStep DEF histVars

\* An error envelope is paid for by the invalid message it answers.
LEMMA BadMessageKeeps ==
  ASSUME IInv, NEW c \in Conns, BadMessage(c)
  PROVE  IInv'
<1>0. TypeOK
  BY DEF IInv
<1>1. /\ bad < MaxBadMessages /\ bad' = bad + 1
      /\ Readable(c)
      /\ buffered' = IF socket[c] = "open" THEN [buffered EXCEPT ![c] = @ + 1] ELSE buffered
      /\ UNCHANGED <<up, connections, subscribed, alive, socket, silent, queue, active,
                     serial, sent, offered, evicted>>
  BY DEF BadMessage, histVars
<1>2. bad \in Nat /\ \A d \in Conns : buffered[d] \in Nat
  BY <1>0, TypeFacts
<1>3. /\ buffered' \in [Conns -> Nat]
      /\ \A d \in Conns : buffered'[d] <= buffered[d] + 1
      /\ \A d \in Conns : socket[d] = "none" => buffered'[d] = buffered[d]
  <2>1. CASE socket[c] = "open"
    BY <1>0, <1>1, <1>2, <2>1 DEF TypeOK
  <2>2. CASE socket[c] # "open"
    BY <1>0, <1>1, <1>2, <2>2 DEF TypeOK
  <2>3. QED
    BY <2>1, <2>2
<1>4. TypeOK'
  <2>1. bad' \in 0..MaxBadMessages
    BY <1>1, <1>2, GatewayFacts
  <2>2. QED
    BY <1>0, <1>1, <1>3, <2>1 DEF TypeOK
<1>5. GaugeAgrees'
  BY <1>1 DEF IInv, GaugeAgrees
<1>6. bad' - bad = 1 /\ bad' >= bad
  BY <1>1, <1>2
<1>7. QED
  BY <1>1, <1>3, <1>4, <1>5, <1>6, QuietStep DEF histVars

LEMMA TransmitKeeps ==
  ASSUME IInv, NEW c \in Conns, Transmit(c)
  PROVE  IInv'
<1>0. TypeOK
  BY DEF IInv
<1>1. /\ buffered[c] > 0 /\ Readable(c)
      /\ buffered' = [buffered EXCEPT ![c] = @ - 1]
      /\ UNCHANGED <<up, connections, subscribed, alive, socket, silent, queue, active,
                     serial, bad, sent, offered, evicted>>
  BY DEF Transmit, histVars
<1>2. bad \in Nat /\ \A d \in Conns : buffered[d] \in Nat
  BY <1>0, TypeFacts
<1>3. /\ buffered' \in [Conns -> Nat]
      /\ \A d \in Conns : buffered'[d] <= buffered[d]
      /\ \A d \in Conns : socket[d] = "none" => buffered'[d] = buffered[d]
  BY <1>0, <1>1, <1>2 DEF TypeOK, Readable
<1>4. TypeOK'
  BY <1>0, <1>1, <1>3 DEF TypeOK
<1>5. GaugeAgrees'
  BY <1>1 DEF IInv, GaugeAgrees
<1>6. bad' - bad = 0 /\ bad' >= bad
  BY <1>1, <1>2
<1>7. \A d \in Conns : buffered'[d] <= buffered[d] + 0
  BY <1>2, <1>3
<1>8. QED
  BY <1>1, <1>3, <1>4, <1>5, <1>6, <1>7, QuietStep DEF histVars

\* A socket changes state, and the connections it ends are cleaned up.
LEMMA SocketStep ==
  ASSUME IInv, NEW gone, Cleanup(gone), up' = up,
         alive' \in [Conns -> BOOLEAN],
         socket' \in [Conns -> Sockets],
         \A c \in Conns : /\ socket'[c] = "none" => socket[c] = "none"
                          /\ socket'[c] = "open" => socket[c] = "open",
         \A c \in connections \ gone : socket'[c] \in {"open", "closing"},
         UNCHANGED <<silent, queue, buffered, serial, bad, histVars>>
  PROVE  IInv'
<1>0. TypeOK /\ GaugeAgrees
  BY DEF IInv
<1>1. /\ connections' = connections \ gone /\ connections' \subseteq Conns
      /\ subscribed' \subseteq Conns /\ active' \in Int /\ GaugeAgrees'
  BY <1>0, CleanupCounts
<1>2. TypeOK'
  BY <1>0, <1>1 DEF TypeOK, histVars
<1>3. bad \in Nat /\ \A d \in Conns : buffered[d] \in Nat
  BY <1>0, TypeFacts
<1>4. bad' - bad = 0 /\ bad' >= bad /\ \A d \in Conns : buffered'[d] <= buffered[d] + 0
  BY <1>3
<1>5. QED
  BY <1>1, <1>2, <1>4, QuietStep

LEMMA HeartbeatKeeps ==
  ASSUME IInv, Heartbeat
  PROVE  IInv'
<1>0. TypeOK
  BY DEF IInv
<1>1. PICK dead : dead = {c \in connections : ~alive[c]}
  OBVIOUS
<1>2. /\ socket' = [c \in Conns |-> IF c \in dead THEN "closing" ELSE socket[c]]
      /\ alive' = [c \in Conns |-> alive[c] /\ c \notin connections]
      /\ Cleanup(dead)
      /\ UNCHANGED <<up, silent, queue, buffered, serial, bad, histVars>>
  BY <1>1 DEF Heartbeat
<1>3. /\ socket' \in [Conns -> Sockets]
      /\ \A c \in Conns : /\ socket'[c] = "none" => socket[c] = "none"
                          /\ socket'[c] = "open" => socket[c] = "open"
      /\ \A c \in connections \ dead : socket'[c] \in {"open", "closing"}
  BY <1>0, <1>2, TypeFacts DEF Sockets
<1>4. alive' \in [Conns -> BOOLEAN]
  <2>1. \A c \in Conns : (alive[c] /\ c \notin connections) \in BOOLEAN
    OBVIOUS
  <2>2. QED
    BY <1>2, <2>1
<1>5. QED
  BY <1>2, <1>3, <1>4, SocketStep

LEMMA PeerClosesKeeps ==
  ASSUME IInv, NEW c \in Conns, PeerCloses(c)
  PROVE  IInv'
<1>0. TypeOK
  BY DEF IInv
<1>1. /\ Readable(c) /\ socket' = [socket EXCEPT ![c] = "closing"]
      /\ UNCHANGED <<up, connections, subscribed, alive, silent, queue, buffered, active,
                     serial, bad, sent, offered, evicted>>
  BY DEF PeerCloses, histVars
<1>2. /\ socket' \in [Conns -> Sockets]
      /\ \A d \in Conns : /\ socket'[d] = "none" => socket[d] = "none"
                          /\ socket'[d] = "open" => socket[d] \in {"none", "open"}
      /\ \A d \in connections : socket'[d] \in {"open", "closing"}
  BY <1>0, <1>1, TypeFacts DEF TypeOK, Sockets
<1>3. TypeOK'
  BY <1>0, <1>1, <1>2 DEF TypeOK
<1>4. GaugeAgrees'
  BY <1>1 DEF IInv, GaugeAgrees
<1>5. bad \in Nat /\ \A d \in Conns : buffered[d] \in Nat
  BY <1>0, TypeFacts
<1>6. QED
  BY <1>1, <1>2, <1>3, <1>4, <1>5, QuietStep DEF histVars

LEMMA PeerVanishesKeeps ==
  ASSUME IInv, NEW c \in Conns, PeerVanishes(c)
  PROVE  IInv'
<1>1. /\ silent' = silent \cup {c}
      /\ UNCHANGED <<up, connections, subscribed, alive, socket, queue, buffered, active,
                     serial, bad, sent, offered, evicted>>
  BY DEF PeerVanishes, histVars
<1>2. TypeOK'
  BY <1>1 DEF IInv, TypeOK
<1>3. GaugeAgrees'
  BY <1>1 DEF IInv, GaugeAgrees
<1>4. bad \in Nat /\ \A d \in Conns : buffered[d] \in Nat
  BY TypeFacts DEF IInv
<1>5. QED
  BY <1>1, <1>2, <1>3, <1>4, QuietStep DEF histVars

LEMMA SocketErrorKeeps ==
  ASSUME IInv, NEW c \in Conns, SocketError(c)
  PROVE  IInv'
<1>0. TypeOK
  BY DEF IInv
<1>1. /\ socket[c] \in {"open", "shut"} /\ socket' = [socket EXCEPT ![c] = "closing"]
      /\ Cleanup({c})
      /\ UNCHANGED <<up, alive, silent, queue, buffered, serial, bad, histVars>>
  BY DEF SocketError
<1>2. /\ socket' \in [Conns -> Sockets]
      /\ \A d \in Conns : /\ socket'[d] = "none" => socket[d] = "none"
                          /\ socket'[d] = "open" => socket[d] = "open"
      /\ \A d \in connections \ {c} : socket'[d] \in {"open", "closing"}
  BY <1>0, <1>1, TypeFacts DEF TypeOK, Sockets
<1>3. alive' \in [Conns -> BOOLEAN]
  BY <1>0, <1>1 DEF TypeOK
<1>4. QED
  BY <1>1, <1>2, <1>3, SocketStep

LEMMA SocketClosedKeeps ==
  ASSUME IInv, NEW c \in Conns, SocketClosed(c)
  PROVE  IInv'
<1>0. TypeOK
  BY DEF IInv
<1>1. /\ socket[c] \in {"shut", "closing"} /\ socket' = [socket EXCEPT ![c] = "closed"]
      /\ Cleanup({c})
      /\ UNCHANGED <<up, alive, silent, queue, buffered, serial, bad, histVars>>
  BY DEF SocketClosed
<1>2. /\ socket' \in [Conns -> Sockets]
      /\ \A d \in Conns : /\ socket'[d] = "none" => socket[d] = "none"
                          /\ socket'[d] = "open" => socket[d] = "open"
      /\ \A d \in connections \ {c} : socket'[d] \in {"open", "closing"}
  BY <1>0, <1>1, TypeFacts DEF TypeOK, Sockets
<1>3. alive' \in [Conns -> BOOLEAN]
  BY <1>0, <1>1 DEF TypeOK
<1>4. QED
  BY <1>1, <1>2, <1>3, SocketStep

LEMMA ShutdownKeeps ==
  ASSUME IInv, Shutdown
  PROVE  IInv'
<1>0. TypeOK
  BY DEF IInv
<1>1. /\ up' = FALSE /\ connections' = {}
      /\ socket' = [c \in Conns |-> IF c \in connections THEN Shut(c) ELSE socket[c]]
      /\ UNCHANGED <<subscribed, alive, silent, queue, buffered, active, serial, bad, sent,
                     offered, evicted>>
  BY DEF Shutdown, histVars
<1>2. /\ socket' \in [Conns -> Sockets]
      /\ \A d \in Conns : /\ socket'[d] = "none" => socket[d] = "none"
                          /\ socket'[d] = "open" => socket[d] \in {"none", "open"}
  BY <1>0, <1>1, TypeFacts DEF Sockets, Shut
<1>3. TypeOK'
  BY <1>0, <1>1, <1>2 DEF TypeOK
<1>4. GaugeAgrees'
  BY <1>1 DEF GaugeAgrees
<1>5. bad \in Nat /\ \A d \in Conns : buffered[d] \in Nat
  BY <1>0, TypeFacts
<1>6. QED
  BY <1>1, <1>2, <1>3, <1>4, <1>5, QuietStep DEF histVars

-----------------------------------------------------------------------------
(***************************************************************************)
(* A fan-out, connection by connection.                                    *)
(***************************************************************************)

\* A connection the message does not reach.
Missed(c) ==
  /\ (c \in connections') <=> (c \in connections)
  /\ queue'[c] = queue[c] /\ sent'[c] = sent[c] /\ buffered'[c] = buffered[c]
  /\ offered'[c] = offered[c] /\ evicted'[c] = evicted[c] /\ socket'[c] = socket[c]

Refused(c, m) ==
  /\ c \in connections /\ c \notin connections'
  /\ queue'[c] = queue[c] /\ sent'[c] = sent[c] /\ evicted'[c] = evicted[c]
  /\ buffered'[c] = IF socket[c] = "open" THEN buffered[c] + 1 ELSE buffered[c]
  /\ offered'[c] = Append(offered[c], m)
  /\ socket'[c] = Shut(c)

Taken(c, m) ==
  /\ c \in connections /\ c \in connections'
  /\ ~Refuses(queue[c], m)
  /\ offered'[c] = Append(offered[c], m)
  /\ evicted'[c] = evicted[c] \cup EvictedBy(queue[c], m)
  /\ socket'[c] = socket[c]

Waits(c, m) ==
  /\ Taken(c, m)
  /\ queue'[c] = Enqueued(queue[c], m)
  /\ sent'[c] = sent[c] /\ buffered'[c] = buffered[c]

Flushed(c, m) ==
  /\ Taken(c, m)
  /\ socket[c] = "open" /\ buffered[c] < BufferedLimit
  /\ queue'[c] = EmptyQueue
  /\ sent'[c] = sent[c] \o Drained(Enqueued(queue[c], m))
  /\ buffered'[c] = buffered[c] + Size(Enqueued(queue[c], m))

Outcome(c, m) == Missed(c) \/ Refused(c, m) \/ Waits(c, m) \/ Flushed(c, m)

LEMMA FanOutOutcomes ==
  ASSUME NEW v, FanOut(v), connections \subseteq Conns
  PROVE  /\ \A c \in Conns : Outcome(c, [vessel |-> v, serial |-> serial + 1])
         /\ queue' = [c \in Conns |-> queue'[c]]
         /\ sent' = [c \in Conns |-> sent'[c]]
         /\ buffered' = [c \in Conns |-> buffered'[c]]
         /\ offered' = [c \in Conns |-> offered'[c]]
         /\ evicted' = [c \in Conns |-> evicted'[c]]
         /\ socket' = [c \in Conns |-> socket'[c]]
         /\ serial < MaxSerial /\ serial' = serial + 1
         /\ UNCHANGED <<up, alive, silent, bad>>
         /\ \E gone : Cleanup(gone)
<1> DEFINE m == [vessel |-> v, serial |-> serial + 1]
           reached == subscribed \cap connections
           refused == {c \in reached : Refuses(queue[c], m)}
           taken == reached \ refused
           flushed == {c \in taken : MayFlush(c)}
           after(c) == Enqueued(queue[c], m)
<1>1. /\ queue' = [c \in Conns |-> IF c \in flushed THEN EmptyQueue
                                   ELSE IF c \in taken THEN after(c) ELSE queue[c]]
      /\ sent' = [c \in Conns |->
           IF c \in flushed THEN sent[c] \o Drained(after(c)) ELSE sent[c]]
      /\ buffered' = [c \in Conns |->
           IF c \in flushed THEN buffered[c] + Size(after(c))
           ELSE IF c \in refused /\ socket[c] = "open" THEN buffered[c] + 1
           ELSE buffered[c]]
      /\ offered' = [c \in Conns |->
           IF c \in reached THEN Append(offered[c], m) ELSE offered[c]]
      /\ evicted' = [c \in Conns |->
           IF c \in taken /\ Evicts(queue[c], m)
             THEN evicted[c] \cup {Head(queue[c].positions)} ELSE evicted[c]]
      /\ socket' = [c \in Conns |-> IF c \in refused THEN Shut(c) ELSE socket[c]]
      /\ Cleanup(refused)
      /\ serial < MaxSerial /\ serial' = serial + 1
      /\ UNCHANGED <<up, alive, silent, bad>>
  BY DEF FanOut
<1>2. connections' = connections \ refused
  BY <1>1 DEF Cleanup
<1>3. ASSUME NEW c \in Conns
      PROVE  Outcome(c, m)
  <2>1. CASE c \notin reached
    <3>1. c \notin refused /\ c \notin taken /\ c \notin flushed
      BY <2>1
    <3>2. QED
      BY <1>1, <1>2, <2>1, <3>1 DEF Outcome, Missed
  <2>2. CASE c \in refused
    <3>1. c \in reached /\ c \notin taken /\ c \notin flushed /\ c \in connections
      BY <2>2
    <3>2. QED
      BY <1>1, <1>2, <2>2, <3>1 DEF Outcome, Refused
  <2>3. CASE c \in taken
    <3>1. c \in reached /\ c \notin refused /\ c \in connections /\ ~Refuses(queue[c], m)
      BY <2>3
    <3>2. evicted'[c] = evicted[c] \cup EvictedBy(queue[c], m)
      BY <1>1, <2>3 DEF EvictedBy
    <3>3. Taken(c, m)
      BY <1>1, <1>2, <3>1, <3>2 DEF Taken
    <3>4. CASE c \in flushed
      BY <1>1, <3>3, <3>4 DEF Outcome, Flushed, MayFlush
    <3>5. CASE c \notin flushed
      BY <1>1, <2>3, <3>1, <3>3, <3>5 DEF Outcome, Waits
    <3>6. QED
      BY <3>4, <3>5
  <2>4. QED
    BY <2>1, <2>2, <2>3
<1>4. /\ queue' = [c \in Conns |-> queue'[c]]
      /\ sent' = [c \in Conns |-> sent'[c]]
      /\ buffered' = [c \in Conns |-> buffered'[c]]
      /\ offered' = [c \in Conns |-> offered'[c]]
      /\ evicted' = [c \in Conns |-> evicted'[c]]
      /\ socket' = [c \in Conns |-> socket'[c]]
  BY <1>1
<1>5. \E gone : Cleanup(gone)
  BY <1>1
<1>6. QED
  BY <1>1, <1>3, <1>4, <1>5

\* Enqueue keeps what a connection has been given sound.
LEMMA EnqueueSound ==
  ASSUME NEW s \in Seq(Message), NEW q \in Queues, NEW o \in Seq(Message), NEW e,
         NEW n \in Nat, NEW m \in Message, m.serial = n + 1, Sound(s, q, o, e, n)
  PROVE  Sound(s, Enqueued(q, m), Append(o, m), e \cup EvictedBy(q, m), n + 1)
<1>1. CASE IsOther(m)
  <2>1. ~Evicts(q, m)
    BY <1>1 DEF Evicts, IsOther, IsPosition
  <2>2. e \cup EvictedBy(q, m) = e
    BY <2>1 DEF EvictedBy
  <2>3. QED
    BY <1>1, <2>2, EnqueueOther
<1>2. CASE ~IsOther(m)
  BY <1>2, EnqueuePosition
<1>3. QED
  BY <1>1, <1>2

\* A message that goes to others leaves a connection as sound as it was.
LEMMA SoundLater ==
  ASSUME NEW s, NEW q, NEW o \in Seq(Message), NEW e, NEW n \in Nat, Sound(s, q, o, e, n)
  PROVE  Sound(s, q, o, e, n + 1)
<1>1. \A i \in DOMAIN o : o[i].serial \in Nat /\ o[i].serial <= n
  BY MessageFacts DEF Sound
<1>2. \A i \in DOMAIN o : o[i].serial <= n + 1
  BY <1>1
<1>3. QED
  BY <1>2 DEF Sound

LEMMA EvictedTyped ==
  ASSUME NEW q \in Queues, NEW m \in Message
  PROVE  EvictedBy(q, m) \subseteq Message
BY KeptTyped, QueueFacts, MessageFacts DEF EvictedBy

\* Whatever the message does to one connection keeps its part of the invariant.
LEMMA OutcomeKeeps ==
  ASSUME IInv, bad' = bad, NEW c \in Conns, NEW m \in Message, m.serial = serial + 1,
         Outcome(c, m)
  PROVE  /\ queue'[c] \in Queues /\ Bounded(queue'[c]) /\ Sorted(queue'[c])
         /\ sent'[c] \in Seq(Message) /\ offered'[c] \in Seq(Message)
         /\ evicted'[c] \in SUBSET Message /\ socket'[c] \in Sockets
         /\ buffered'[c] \in Nat
         /\ buffered'[c] <= BufferedLimit - 1 + MaxEntries + bad' + Extra(c)'
         /\ socket'[c] = "none" =>
              /\ queue'[c] = EmptyQueue /\ buffered'[c] = 0
              /\ sent'[c] = <<>> /\ offered'[c] = <<>> /\ evicted'[c] = {}
         /\ c \in connections' =>
              /\ socket'[c] \in {"open", "closing"}
              /\ Sound(sent'[c], queue'[c], offered'[c], evicted'[c], serial + 1)
<1>1. TypeOK
  BY DEF IInv
<1>2. /\ socket[c] \in Sockets /\ buffered[c] \in Nat /\ queue[c] \in Queues
      /\ sent[c] \in Seq(Message) /\ offered[c] \in Seq(Message)
      /\ evicted[c] \in SUBSET Message
      /\ bad \in Nat /\ serial \in Nat
      /\ c \in connections => socket[c] \in {"open", "closing"}
  BY <1>1, TypeFacts
<1>3. Bounded(queue[c]) /\ Sorted(queue[c])
  BY DEF IInv
<1>4. buffered[c] <= BufferedLimit - 1 + MaxEntries + bad + Extra(c)
  BY DEF IInv, BuffersBounded
<1>5. c \in connections => Sound(sent[c], queue[c], offered[c], evicted[c], serial)
  BY DEF IInv, ConnectionsSound
<1>6. BufferedLimit \in Nat \ {0} /\ MaxEntries \in Nat /\ Extra(c) \in Nat
  BY GatewayFacts DEF Extra
<1>7. CASE Missed(c)
  <2>1. Extra(c)' = Extra(c)
    BY <1>7 DEF Missed, Extra
  <2>2. c \in connections' =>
          Sound(sent'[c], queue'[c], offered'[c], evicted'[c], serial + 1)
    BY <1>2, <1>5, <1>7, SoundLater DEF Missed
  <2>3. socket[c] = "none" =>
          /\ queue[c] = EmptyQueue /\ buffered[c] = 0
          /\ sent[c] = <<>> /\ offered[c] = <<>> /\ evicted[c] = {}
    BY DEF IInv, FreshIds
  <2>4. QED
    BY <1>2, <1>3, <1>4, <1>7, <2>1, <2>2, <2>3 DEF Missed
<1>8. CASE Refused(c, m)
  <2>1. socket'[c] = (IF socket[c] = "open" THEN "shut" ELSE socket[c])
        /\ socket[c] \in {"open", "closing"}
    BY <1>2, <1>8 DEF Refused, Shut
  <2>2. buffered'[c] <= BufferedLimit - 1 + MaxEntries + bad' + Extra(c)'
    <3>1. CASE socket[c] = "open"
      <4>1. buffered'[c] = buffered[c] + 1 /\ Extra(c) = 0 /\ Extra(c)' = 1
        BY <1>8, <2>1, <3>1 DEF Refused, Extra
      <4>2. QED
        BY <1>2, <1>4, <1>6, <4>1
    <3>2. CASE socket[c] # "open"
      <4>1. buffered'[c] = buffered[c] /\ Extra(c)' = Extra(c)
        BY <1>8, <2>1, <3>2 DEF Refused, Extra
      <4>2. QED
        BY <1>2, <1>4, <1>6, <4>1
    <3>3. QED
      BY <3>1, <3>2
  <2>3. offered'[c] \in Seq(Message)
    BY <1>2, <1>8 DEF Refused
  <2>4. QED
    BY <1>2, <1>3, <1>8, <2>1, <2>2, <2>3 DEF Refused, Sockets
<1>9. ASSUME Taken(c, m)
      PROVE  /\ Enqueued(queue[c], m) \in Queues
             /\ Bounded(Enqueued(queue[c], m)) /\ Sorted(Enqueued(queue[c], m))
             /\ offered'[c] \in Seq(Message) /\ evicted'[c] \in SUBSET Message
             /\ socket'[c] \in {"open", "closing"} /\ socket'[c] = socket[c]
             /\ Extra(c)' = Extra(c)
             /\ Sound(sent[c], Enqueued(queue[c], m), offered'[c], evicted'[c], serial + 1)
  <2>1. /\ offered'[c] = Append(offered[c], m) /\ socket'[c] = socket[c]
        /\ evicted'[c] = evicted[c] \cup EvictedBy(queue[c], m)
        /\ c \in connections /\ ~Refuses(queue[c], m)
    BY <1>9 DEF Taken
  <2>2. Sound(sent[c], Enqueued(queue[c], m), offered'[c], evicted'[c], serial + 1)
    BY <1>2, <1>5, <2>1, EnqueueSound
  <2>3. QED
    BY <1>2, <1>3, <2>1, <2>2, EnqueuedTyped, EnqueuedBounded, EvictedTyped DEF Extra
<1>10. CASE Waits(c, m)
  <2>1. Taken(c, m) /\ queue'[c] = Enqueued(queue[c], m)
        /\ sent'[c] = sent[c] /\ buffered'[c] = buffered[c]
    BY <1>10 DEF Waits
  <2>2. QED
    BY <1>2, <1>4, <1>9, <2>1 DEF Sockets
<1>11. CASE Flushed(c, m)
  <2>1. /\ Taken(c, m) /\ socket[c] = "open" /\ buffered[c] < BufferedLimit
        /\ queue'[c] = EmptyQueue
        /\ sent'[c] = sent[c] \o Drained(Enqueued(queue[c], m))
        /\ buffered'[c] = buffered[c] + Size(Enqueued(queue[c], m))
    BY <1>11 DEF Flushed
  <2>2. Size(Enqueued(queue[c], m)) \in Nat /\ Size(Enqueued(queue[c], m)) <= MaxEntries
    BY <1>9, <2>1, QueueFacts DEF Bounded
  <2>3. /\ buffered'[c] \in Nat
        /\ buffered'[c] <= BufferedLimit - 1 + MaxEntries + bad' + Extra(c)'
    <3>1. Extra(c)' = Extra(c)
      BY <1>9, <2>1
    <3>2. QED
      BY <1>2, <1>6, <2>1, <2>2, <3>1
  <2>4. Sound(sent'[c], queue'[c], offered'[c], evicted'[c], serial + 1)
    BY <1>2, <1>9, <2>1, FlushSound
  <2>5. sent'[c] \in Seq(Message)
    BY <1>2, <1>9, <2>1, GivenSound
  <2>6. QED
    BY <1>9, <2>1, <2>3, <2>4, <2>5, EmptyQueueTyped DEF Sockets
<1>12. QED
  BY <1>7, <1>8, <1>10, <1>11 DEF Outcome

LEMMA FanOutKeeps ==
  ASSUME IInv, NEW v \in Vessels \cup {NoVessel}, FanOut(v)
  PROVE  IInv'
<1>0. TypeOK /\ GaugeAgrees
  BY DEF IInv
<1>1. /\ \A c \in Conns : Outcome(c, [vessel |-> v, serial |-> serial + 1])
      /\ queue' = [c \in Conns |-> queue'[c]]
      /\ sent' = [c \in Conns |-> sent'[c]]
      /\ buffered' = [c \in Conns |-> buffered'[c]]
      /\ offered' = [c \in Conns |-> offered'[c]]
      /\ evicted' = [c \in Conns |-> evicted'[c]]
      /\ socket' = [c \in Conns |-> socket'[c]]
      /\ serial < MaxSerial /\ serial' = serial + 1
      /\ UNCHANGED <<up, alive, silent, bad>>
      /\ \E gone : Cleanup(gone)
  BY <1>0, FanOutOutcomes, TypeFacts
<1>2. serial \in Nat /\ serial' \in 0..MaxSerial
  BY <1>0, <1>1, GatewayFacts, TypeFacts
<1>3. PICK m \in Message : m = [vessel |-> v, serial |-> serial + 1]
  <2>1. serial + 1 \in Nat
    BY <1>2
  <2>2. [vessel |-> v, serial |-> serial + 1] \in Message
    BY <2>1 DEF Message
  <2>3. QED
    BY <2>2
<1>4. m.serial = serial + 1 /\ \A c \in Conns : Outcome(c, m)
  BY <1>1, <1>3
<1>5. \A c \in Conns :
        /\ queue'[c] \in Queues /\ Bounded(queue'[c]) /\ Sorted(queue'[c])
        /\ sent'[c] \in Seq(Message) /\ offered'[c] \in Seq(Message)
        /\ evicted'[c] \in SUBSET Message /\ socket'[c] \in Sockets
        /\ buffered'[c] \in Nat
        /\ buffered'[c] <= BufferedLimit - 1 + MaxEntries + bad' + Extra(c)'
        /\ socket'[c] = "none" =>
             /\ queue'[c] = EmptyQueue /\ buffered'[c] = 0
             /\ sent'[c] = <<>> /\ offered'[c] = <<>> /\ evicted'[c] = {}
        /\ c \in connections' =>
             /\ socket'[c] \in {"open", "closing"}
             /\ Sound(sent'[c], queue'[c], offered'[c], evicted'[c], serial + 1)
  BY <1>1, <1>4, OutcomeKeeps
<1>6. /\ connections' \subseteq Conns /\ subscribed' \subseteq Conns /\ active' \in Int
      /\ GaugeAgrees'
  <2>1. PICK gone : Cleanup(gone)
    BY <1>1
  <2>2. QED
    BY <1>0, <1>1, <2>1, CleanupCounts
<1>7. TypeOK'
  <2>1. /\ queue' \in [Conns -> Queues] /\ sent' \in [Conns -> Seq(Message)]
        /\ buffered' \in [Conns -> Nat] /\ offered' \in [Conns -> Seq(Message)]
        /\ evicted' \in [Conns -> SUBSET Message] /\ socket' \in [Conns -> Sockets]
    BY <1>1, <1>5
  <2>2. \A c \in connections' : socket'[c] \in {"open", "closing"}
    BY <1>5, <1>6
  <2>3. QED
    BY <1>0, <1>1, <1>2, <1>6, <2>1, <2>2 DEF TypeOK, Queues
<1>8. BuffersBounded' /\ FreshIds'
  BY <1>5 DEF BuffersBounded, FreshIds
<1>9. ConnectionsSound'
  BY <1>1, <1>5, <1>6 DEF ConnectionsSound
<1>10. QED
  BY <1>5, <1>6, <1>7, <1>8, <1>9 DEF IInv

-----------------------------------------------------------------------------
(***************************************************************************)
(* Theorems.                                                               *)
(***************************************************************************)

LEMMA StutterKeeps ==
  ASSUME IInv, UNCHANGED vars
  PROVE  IInv'
<1>1. UNCHANGED <<up, connections, subscribed, alive, socket, silent, queue, buffered,
                  active, serial, bad, sent, offered, evicted>>
  BY DEF vars
<1>2. TypeOK' /\ GaugeAgrees'
  BY <1>1 DEF IInv, TypeOK, GaugeAgrees
<1>3. \A c \in Conns : Bounded(queue'[c]) /\ Sorted(queue'[c])
  BY <1>1 DEF IInv
<1>4. BuffersBounded' /\ FreshIds'
  BY <1>1 DEF IInv, BuffersBounded, FreshIds, Extra
<1>5. ConnectionsSound'
  BY <1>1 DEF IInv, ConnectionsSound
<1>6. QED
  BY <1>2, <1>3, <1>4, <1>5 DEF IInv

LEMMA InitEstablishes ==
  ASSUME Init
  PROVE  IInv
<1>1. TypeOK
  <2>1. queue \in [Conns -> [positions : Seq(Message), others : Seq(Message)]]
    BY EmptyQueueTyped DEF Init, Queues
  <2>2. sent \in [Conns -> Seq(Message)] /\ offered \in [Conns -> Seq(Message)]
    BY DEF Init
  <2>3. QED
    BY <2>1, <2>2, GatewayFacts DEF Init, TypeOK, Sockets
<1>2. GaugeAgrees
  BY FS_EmptySet DEF Init, GaugeAgrees
<1>3. \A c \in Conns : Bounded(queue[c]) /\ Sorted(queue[c])
  BY EmptyQueueTyped DEF Init
<1>4. BuffersBounded /\ FreshIds
  BY GatewayFacts DEF Init, BuffersBounded, FreshIds, Extra
<1>5. ConnectionsSound
  BY DEF Init, ConnectionsSound
<1>6. QED
  BY <1>1, <1>2, <1>3, <1>4, <1>5 DEF IInv

\* Connections, fan-outs, heartbeats, failures and the shutdown keep the invariant.
THEOREM GatewayInvariant == Spec => []IInv
<1>1. Init => IInv
  BY InitEstablishes
<1>2. IInv /\ [Next]_vars => IInv'
  <2>1. SUFFICES ASSUME IInv, [Next]_vars
                 PROVE  IInv'
    OBVIOUS
  <2>2. ASSUME NEW c \in Conns,
               \/ Connect(c) \/ Subscribe(c) \/ BadMessage(c) \/ Pong(c) \/ Transmit(c)
               \/ PeerCloses(c) \/ PeerVanishes(c) \/ SocketError(c) \/ SocketClosed(c)
        PROVE  IInv'
    BY <2>1, <2>2, ConnectKeeps, SubscribeKeeps, BadMessageKeeps, PongKeeps, TransmitKeeps,
       PeerClosesKeeps, PeerVanishesKeeps, SocketErrorKeeps, SocketClosedKeeps
  <2>3. ASSUME NEW v \in Vessels \cup {NoVessel}, FanOut(v)
        PROVE  IInv'
    BY <2>1, <2>3, FanOutKeeps
  <2>4. CASE Heartbeat
    BY <2>1, <2>4, HeartbeatKeeps
  <2>5. CASE Shutdown
    BY <2>1, <2>5, ShutdownKeeps
  <2>6. CASE UNCHANGED vars
    BY <2>1, <2>6, StutterKeeps
  <2>7. QED
    BY <2>1, <2>2, <2>3, <2>4, <2>5, <2>6 DEF Next
<1>3. QED
  BY <1>1, <1>2, PTL DEF Spec

\* The gateway's state keeps its types, and every connection in the Map has a socket that
\* is open or has only just been closed by its peer (RealtimeGateway.connections).
THEOREM GatewayTypes == Spec => []TypeOK
<1>1. IInv => TypeOK
  BY DEF IInv
<1>2. QED
  BY <1>1, GatewayInvariant, PTL

\* SendQueue, flush and cleanup: a client's queue and socket buffer are bounded, and the
\* gauge counts each connection's end once, however messages, stalls and ends interleave.
THEOREM ResourcesStayBounded == Spec => []ResourcesBounded
<1>1. IInv => ResourcesBounded
  <2>1. SUFFICES ASSUME IInv
                 PROVE  ResourcesBounded
    OBVIOUS
  <2>2. QueueBounded
    BY <2>1 DEF IInv, Bounded, QueueBounded
  <2>3. BufferBounded
    <3>1. SUFFICES ASSUME NEW c \in Conns
                   PROVE  buffered[c] < BufferedLimit + MaxEntries + 1 + MaxBadMessages
      BY DEF BufferBounded
    <3>2. buffered[c] <= BufferedLimit - 1 + MaxEntries + bad + Extra(c)
      BY <2>1 DEF IInv, BuffersBounded
    <3>3. /\ buffered[c] \in Nat /\ bad \in 0..MaxBadMessages
          /\ Extra(c) \in 0..1
      BY <2>1 DEF IInv, TypeOK, Extra
    <3>4. QED
      BY <3>2, <3>3, GatewayFacts
  <2>4. GaugeAgrees
    BY <2>1 DEF IInv
  <2>5. QED
    BY <2>2, <2>3, <2>4 DEF ResourcesBounded
<1>2. QED
  BY <1>1, GatewayInvariant, PTL

\* What the invariant says of the messages given to a connection.
LEMMA GivenFacts ==
  ASSUME IInv, NEW c \in connections
  PROVE  /\ Given(c) \in Seq(Message)
         /\ Ordered(Given(c))
         /\ \A i \in DOMAIN Given(c) : Has(offered[c], Given(c)[i])
         /\ \A i \in DOMAIN offered[c] : IsOther(offered[c][i]) => Has(Given(c), offered[c][i])
         /\ \A i \in DOMAIN offered[c] :
              IsPosition(offered[c][i]) /\ Newest(offered[c], i) =>
                offered[c][i] \in evicted[c] \/ Has(Given(c), offered[c][i])
<1>1. /\ sent[c] \in Seq(Message) /\ offered[c] \in Seq(Message) /\ queue[c] \in Queues
      /\ serial \in Nat /\ c \in Conns
  BY TypeFacts DEF IInv
<1>2. /\ Bounded(queue[c]) /\ Sorted(queue[c])
      /\ Sound(sent[c], queue[c], offered[c], evicted[c], serial)
  BY <1>1 DEF IInv, ConnectionsSound
<1>3. QED
  BY <1>1, <1>2, GivenSound DEF Given

\* SendQueue.drain and the flush: while a client stays connected, every static and
\* enrichment message fanned out to it is sent or queued, none before an earlier one.
THEOREM OthersStayInOrder == Spec => []OthersInOrder
<1>1. IInv => OthersInOrder
  <2>1. SUFFICES ASSUME IInv, NEW c \in connections
                 PROVE  /\ {Given(c)[i] : i \in OthersIn(Given(c))}
                             = {offered[c][i] : i \in OthersIn(offered[c])}
                        /\ \A i, j \in OthersIn(Given(c)) :
                             i < j => Given(c)[i].serial < Given(c)[j].serial
    BY DEF OthersInOrder
  <2>2. \A i \in OthersIn(Given(c)) : \E j \in OthersIn(offered[c]) :
          offered[c][j] = Given(c)[i]
    BY <2>1, GivenFacts DEF OthersIn, Has
  <2>3. \A i \in OthersIn(offered[c]) : \E j \in OthersIn(Given(c)) :
          Given(c)[j] = offered[c][i]
    BY <2>1, GivenFacts DEF OthersIn, Has
  <2>4. \A i, j \in OthersIn(Given(c)) : i < j => Given(c)[i].serial < Given(c)[j].serial
    BY <2>1, GivenFacts DEF OthersIn, IsOther, Ordered
  <2>5. QED
    BY <2>2, <2>3, <2>4
<1>2. QED
  BY <1>1, GatewayInvariant, PTL

\* SendQueue.enqueue: the positions of one vessel are given in fan-out order, and the
\* newest is sent, queued or evicted, across replacements, evictions and stalled sockets.
THEOREM NewestPositionStays == Spec => []NewestPositionWins
<1>1. IInv => NewestPositionWins
  <2>1. SUFFICES ASSUME IInv, NEW c \in connections
                 PROVE  /\ \A i, j \in DOMAIN Given(c) :
                             i < j /\ IsPosition(Given(c)[i])
                             /\ Given(c)[i].vessel = Given(c)[j].vessel
                               => Given(c)[i].serial < Given(c)[j].serial
                        /\ \A i \in DOMAIN offered[c] :
                             /\ IsPosition(offered[c][i])
                             /\ \A j \in DOMAIN offered[c] :
                                  j > i => offered[c][j].vessel # offered[c][i].vessel
                             => \/ offered[c][i] \in evicted[c]
                                \/ \E k \in DOMAIN Given(c) : Given(c)[k] = offered[c][i]
    BY DEF NewestPositionWins
  <2>2. QED
    BY <2>1, GivenFacts DEF Ordered, Newest, Has
<1>2. QED
  BY <1>1, GatewayInvariant, PTL
=============================================================================
