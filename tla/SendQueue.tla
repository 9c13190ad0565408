------------------------------ MODULE SendQueue ------------------------------
(***************************************************************************)
(* The send queue of one WebSocket connection (SendQueue): positions, one  *)
(* per vessel, in a Map; static and enrichment messages in a FIFO.  A      *)
(* message is the serial number of its fan-out and, for a position, its    *)
(* vessel.                                                                 *)
(***************************************************************************)
EXTENDS Integers, Sequences

CONSTANTS Vessels,    \* MMSIs
          NoVessel,   \* the vessel of a static or enrichment message
          MaxEntries  \* WS_SEND_QUEUE_MAX

ASSUME QueueAssumption ==
  /\ NoVessel \notin Vessels
  /\ MaxEntries \in Nat \ {0}

Message == [vessel : Vessels \cup {NoVessel}, serial : Nat]

IsPosition(msg) == msg.vessel # NoVessel
IsOther(msg) == msg.vessel = NoVessel

EmptyQueue == [positions |-> <<>>, others |-> <<>>]

Size(q) == Len(q.positions) + Len(q.others)
Full(q) == Size(q) >= MaxEntries
Holds(q, v) == \E i \in DOMAIN q.positions : q.positions[i].vessel = v

\* Mutant: a full queue takes a message for a vessel it does not hold.
RefusesOnlyOthers(q, msg) == Full(q) /\ IsOther(msg)

\* enqueue returns queue_overflow.
Refuses(q, msg) ==
  /\ Full(q)
  /\ IsOther(msg) \/ (~Holds(q, msg.vessel) /\ q.positions = <<>>)

\* enqueue evicts the first key of the Map.
Evicts(q, msg) ==
  Full(q) /\ IsPosition(msg) /\ ~Holds(q, msg.vessel) /\ q.positions # <<>>

\* Mutant: the position already queued for the vessel is kept.
PutUnlessHeld(ps, msg) ==
  IF \E i \in DOMAIN ps : ps[i].vessel = msg.vessel THEN ps ELSE Append(ps, msg)

\* Map.set: a position already there is replaced where it stands.
Put(ps, msg) ==
  IF \E i \in DOMAIN ps : ps[i].vessel = msg.vessel
    THEN [i \in DOMAIN ps |-> IF ps[i].vessel = msg.vessel THEN msg ELSE ps[i]]
    ELSE Append(ps, msg)

\* The queue after enqueue of a message it does not refuse.
Enqueued(q, msg) ==
  IF IsOther(msg)
    THEN [q EXCEPT !.others = Append(@, msg)]
    ELSE [q EXCEPT !.positions = Put(IF Evicts(q, msg) THEN Tail(@) ELSE @, msg)]

\* Mutant: drain from the wrong end of the FIFO.
DrainedReversed(q) ==
  [i \in 1..Len(q.others) |-> q.others[Len(q.others) + 1 - i]] \o q.positions

\* What drain returns: static and enrichment messages first.
Drained(q) == q.others \o q.positions
=============================================================================
