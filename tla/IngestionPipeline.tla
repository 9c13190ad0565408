-------------------------- MODULE IngestionPipeline --------------------------
(***************************************************************************)
(* The ingestion pipeline (IngestionPipelineService with DedupService and  *)
(* SamplerService).  The adapter's callback starts a handle() per raw      *)
(* message and does not wait for it, so handles of one vessel overlap at   *)
(* every await: the dedup SET NX, geo validation, the sampler's GET and    *)
(* SET, and the XADD.  Redis executes one command at a time; a command     *)
(* whose reply is lost fails, executed or not, or is sent again.           *)
(***************************************************************************)
EXTENDS Integers, Sequences, FiniteSets

CONSTANTS Handles,           \* handle() calls that can be in flight at once
          Mmsis,
          Navs,              \* navigation statuses
          NoNav,             \* navStatus absent
          MaxTime,           \* bound: occurredAt is in 0..MaxTime
          MovingWindow,      \* SAMPLER_MOVING_WINDOW_SECONDS
          StationaryWindow,  \* SAMPLER_STATIONARY_WINDOW_SECONDS
          MaxReceived,       \* bound: raw messages
          MaxFaults          \* bound: failed or repeated commands, crashes, expired keys

ASSUME PipelineAssumption ==
  /\ IsFiniteSet(Handles)
  /\ NoNav \notin Navs
  /\ MaxTime \in Nat
  /\ MovingWindow \in Nat /\ StationaryWindow \in Nat
  /\ MaxReceived \in Nat
  /\ MaxFaults \in Nat

Times == 0..MaxTime

\* Canonical events; moving: sog reaches SAMPLER_STATIONARY_SOG_KN.
Positions == [kind : {"position"}, mmsi : Mmsis, at : Times,
              nav : Navs \cup {NoNav}, moving : BOOLEAN]
Statics == [kind : {"static"}, mmsi : Mmsis, at : Times, nav : {NoNav}, moving : {FALSE}]
Events == Positions \cup Statics

NoEvent == [kind |-> "none"]

\* The await a handle is at; "free" runs nothing.
Phases == {"free", "dedup", "geo", "get", "set", "publish"}

\* The sampler key holds nothing.
NoState == [at |-> -1, nav |-> NoNav]
SamplerStates == [at : Times, nav : Navs \cup {NoNav}] \cup {NoState}

VARIABLES
  seen,      \* dedup keys in Redis: <<mmsi, at>>
  sampler,   \* per vessel: the sampler key in Redis
  stream,    \* events added to ais.events.v1
  phase,     \* per handle
  event,     \* per handle: the event it carries, NoEvent while free
  received,  \* raw messages so far
  faults,    \* faults so far
  expired,   \* history: per vessel and time, how often its dedup key expired
  repeated,  \* history: per vessel and time, XADDs executed and sent again
  emitted,   \* history: events the sampler state was written for
  sampled,   \* history: events dropped by the sampler
  lost       \* history: events whose handle failed or died from the sampler's SET on

redisVars == <<seen, sampler, stream>>
histVars == <<expired, repeated, emitted, sampled, lost>>
vars == <<redisVars, phase, event, received, faults, histVars>>

TypeOK ==
  /\ seen \subseteq Mmsis \X Times
  /\ sampler \in [Mmsis -> SamplerStates]
  /\ stream \in Seq(Events)
  /\ phase \in [Handles -> Phases]
  /\ event \in [Handles -> Events \cup {NoEvent}]
  /\ received \in 0..MaxReceived
  /\ faults \in 0..MaxFaults
  /\ expired \in [Mmsis -> [Times -> Nat]]
  /\ repeated \in [Mmsis -> [Times -> Nat]]
  /\ emitted \subseteq Positions
  /\ sampled \subseteq Positions
  /\ lost \subseteq Events
  /\ \A h \in Handles : (phase[h] = "free") <=> (event[h] = NoEvent)
  /\ \A h \in Handles : phase[h] \in {"geo", "get", "set"} => event[h] \in Positions

Init ==
  /\ seen = {}
  /\ sampler = [m \in Mmsis |-> NoState]
  /\ stream = <<>>
  /\ phase = [h \in Handles |-> "free"]
  /\ event = [h \in Handles |-> NoEvent]
  /\ received = 0 /\ faults = 0
  /\ expired = [m \in Mmsis |-> [t \in Times |-> 0]]
  /\ repeated = [m \in Mmsis |-> [t \in Times |-> 0]]
  /\ emitted = {} /\ sampled = {} /\ lost = {}

Fault == faults < MaxFaults /\ faults' = faults + 1

Goto(h, p) == phase' = [phase EXCEPT ![h] = p] /\ UNCHANGED event

\* The handle is over: published, dropped or failed.
Done(h) == phase' = [phase EXCEPT ![h] = "free"] /\ event' = [event EXCEPT ![h] = NoEvent]

-----------------------------------------------------------------------------
(* handle(), await by await.                                               *)

\* A raw message arrives.  What the normalizer rejects is dropped on the spot.
Receive(h) ==
  /\ phase[h] = "free"
  /\ received < MaxReceived
  /\ received' = received + 1
  /\ \/ \E e \in Events : /\ event' = [event EXCEPT ![h] = e]
                         /\ phase' = [phase EXCEPT ![h] = "dedup"]
     \/ UNCHANGED <<event, phase>>
  /\ UNCHANGED <<redisVars, faults, histVars>>

Key(e) == <<e.mmsi, e.at>>

\* Mutant: SET without NX.
AcceptsAnyway(e) == TRUE

\* SET NX replied OK.
Accepts(e) == Key(e) \notin seen

\* dedup.shouldAccept: a duplicate, and a position outside the coverage, is dropped;
\* a static event goes straight to the stream.  A failed SET may have been executed.
Dedup(h) ==
  LET e == event[h] IN
  /\ phase[h] = "dedup"
  /\ \/ /\ seen' = seen \cup {Key(e)}
        /\ \/ Accepts(e) /\ Goto(h, IF e.kind = "position" THEN "geo" ELSE "publish")
           \/ (~Accepts(e) \/ e.kind = "position") /\ Done(h)
        /\ UNCHANGED faults
     \/ seen' \in {seen, seen \cup {Key(e)}} /\ Done(h) /\ Fault
  /\ UNCHANGED <<sampler, stream, received, histVars>>

\* Geo validation keeps the position or drops it; it does not throw.
Geo(h) ==
  /\ phase[h] = "geo"
  /\ Goto(h, "get") \/ Done(h)
  /\ UNCHANGED <<redisVars, received, faults, histVars>>

WindowOf(e) == IF e.moving THEN MovingWindow ELSE StationaryWindow

\* shouldEmit's decision on the state it read.
Emits(e, state) ==
  \/ state = NoState
  \/ e.nav # NoNav /\ e.nav # state.nav
  \/ e.at - state.at >= WindowOf(e)

\* Mutant: the sampler state is written before the decision.
SamplerGetWrites(h) ==
  LET e == event[h] IN
  /\ phase[h] = "get"
  /\ sampler' = [sampler EXCEPT ![e.mmsi] = [at |-> e.at, nav |-> e.nav]]
  /\ \/ /\ Emits(e, sampler[e.mmsi]) /\ Goto(h, "publish")
        /\ emitted' = emitted \cup {e} /\ UNCHANGED sampled
     \/ /\ ~Emits(e, sampler[e.mmsi]) /\ Done(h)
        /\ sampled' = sampled \cup {e} /\ UNCHANGED emitted
  /\ UNCHANGED <<seen, stream, received, faults, expired, repeated, lost>>

\* The sampler's GET.
SamplerGet(h) ==
  LET e == event[h] IN
  /\ phase[h] = "get"
  /\ \/ /\ Emits(e, sampler[e.mmsi])
        /\ Goto(h, "set")
        /\ UNCHANGED <<sampled, faults>>
     \/ /\ ~Emits(e, sampler[e.mmsi])
        /\ sampled' = sampled \cup {e}
        /\ Done(h)
        /\ UNCHANGED faults
     \/ Done(h) /\ Fault /\ UNCHANGED sampled
  /\ UNCHANGED <<redisVars, received, expired, repeated, emitted, lost>>

Written(e) ==
  /\ sampler' = [sampler EXCEPT ![e.mmsi] = [at |-> e.at, nav |-> e.nav]]
  /\ emitted' = emitted \cup {e}

\* The sampler's SET, whatever another handle has written since the GET.
SamplerSet(h) ==
  LET e == event[h] IN
  /\ phase[h] = "set"
  /\ \/ Written(e) /\ Goto(h, "publish") /\ UNCHANGED <<faults, lost>>
     \/ /\ Written(e) \/ UNCHANGED <<sampler, emitted>>
        /\ Done(h)
        /\ lost' = lost \cup {e}
        /\ Fault
  /\ UNCHANGED <<seen, stream, received, expired, repeated, sampled>>

\* Mutant: the handle keeps the event it has published.
PublishKeepsHandle(h) ==
  /\ phase[h] = "publish"
  /\ phase' = [phase EXCEPT ![h] = "free"]
  /\ stream' = Append(stream, event[h])
  /\ UNCHANGED <<event, faults, lost, seen, sampler, received, expired, repeated,
                 emitted, sampled>>

\* bus.publish.
Publish(h) ==
  LET e == event[h] IN
  /\ phase[h] = "publish"
  /\ Done(h)
  /\ \/ stream' = Append(stream, e) /\ UNCHANGED <<faults, lost>>
     \/ /\ stream' \in {stream, Append(stream, e)}
        /\ lost' = lost \cup {e}
        /\ Fault
  /\ UNCHANGED <<seen, sampler, received, expired, repeated, emitted, sampled>>

\* The connection breaks after Redis executed the command and before its reply, and the
\* client (RedisService, which leaves autoResendUnfulfilledCommands on) sends it again on
\* the next one: the handle is still at its await, with the command done once.  A SET NX
\* then finds its own key, so that Dedup drops the event as a duplicate.
Resend(h) ==
  LET e == event[h] IN
  /\ \/ /\ phase[h] = "dedup"
        /\ seen' = seen \cup {Key(e)}
        /\ UNCHANGED <<sampler, emitted, stream, repeated>>
     \/ /\ phase[h] = "set"
        /\ Written(e)
        /\ UNCHANGED <<seen, stream, repeated>>
     \/ /\ phase[h] = "publish"
        /\ stream' = Append(stream, e)
        /\ repeated' = [repeated EXCEPT ![e.mmsi][e.at] = @ + 1]
        /\ UNCHANGED <<seen, sampler, emitted>>
  /\ Fault
  /\ UNCHANGED <<phase, event, received, expired, sampled, lost>>

\* The process dies with its handles.
Crash ==
  /\ Fault
  /\ phase' = [h \in Handles |-> "free"]
  /\ event' = [h \in Handles |-> NoEvent]
  /\ lost' = lost \cup {event[h] : h \in {i \in Handles : phase[i] \in {"set", "publish"}}}
  /\ UNCHANGED <<redisVars, received, expired, repeated, emitted, sampled>>

DedupExpires(m, t) ==
  /\ <<m, t>> \in seen
  /\ Fault
  /\ seen' = seen \ {<<m, t>>}
  /\ expired' = [expired EXCEPT ![m][t] = @ + 1]
  /\ UNCHANGED <<sampler, stream, phase, event, received, repeated, emitted, sampled, lost>>

SamplerExpires(m) ==
  /\ sampler[m] # NoState
  /\ Fault
  /\ sampler' = [sampler EXCEPT ![m] = NoState]
  /\ UNCHANGED <<seen, stream, phase, event, received, histVars>>

Next ==
  \/ \E h \in Handles :
       \/ Receive(h) \/ Dedup(h) \/ Geo(h) \/ SamplerGet(h) \/ SamplerSet(h) \/ Publish(h)
       \/ Resend(h)
  \/ Crash
  \/ \E m \in Mmsis : SamplerExpires(m) \/ \E t \in Times : DedupExpires(m, t)

Spec == Init /\ [][Next]_vars

-----------------------------------------------------------------------------
(* Correctness.                                                            *)

Published(e) == \E i \in DOMAIN stream : stream[i] = e

\* Entries of the stream with one vessel and instant.
Copies(k) == {i \in DOMAIN stream : Key(stream[i]) = k}

\* Overlapping handles, failed commands and crashes never publish two different events of
\* one vessel and instant, unless the dedup key expired in between, and never put one in
\* the stream twice, unless its XADD was sent again (DedupService).
PublishedOncePerKey ==
  \A m \in Mmsis : \A t \in Times :
    LET copies == Copies(<<m, t>>) IN
    /\ Cardinality({stream[i] : i \in copies}) <= 1 + expired[m][t]
    /\ Cardinality(copies) <= 1 + expired[m][t] + repeated[m][t]

\* A position is sampled away only in favour of one of its vessel, less than a window
\* older, with the same status if it has one, that reached the stream, is about to,
\* or was lost to a fault (SamplerService, with its state read and written apart).
SampledForAnother ==
  \A e \in sampled : \E w \in emitted :
    /\ w.mmsi = e.mmsi
    /\ e.at - w.at < WindowOf(e)
    /\ e.nav \in {NoNav, w.nav}
    /\ \/ Published(w) \/ w \in lost
       \/ \E h \in Handles : phase[h] \in {"set", "publish"} /\ event[h] = w

\* sampler.service.ts: "Enforces: 10s window for moving (sog >= 0.5 kn) vessels".  Two
\* consecutive positions of a vessel with one status can be closer: both handles read
\* the sampler state before either writes it.
WindowEnforced ==
  \A i \in 1..(Len(stream) - 1) :
    LET a == stream[i]
        b == stream[i + 1] IN
    a.kind = "position" /\ b.kind = "position" /\ a.mmsi = b.mmsi /\ a.nav = b.nav
      => a.at - b.at >= MovingWindow \/ b.at - a.at >= MovingWindow
=============================================================================
