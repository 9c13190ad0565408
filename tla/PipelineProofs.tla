---------------------------- MODULE PipelineProofs ----------------------------
(***************************************************************************)
(* Deduplication and sampling, for any number of overlapping handles,      *)
(* vessels, times and faults, and any sampling windows.                    *)
(***************************************************************************)
EXTENDS IngestionPipeline, TLAPS, FiniteSetTheorems

-----------------------------------------------------------------------------
(***************************************************************************)
(* The invariant.                                                          *)
(***************************************************************************)

\* Handles that own the key: its SET NX has let them through and they may still publish.
Owning == {"geo", "get", "set", "publish"}
Owners(k) == {h \in Handles : phase[h] \in Owning /\ Key(event[h]) = k}

\* The events of the key that are in the stream or with an owner.
Known(k) ==
  {e \in Events : Key(e) = k /\ (Published(e) \/ \E h \in Owners(k) : event[h] = e)}

\* How often the key was free and got taken.
Granted(k) == expired[k[1]][k[2]] + (IF k \in seen THEN 1 ELSE 0)

\* Each copy in the stream, and each handle that may add one, has used up a grant or a
\* repetition; each event of the key, a grant.
Counted ==
  \A k \in Mmsis \X Times :
    /\ Cardinality(Copies(k)) + Cardinality(Owners(k)) <= Granted(k) + repeated[k[1]][k[2]]
    /\ IsFiniteSet(Known(k)) /\ Cardinality(Known(k)) <= Granted(k)

\* The event is in the stream, about to be, or lost to a fault.
Accounted(w) ==
  \/ Published(w) \/ w \in lost
  \/ \E h \in Handles : phase[h] \in {"set", "publish"} /\ event[h] = w

\* A sampler state was written for a position that is accounted for.
SamplerWitnessed ==
  \A m \in Mmsis : sampler[m] # NoState =>
    \E w \in emitted : w.mmsi = m /\ w.at = sampler[m].at /\ w.nav = sampler[m].nav

IInv ==
  /\ TypeOK
  /\ Counted
  /\ \A w \in emitted : Accounted(w)
  /\ SamplerWitnessed
  /\ SampledForAnother

LEMMA PipelineFacts ==
  /\ IsFiniteSet(Handles) /\ NoNav \notin Navs
  /\ MaxTime \in Nat /\ MovingWindow \in Nat /\ StationaryWindow \in Nat
  /\ MaxReceived \in Nat /\ MaxFaults \in Nat
BY PipelineAssumption

LEMMA EventFacts ==
  /\ NoEvent \notin Events
  /\ Positions \subseteq Events
  /\ \A e \in Events : /\ e.mmsi \in Mmsis /\ e.at \in Times
                       /\ Key(e) \in Mmsis \X Times
                       /\ Key(e)[1] = e.mmsi /\ Key(e)[2] = e.at
                       /\ e.kind = "position" => e \in Positions
<1>1. \A e \in Positions : e.kind = "position" /\ e.mmsi \in Mmsis /\ e.at \in Times
  BY DEF Positions
<1>2. \A e \in Statics : e.kind = "static" /\ e.mmsi \in Mmsis /\ e.at \in Times
  BY DEF Statics
<1>3. NoEvent \notin Positions /\ NoEvent \notin Statics
  BY DEF NoEvent, Positions, Statics
<1>4. QED
  BY <1>1, <1>2, <1>3 DEF Events, Key

-----------------------------------------------------------------------------
(***************************************************************************)
(* Handles and phases.                                                     *)
(***************************************************************************)

\* A handle starts with an event.
LEMMA StartTyped ==
  ASSUME TypeOK, NEW h \in Handles, NEW e \in Events,
         event' = [event EXCEPT ![h] = e], phase' = [phase EXCEPT ![h] = "dedup"]
  PROVE  /\ phase' \in [Handles -> Phases] /\ event' \in [Handles -> Events \cup {NoEvent}]
         /\ phase'[h] = "dedup"
         /\ \A i \in Handles \ {h} : phase'[i] = phase[i] /\ event'[i] = event[i]
         /\ \A i \in Handles : (phase'[i] = "free") <=> (event'[i] = NoEvent)
         /\ \A i \in Handles : phase'[i] \in {"geo", "get", "set"} => event'[i] \in Positions
BY EventFacts DEF TypeOK, Phases

\* A handle moves on with its event.
LEMMA GotoTyped ==
  ASSUME TypeOK, NEW h \in Handles, NEW p \in {"geo", "get", "set", "publish"}, Goto(h, p),
         phase[h] # "free", p # "publish" => event[h] \in Positions
  PROVE  /\ phase' \in [Handles -> Phases] /\ phase'[h] = p
         /\ \A i \in Handles \ {h} : phase'[i] = phase[i]
         /\ event' = event
         /\ \A i \in Handles : (phase'[i] = "free") <=> (event'[i] = NoEvent)
         /\ \A i \in Handles : phase'[i] \in {"geo", "get", "set"} => event'[i] \in Positions
BY DEF TypeOK, Goto, Phases

LEMMA DoneTyped ==
  ASSUME TypeOK, NEW h \in Handles, Done(h)
  PROVE  /\ phase' \in [Handles -> Phases] /\ event' \in [Handles -> Events \cup {NoEvent}]
         /\ phase'[h] = "free" /\ event'[h] = NoEvent
         /\ \A i \in Handles \ {h} : phase'[i] = phase[i] /\ event'[i] = event[i]
         /\ \A i \in Handles : (phase'[i] = "free") <=> (event'[i] = NoEvent)
         /\ \A i \in Handles : phase'[i] \in {"geo", "get", "set"} => event'[i] \in Positions
BY DEF TypeOK, Done, Phases

LEMMA AppendTyped ==
  ASSUME stream \in Seq(Events), NEW e \in Events, stream' \in {stream, Append(stream, e)}
  PROVE  /\ stream' \in Seq(Events)
         /\ \A i \in DOMAIN stream : i \in DOMAIN stream' /\ stream'[i] = stream[i]
  OBVIOUS

\* An XADD sent again is counted for its vessel and time.
LEMMA RepeatedTyped ==
  ASSUME repeated \in [Mmsis -> [Times -> Nat]], NEW m \in Mmsis, NEW t \in Times,
         repeated' = [repeated EXCEPT ![m][t] = @ + 1]
  PROVE  /\ repeated' \in [Mmsis -> [Times -> Nat]]
         /\ repeated'[m][t] = repeated[m][t] + 1
         /\ \A a \in Mmsis : \A b \in Times :
              a # m \/ b # t => repeated'[a][b] = repeated[a][b]
  OBVIOUS

LEMMA FaultTyped ==
  ASSUME TypeOK, UNCHANGED faults \/ Fault
  PROVE  faults' \in 0..MaxFaults
BY PipelineFacts DEF TypeOK, Fault

LEMMA HasEvent ==
  ASSUME TypeOK, NEW h \in Handles, phase[h] # "free"
  PROVE  event[h] \in Events
BY DEF TypeOK

-----------------------------------------------------------------------------
(***************************************************************************)
(* Counting.                                                               *)
(***************************************************************************)

LEMMA OwnersFinite ==
  ASSUME NEW k
  PROVE  IsFiniteSet(Owners(k)) /\ IsFiniteSet(Owners(k)')
<1>1. Owners(k) \subseteq Handles /\ Owners(k)' \subseteq Handles
  BY DEF Owners
<1>2. QED
  BY <1>1, PipelineFacts, FS_Subset

LEMMA CopiesFinite ==
  ASSUME TypeOK, NEW k
  PROVE  IsFiniteSet(Copies(k)) /\ Len(stream) + 1 \notin Copies(k) /\ Len(stream) \in Nat
<1>1. Len(stream) \in Nat /\ DOMAIN stream = 1..Len(stream)
  BY DEF TypeOK
<1>2. IsFiniteSet(1..Len(stream))
  BY <1>1, FS_Interval
<1>3. Copies(k) \subseteq 1..Len(stream)
  BY <1>1 DEF Copies
<1>4. QED
  BY <1>1, <1>2, <1>3, FS_Subset

LEMMA GrantedTyped ==
  ASSUME TypeOK, NEW k \in Mmsis \X Times
  PROVE  Granted(k) \in Nat /\ repeated[k[1]][k[2]] \in Nat
BY DEF TypeOK, Granted

LEMMA GrantedGrows ==
  ASSUME TypeOK, seen \subseteq seen', expired' = expired
  PROVE  \A k \in Mmsis \X Times : Granted(k) <= Granted(k)'
<1>1. SUFFICES ASSUME NEW k \in Mmsis \X Times
               PROVE  Granted(k) <= Granted(k)'
  OBVIOUS
<1>2. expired[k[1]][k[2]] \in Nat
  BY DEF TypeOK
<1>3. QED
  BY <1>2 DEF Granted

\* The types of a key's numbers, before and after a step.
LEMMA CountingTyped ==
  ASSUME TypeOK, TypeOK', Counted, NEW k \in Mmsis \X Times
  PROVE  /\ IsFiniteSet(Owners(k)) /\ IsFiniteSet(Copies(k)) /\ IsFiniteSet(Known(k))
         /\ Cardinality(Owners(k)') \in Nat /\ Cardinality(Owners(k)) \in Nat
         /\ Cardinality(Copies(k)) \in Nat /\ Cardinality(Known(k)) \in Nat
         /\ Granted(k) \in Nat /\ Granted(k)' \in Nat
         /\ repeated[k[1]][k[2]] \in Nat
         /\ Cardinality(Copies(k)) + Cardinality(Owners(k)) <= Granted(k) + repeated[k[1]][k[2]]
         /\ Cardinality(Known(k)) <= Granted(k)
<1>1. IsFiniteSet(Known(k)) /\ Cardinality(Known(k)) <= Granted(k)
      /\ Cardinality(Copies(k)) + Cardinality(Owners(k)) <= Granted(k) + repeated[k[1]][k[2]]
  BY DEF Counted
<1>2. IsFiniteSet(Owners(k)) /\ IsFiniteSet(Owners(k)') /\ IsFiniteSet(Copies(k))
  BY OwnersFinite, CopiesFinite
<1>3. /\ Cardinality(Owners(k)') \in Nat /\ Cardinality(Owners(k)) \in Nat
      /\ Cardinality(Copies(k)) \in Nat /\ Cardinality(Known(k)) \in Nat
  BY <1>1, <1>2, FS_CardinalityType
<1>4. Granted(k)' \in Nat
  <2>1. (TypeOK => Granted(k) \in Nat)'
    BY GrantedTyped, PTL
  <2>2. QED
    BY <2>1
<1>5. QED
  BY <1>1, <1>2, <1>3, <1>4, GrantedTyped

\* No event becomes known, and no grant is taken back.
LEMMA KnownFewer ==
  ASSUME TypeOK, TypeOK', Counted, NEW k \in Mmsis \X Times,
         Known(k)' \subseteq Known(k), Granted(k) <= Granted(k)'
  PROVE  IsFiniteSet(Known(k)') /\ Cardinality(Known(k)') <= Granted(k)'
<1>1. IsFiniteSet(Known(k)') /\ Cardinality(Known(k)') <= Cardinality(Known(k))
  BY CountingTyped, FS_Subset
<1>2. Cardinality(Known(k)') \in Nat
  BY <1>1, FS_CardinalityType
<1>3. QED
  BY <1>1, <1>2, CountingTyped

\* A step that adds neither copies nor owners, and takes no grant back.
LEMMA CountedFewer ==
  ASSUME TypeOK, TypeOK', Counted, stream' = stream, repeated' = repeated,
         \A h \in Handles :
           phase'[h] \in Owning => phase[h] \in Owning /\ event'[h] = event[h],
         \A k \in Mmsis \X Times : Granted(k) <= Granted(k)'
  PROVE  Counted'
<1>1. SUFFICES ASSUME NEW k \in Mmsis \X Times
               PROVE  /\ Cardinality(Copies(k)') + Cardinality(Owners(k)')
                           <= Granted(k)' + repeated'[k[1]][k[2]]
                      /\ IsFiniteSet(Known(k)') /\ Cardinality(Known(k)') <= Granted(k)'
  BY DEF Counted
<1>2. Copies(k)' = Copies(k) /\ Owners(k)' \subseteq Owners(k)
  BY DEF Copies, Owners
<1>3. Cardinality(Owners(k)') <= Cardinality(Owners(k))
  BY <1>2, CountingTyped, FS_Subset
<1>4. Known(k)' \subseteq Known(k)
  BY DEF Known, Published, Owners
<1>5. QED
  BY <1>2, <1>3, <1>4, CountingTyped, KnownFewer

LEMMA OneMore ==
  ASSUME NEW S, NEW x, IsFiniteSet(S)
  PROVE  /\ IsFiniteSet(S \cup {x}) /\ Cardinality(S \cup {x}) \in Nat
         /\ Cardinality(S \cup {x}) <= Cardinality(S) + 1
<1>1. /\ IsFiniteSet(S \cup {x})
      /\ Cardinality(S \cup {x}) = IF x \in S THEN Cardinality(S) ELSE Cardinality(S) + 1
  BY FS_AddElement
<1>2. Cardinality(S) \in Nat
  BY FS_CardinalityType
<1>3. QED
  BY <1>1, <1>2

\* SET NX lets a handle through: the key's grant is the handle's.
LEMMA CountedOwner ==
  ASSUME TypeOK, TypeOK', Counted, stream' = stream, expired' = expired,
         repeated' = repeated, event' = event,
         NEW h \in Handles, NEW kh \in Mmsis \X Times, kh \notin seen,
         seen' = seen \cup {kh}, Key(event[h]) = kh,
         \A i \in Handles \ {h} : phase'[i] = phase[i]
  PROVE  Counted'
<1>1. SUFFICES ASSUME NEW k \in Mmsis \X Times
               PROVE  /\ Cardinality(Copies(k)') + Cardinality(Owners(k)')
                           <= Granted(k)' + repeated'[k[1]][k[2]]
                      /\ IsFiniteSet(Known(k)') /\ Cardinality(Known(k)') <= Granted(k)'
  BY DEF Counted
<1>2. Copies(k)' = Copies(k)
  BY DEF Copies
<1>3. CASE k = kh
  <2>1. Granted(k)' = Granted(k) + 1
    BY <1>3, CountingTyped DEF Granted, TypeOK
  <2>2. Owners(k)' \subseteq Owners(k) \cup {h}
    BY DEF Owners
  <2>3. /\ IsFiniteSet(Owners(k) \cup {h}) /\ Cardinality(Owners(k) \cup {h}) \in Nat
        /\ Cardinality(Owners(k) \cup {h}) <= Cardinality(Owners(k)) + 1
    BY CountingTyped, OneMore
  <2>4. Cardinality(Owners(k)') <= Cardinality(Owners(k)) + 1
    BY <2>2, <2>3, CountingTyped, FS_Subset
  <2>5. Known(k)' \subseteq Known(k) \cup {event[h]}
    BY DEF Known, Published, Owners
  <2>6. /\ IsFiniteSet(Known(k) \cup {event[h]})
        /\ Cardinality(Known(k) \cup {event[h]}) \in Nat
        /\ Cardinality(Known(k) \cup {event[h]}) <= Cardinality(Known(k)) + 1
    BY CountingTyped, OneMore
  <2>7. /\ IsFiniteSet(Known(k)')
        /\ Cardinality(Known(k)') <= Cardinality(Known(k) \cup {event[h]})
    BY <2>5, <2>6, FS_Subset
  <2>8. Cardinality(Known(k)') <= Granted(k) + 1
    BY <2>6, <2>7, CountingTyped, FS_CardinalityType
  <2>9. QED
    BY <1>2, <2>1, <2>4, <2>7, <2>8, CountingTyped
<1>4. CASE k # kh
  <2>1. Granted(k)' = Granted(k)
    BY <1>4 DEF Granted
  <2>2. Owners(k)' \subseteq Owners(k) /\ Known(k)' \subseteq Known(k)
    BY <1>4 DEF Known, Published, Owners
  <2>3. Cardinality(Owners(k)') <= Cardinality(Owners(k))
    BY <2>2, CountingTyped, FS_Subset
  <2>4. QED
    BY <1>2, <2>1, <2>2, <2>3, CountingTyped, KnownFewer
<1>5. QED
  BY <1>3, <1>4

\* XADD: one more copy of the event's key, and no other event.
LEMMA CopiesAppend ==
  ASSUME TypeOK, NEW e \in Events, stream' = Append(stream, e), NEW k
  PROVE  /\ k = Key(e) => Cardinality(Copies(k)') = Cardinality(Copies(k)) + 1
         /\ k # Key(e) => Copies(k)' = Copies(k)
         /\ \A x : Published(x)' => Published(x) \/ x = e
<1>1. /\ Len(stream) \in Nat
      /\ DOMAIN stream = 1..Len(stream) /\ DOMAIN stream' = 1..(Len(stream) + 1)
      /\ \A i \in 1..Len(stream) : stream'[i] = stream[i]
      /\ stream'[Len(stream) + 1] = e
  BY DEF TypeOK
<1>2. ASSUME k = Key(e)
      PROVE  Cardinality(Copies(k)') = Cardinality(Copies(k)) + 1
  <2>1. Copies(k)' = Copies(k) \cup {Len(stream) + 1}
    BY <1>1, <1>2 DEF Copies
  <2>2. QED
    BY <2>1, CopiesFinite, FS_AddElement
<1>3. ASSUME k # Key(e)
      PROVE  Copies(k)' = Copies(k)
  BY <1>1, <1>3 DEF Copies
<1>4. \A x : Published(x)' => Published(x) \/ x = e
  BY <1>1 DEF Published
<1>5. QED
  BY <1>2, <1>3, <1>4

\* An owner publishes: its grant goes to the copy.
LEMMA CountedPublish ==
  ASSUME TypeOK, TypeOK', Counted, NEW h \in Handles, phase[h] = "publish",
         stream' = Append(stream, event[h]), UNCHANGED <<seen, expired, repeated>>,
         phase'[h] = "free",
         \A i \in Handles \ {h} : phase'[i] = phase[i] /\ event'[i] = event[i]
  PROVE  Counted'
<1>1. SUFFICES ASSUME NEW k \in Mmsis \X Times
               PROVE  /\ Cardinality(Copies(k)') + Cardinality(Owners(k)')
                           <= Granted(k)' + repeated'[k[1]][k[2]]
                      /\ IsFiniteSet(Known(k)') /\ Cardinality(Known(k)') <= Granted(k)'
  BY DEF Counted
<1>2. event[h] \in Events
  BY HasEvent
<1>3. Granted(k)' = Granted(k) /\ repeated' = repeated
  BY DEF Granted
<1>4. Owners(k)' \subseteq Owners(k) \ {h}
  BY DEF Owners, Owning
<1>5. Known(k)' \subseteq Known(k)
  <2>1. \A e \in Events : Published(e)' => Published(e) \/ e = event[h]
    BY <1>2, CopiesAppend
  <2>2. QED
    BY <2>1 DEF Known, Owners, Owning
<1>6. CASE k = Key(event[h])
  <2>1. h \in Owners(k)
    BY <1>6 DEF Owners, Owning
  <2>2. Cardinality(Owners(k) \ {h}) = Cardinality(Owners(k)) - 1
        /\ IsFiniteSet(Owners(k) \ {h}) /\ Cardinality(Owners(k) \ {h}) \in Nat
    BY <2>1, CountingTyped, FS_RemoveElement, FS_CardinalityType
  <2>3. Cardinality(Owners(k)') <= Cardinality(Owners(k) \ {h})
    BY <1>4, <2>2, FS_Subset
  <2>4. Cardinality(Copies(k)') = Cardinality(Copies(k)) + 1
    BY <1>2, <1>6, CopiesAppend
  <2>5. QED
    BY <1>3, <1>5, <2>2, <2>3, <2>4, CountingTyped, KnownFewer
<1>7. CASE k # Key(event[h])
  <2>1. Copies(k)' = Copies(k)
    BY <1>2, <1>7, CopiesAppend
  <2>2. Cardinality(Owners(k)') <= Cardinality(Owners(k))
    BY <1>4, CountingTyped, FS_Subset
  <2>3. QED
    BY <1>3, <1>5, <2>1, <2>2, CountingTyped, KnownFewer
<1>8. QED
  BY <1>6, <1>7

\* An owner's XADD is executed and sent again: the copy is a repetition.
LEMMA CountedRepeat ==
  ASSUME TypeOK, TypeOK', Counted, NEW h \in Handles, phase[h] = "publish",
         stream' = Append(stream, event[h]), UNCHANGED <<seen, expired, phase, event>>,
         repeated' = [repeated EXCEPT ![event[h].mmsi][event[h].at] = @ + 1]
  PROVE  Counted'
<1>1. SUFFICES ASSUME NEW k \in Mmsis \X Times
               PROVE  /\ Cardinality(Copies(k)') + Cardinality(Owners(k)')
                           <= Granted(k)' + repeated'[k[1]][k[2]]
                      /\ IsFiniteSet(Known(k)') /\ Cardinality(Known(k)') <= Granted(k)'
  BY DEF Counted
<1>2. event[h] \in Events /\ event[h].mmsi \in Mmsis /\ event[h].at \in Times
  BY HasEvent, EventFacts
<1>3. Granted(k)' = Granted(k) /\ Owners(k)' = Owners(k)
  BY DEF Granted, Owners
<1>4. Known(k)' \subseteq Known(k)
  <2>1. \A e \in Events : Published(e)' => Published(e) \/ e = event[h]
    BY <1>2, CopiesAppend
  <2>2. QED
    BY <2>1 DEF Known, Owners, Owning
<1>5. k = <<k[1], k[2]>> /\ k[1] \in Mmsis /\ k[2] \in Times
  OBVIOUS
<1>6. CASE k = Key(event[h])
  <2>1. k[1] = event[h].mmsi /\ k[2] = event[h].at
    BY <1>6 DEF Key
  <2>2. repeated'[k[1]][k[2]] = repeated[k[1]][k[2]] + 1
    BY <1>2, <2>1, RepeatedTyped DEF TypeOK
  <2>3. Cardinality(Copies(k)') = Cardinality(Copies(k)) + 1
    BY <1>2, <1>6, CopiesAppend
  <2>4. IsFiniteSet(Known(k)') /\ Cardinality(Known(k)') <= Granted(k)'
    BY <1>3, <1>4, CountingTyped, KnownFewer
  <2>5. Cardinality(Copies(k)') + Cardinality(Owners(k)') <= Granted(k)' + repeated'[k[1]][k[2]]
    BY <1>3, <2>2, <2>3, CountingTyped
  <2>6. QED
    BY <2>4, <2>5
<1>7. CASE k # Key(event[h])
  <2>1. repeated'[k[1]][k[2]] = repeated[k[1]][k[2]]
    BY <1>2, <1>5, <1>7, RepeatedTyped DEF TypeOK, Key
  <2>2. Copies(k)' = Copies(k)
    BY <1>2, <1>7, CopiesAppend
  <2>3. QED
    BY <1>3, <1>4, <2>1, <2>2, CountingTyped, KnownFewer
<1>8. QED
  BY <1>6, <1>7

-----------------------------------------------------------------------------
(***************************************************************************)
(* Accounting.                                                             *)
(***************************************************************************)

\* What is accounted for stays so while every event about to be published stays with
\* its handle, is published or is lost.
LEMMA AccountedKept ==
  ASSUME NEW w, Accounted(w), lost \subseteq lost',
         \A i \in DOMAIN stream : i \in DOMAIN stream' /\ stream'[i] = stream[i],
         \A h \in Handles : phase[h] \in {"set", "publish"} =>
           \/ phase'[h] \in {"set", "publish"} /\ event'[h] = event[h]
           \/ event[h] \in lost'
           \/ \E i \in DOMAIN stream' : stream'[i] = event[h]
  PROVE  Accounted(w)'
BY DEF Accounted, Published

LEMMA SampledKept ==
  ASSUME SampledForAnother, sampled' = sampled, emitted \subseteq emitted',
         \A w \in emitted' : Accounted(w)'
  PROVE  SampledForAnother'
BY DEF SampledForAnother, Accounted, Published

LEMMA WitnessesKept ==
  ASSUME SamplerWitnessed, sampler' = sampler,
         emitted \subseteq emitted'
  PROVE  SamplerWitnessed'
BY DEF SamplerWitnessed

\* A handle takes a raw message, or it is rejected.
LEMMA ReceiveKeeps ==
  ASSUME IInv, NEW h \in Handles, Receive(h)
  PROVE  IInv'
<1>0. TypeOK /\ Counted
  BY DEF IInv
<1>1. /\ phase[h] = "free" /\ received' \in 0..MaxReceived
      /\ UNCHANGED <<seen, sampler, stream, faults, expired, repeated, emitted, sampled, lost>>
      /\ \/ event' = event /\ phase' = phase
         \/ \E e \in Events : /\ event' = [event EXCEPT ![h] = e]
                             /\ phase' = [phase EXCEPT ![h] = "dedup"]
  BY <1>0, PipelineFacts DEF Receive, TypeOK, redisVars, histVars
<1>2. /\ phase' \in [Handles -> Phases] /\ event' \in [Handles -> Events \cup {NoEvent}]
      /\ \A i \in Handles : (phase'[i] = "free") <=> (event'[i] = NoEvent)
      /\ \A i \in Handles : phase'[i] \in {"geo", "get", "set"} => event'[i] \in Positions
      /\ phase'[h] \in {"free", "dedup"}
      /\ \A i \in Handles \ {h} : phase'[i] = phase[i] /\ event'[i] = event[i]
  <2>1. CASE event' = event /\ phase' = phase
    BY <1>0, <1>1, <2>1 DEF TypeOK
  <2>2. CASE \E e \in Events : /\ event' = [event EXCEPT ![h] = e]
                                /\ phase' = [phase EXCEPT ![h] = "dedup"]
    BY <1>0, <2>2, StartTyped
  <2>3. QED
    BY <1>1, <2>1, <2>2
<1>3. TypeOK'
  BY <1>0, <1>1, <1>2 DEF TypeOK
<1>4. Counted'
  <2>1. \A k \in Mmsis \X Times : Granted(k) <= Granted(k)'
    BY <1>0, <1>1, GrantedGrows
  <2>2. QED
    BY <1>0, <1>1, <1>2, <1>3, <2>1, CountedFewer DEF Owning
<1>5. \A w \in emitted' : Accounted(w)'
  BY <1>1, <1>2, AccountedKept DEF IInv
<1>6. SamplerWitnessed'
  BY <1>1, WitnessesKept DEF IInv
<1>7. SampledForAnother'
  BY <1>1, <1>5, SampledKept DEF IInv
<1>8. QED
  BY <1>3, <1>4, <1>5, <1>6, <1>7 DEF IInv

\* SET NX: the handle goes on as the key's owner, or is over.
LEMMA DedupKeeps ==
  ASSUME IInv, NEW h \in Handles, Dedup(h)
  PROVE  IInv'
<1>0. TypeOK /\ Counted /\ phase[h] = "dedup" /\ event[h] \in Events
  BY HasEvent DEF IInv, Dedup
<1>1. /\ UNCHANGED <<sampler, stream, received, expired, repeated, emitted, sampled, lost>>
      /\ seen' = seen \/ seen' = seen \cup {Key(event[h])}
      /\ UNCHANGED faults \/ Fault
      /\ \/ /\ Accepts(event[h]) /\ seen' = seen \cup {Key(event[h])}
            /\ Goto(h, IF event[h].kind = "position" THEN "geo" ELSE "publish")
         \/ Done(h)
  BY DEF Dedup, histVars
<1>2. /\ Key(event[h]) \in Mmsis \X Times
      /\ event[h].kind = "position" => event[h] \in Positions
  BY <1>0, EventFacts
<1>3. /\ phase' \in [Handles -> Phases] /\ event' \in [Handles -> Events \cup {NoEvent}]
      /\ \A i \in Handles : (phase'[i] = "free") <=> (event'[i] = NoEvent)
      /\ \A i \in Handles : phase'[i] \in {"geo", "get", "set"} => event'[i] \in Positions
      /\ \A i \in Handles \ {h} : phase'[i] = phase[i] /\ event'[i] = event[i]
      /\ \/ Accepts(event[h]) /\ seen' = seen \cup {Key(event[h])} /\ event' = event
         \/ phase'[h] = "free"
  <2>1. CASE Done(h)
    BY <1>0, <2>1, DoneTyped
  <2>2. CASE /\ Accepts(event[h]) /\ seen' = seen \cup {Key(event[h])}
             /\ Goto(h, IF event[h].kind = "position" THEN "geo" ELSE "publish")
    <3>1. CASE event[h].kind = "position"
      BY <1>0, <1>2, <2>2, <3>1, GotoTyped DEF TypeOK
    <3>2. CASE event[h].kind # "position"
      BY <1>0, <2>2, <3>2, GotoTyped DEF TypeOK
    <3>3. QED
      BY <3>1, <3>2
  <2>3. QED
    BY <1>1, <2>1, <2>2
<1>4. TypeOK'
  <2>1. faults' \in 0..MaxFaults
    BY <1>0, <1>1, FaultTyped
  <2>2. seen' \subseteq Mmsis \X Times
    BY <1>0, <1>1, <1>2 DEF TypeOK
  <2>3. QED
    BY <1>0, <1>1, <1>3, <2>1, <2>2 DEF TypeOK
<1>5. Counted'
  <2>1. CASE phase'[h] = "free"
    <3>1. \A k \in Mmsis \X Times : Granted(k) <= Granted(k)'
      BY <1>0, <1>1, GrantedGrows
    <3>2. QED
      BY <1>0, <1>1, <1>3, <1>4, <2>1, <3>1, CountedFewer DEF Owning
  <2>2. CASE Accepts(event[h]) /\ seen' = seen \cup {Key(event[h])} /\ event' = event
    BY <1>0, <1>1, <1>2, <1>3, <1>4, <2>2, CountedOwner DEF Accepts
  <2>3. QED
    BY <1>3, <2>1, <2>2
<1>6. \A w \in emitted' : Accounted(w)'
  BY <1>0, <1>1, <1>3, AccountedKept DEF IInv
<1>7. SamplerWitnessed'
  BY <1>1, WitnessesKept DEF IInv
<1>8. SampledForAnother'
  BY <1>1, <1>6, SampledKept DEF IInv
<1>9. QED
  BY <1>4, <1>5, <1>6, <1>7, <1>8 DEF IInv

\* Geo validation: an owner goes on or is over.
LEMMA GeoKeeps ==
  ASSUME IInv, NEW h \in Handles, Geo(h)
  PROVE  IInv'
<1>0. TypeOK /\ Counted /\ phase[h] = "geo" /\ event[h] \in Positions
  BY DEF IInv, Geo, TypeOK
<1>1. /\ UNCHANGED <<seen, sampler, stream, received, faults, expired, repeated, emitted,
                    sampled, lost>>
      /\ Goto(h, "get") \/ Done(h)
  BY DEF Geo, redisVars, histVars
<1>2. /\ phase' \in [Handles -> Phases] /\ event' \in [Handles -> Events \cup {NoEvent}]
      /\ \A i \in Handles : (phase'[i] = "free") <=> (event'[i] = NoEvent)
      /\ \A i \in Handles : phase'[i] \in {"geo", "get", "set"} => event'[i] \in Positions
      /\ \A i \in Handles \ {h} : phase'[i] = phase[i] /\ event'[i] = event[i]
      /\ phase'[h] = "free" \/ event' = event
  <2>1. CASE Done(h)
    BY <1>0, <2>1, DoneTyped
  <2>2. CASE Goto(h, "get")
    BY <1>0, <2>2, GotoTyped DEF TypeOK
  <2>3. QED
    BY <1>1, <2>1, <2>2
<1>3. TypeOK'
  BY <1>0, <1>1, <1>2 DEF TypeOK
<1>4. Counted'
  <2>1. \A k \in Mmsis \X Times : Granted(k) <= Granted(k)'
    BY <1>0, <1>1, GrantedGrows
  <2>2. QED
    BY <1>0, <1>1, <1>2, <1>3, <2>1, CountedFewer DEF Owning
<1>5. \A w \in emitted' : Accounted(w)'
  BY <1>0, <1>1, <1>2, AccountedKept DEF IInv
<1>6. SamplerWitnessed'
  BY <1>1, WitnessesKept DEF IInv
<1>7. SampledForAnother'
  BY <1>1, <1>5, SampledKept DEF IInv
<1>8. QED
  BY <1>3, <1>4, <1>5, <1>6, <1>7 DEF IInv

\* A refused position: the one the state was written for is the witness.
LEMMA RefusedForAnother ==
  ASSUME TypeOK, SamplerWitnessed, NEW e \in Positions, ~Emits(e, sampler[e.mmsi])
  PROVE  \E w \in emitted : /\ w.mmsi = e.mmsi
                            /\ e.at - w.at < WindowOf(e)
                            /\ e.nav \in {NoNav, w.nav}
<1>1. e.mmsi \in Mmsis /\ e.at \in Int
  BY PipelineFacts, EventFacts DEF Times
<1>2. /\ sampler[e.mmsi] # NoState
      /\ e.nav \in {NoNav, sampler[e.mmsi].nav}
      /\ ~(e.at - sampler[e.mmsi].at >= WindowOf(e))
  BY DEF Emits
<1>3. PICK w \in emitted : /\ w.mmsi = e.mmsi /\ w.at = sampler[e.mmsi].at
                           /\ w.nav = sampler[e.mmsi].nav
  BY <1>1, <1>2 DEF SamplerWitnessed
<1>4. w.at \in Int /\ WindowOf(e) \in Int
  BY <1>3, PipelineFacts, EventFacts DEF TypeOK, WindowOf, Times
<1>5. QED
  BY <1>1, <1>2, <1>3, <1>4

\* The sampler's GET: the position goes on to the SET, or is sampled away.
LEMMA SamplerGetKeeps ==
  ASSUME IInv, NEW h \in Handles, SamplerGet(h)
  PROVE  IInv'
<1>0. TypeOK /\ Counted /\ phase[h] = "get" /\ event[h] \in Positions
  BY DEF IInv, SamplerGet, TypeOK
<1>1. /\ UNCHANGED <<seen, sampler, stream, received, expired, repeated, emitted, lost>>
      /\ Goto(h, "set") \/ Done(h)
      /\ UNCHANGED faults \/ Fault
      /\ \/ sampled' = sampled
         \/ ~Emits(event[h], sampler[event[h].mmsi]) /\ sampled' = sampled \cup {event[h]}
  BY DEF SamplerGet, redisVars
<1>2. /\ phase' \in [Handles -> Phases] /\ event' \in [Handles -> Events \cup {NoEvent}]
      /\ \A i \in Handles : (phase'[i] = "free") <=> (event'[i] = NoEvent)
      /\ \A i \in Handles : phase'[i] \in {"geo", "get", "set"} => event'[i] \in Positions
      /\ \A i \in Handles \ {h} : phase'[i] = phase[i] /\ event'[i] = event[i]
      /\ phase'[h] = "free" \/ event' = event
  <2>1. CASE Done(h)
    BY <1>0, <2>1, DoneTyped
  <2>2. CASE Goto(h, "set")
    BY <1>0, <2>2, GotoTyped DEF TypeOK
  <2>3. QED
    BY <1>1, <2>1, <2>2
<1>3. TypeOK'
  <2>1. faults' \in 0..MaxFaults /\ sampled' \subseteq Positions
    BY <1>0, <1>1, FaultTyped DEF TypeOK
  <2>2. QED
    BY <1>0, <1>1, <1>2, <2>1 DEF TypeOK
<1>4. Counted'
  <2>1. \A k \in Mmsis \X Times : Granted(k) <= Granted(k)'
    BY <1>0, <1>1, GrantedGrows
  <2>2. QED
    BY <1>0, <1>1, <1>2, <1>3, <2>1, CountedFewer DEF Owning
<1>5. \A w \in emitted' : Accounted(w)'
  BY <1>0, <1>1, <1>2, AccountedKept DEF IInv
<1>6. SamplerWitnessed'
  BY <1>1, WitnessesKept DEF IInv
<1>7. SampledForAnother'
  <2>1. CASE sampled' = sampled
    BY <1>1, <1>5, <2>1, SampledKept DEF IInv
  <2>2. CASE ~Emits(event[h], sampler[event[h].mmsi]) /\ sampled' = sampled \cup {event[h]}
    <3>1. \E w \in emitted : /\ w.mmsi = event[h].mmsi
                             /\ event[h].at - w.at < WindowOf(event[h])
                             /\ event[h].nav \in {NoNav, w.nav}
      BY <1>0, <2>2, RefusedForAnother DEF IInv
    <3>2. \A e \in sampled' : \E w \in emitted' : /\ w.mmsi = e.mmsi
                                                  /\ e.at - w.at < WindowOf(e)
                                                  /\ e.nav \in {NoNav, w.nav}
      BY <1>1, <2>2, <3>1 DEF IInv, SampledForAnother
    <3>3. QED
      BY <1>5, <3>2 DEF SampledForAnother, Accounted, Published
  <2>3. QED
    BY <1>1, <2>1, <2>2
<1>8. QED
  BY <1>3, <1>4, <1>5, <1>6, <1>7 DEF IInv

\* The sampler's SET: the position is written, and about to be published or lost.
LEMMA SamplerSetKeeps ==
  ASSUME IInv, NEW h \in Handles, SamplerSet(h)
  PROVE  IInv'
<1>0. TypeOK /\ Counted /\ phase[h] = "set" /\ event[h] \in Positions
  BY DEF IInv, SamplerSet, TypeOK
<1>1. /\ UNCHANGED <<seen, stream, received, expired, repeated, sampled>>
      /\ UNCHANGED faults \/ Fault
      /\ \/ Goto(h, "publish") /\ lost' = lost
         \/ Done(h) /\ lost' = lost \cup {event[h]}
      /\ \/ sampler' = sampler /\ emitted' = emitted
         \/ /\ sampler' = [sampler EXCEPT ![event[h].mmsi]
                             = [at |-> event[h].at, nav |-> event[h].nav]]
            /\ emitted' = emitted \cup {event[h]}
  BY DEF SamplerSet, Written
<1>2. /\ phase' \in [Handles -> Phases] /\ event' \in [Handles -> Events \cup {NoEvent}]
      /\ \A i \in Handles : (phase'[i] = "free") <=> (event'[i] = NoEvent)
      /\ \A i \in Handles : phase'[i] \in {"geo", "get", "set"} => event'[i] \in Positions
      /\ \A i \in Handles \ {h} : phase'[i] = phase[i] /\ event'[i] = event[i]
      /\ \/ phase'[h] = "free" /\ event[h] \in lost'
         \/ phase'[h] = "publish" /\ event' = event
  <2>1. CASE Done(h) /\ lost' = lost \cup {event[h]}
    BY <1>0, <2>1, DoneTyped
  <2>2. CASE Goto(h, "publish")
    BY <1>0, <2>2, GotoTyped DEF TypeOK
  <2>3. QED
    BY <1>1, <2>1, <2>2
<1>3. event[h] \in Events /\ event[h].mmsi \in Mmsis
      /\ [at |-> event[h].at, nav |-> event[h].nav] \in SamplerStates
  BY <1>0, EventFacts DEF Positions, SamplerStates
<1>4. TypeOK'
  <2>1. faults' \in 0..MaxFaults
    BY <1>0, <1>1, FaultTyped
  <2>2. sampler' \in [Mmsis -> SamplerStates]
    BY <1>0, <1>1, <1>3 DEF TypeOK
  <2>3. emitted' \subseteq Positions /\ lost' \subseteq Events
    BY <1>0, <1>1, <1>3 DEF TypeOK
  <2>4. QED
    BY <1>0, <1>1, <1>2, <2>1, <2>2, <2>3 DEF TypeOK
<1>5. Counted'
  <2>1. \A k \in Mmsis \X Times : Granted(k) <= Granted(k)'
    BY <1>0, <1>1, GrantedGrows
  <2>2. QED
    BY <1>0, <1>1, <1>2, <1>4, <2>1, CountedFewer DEF Owning
<1>6. \A w \in emitted' : Accounted(w)'
  <2>1. \A w \in emitted : Accounted(w)'
    BY <1>0, <1>1, <1>2, AccountedKept DEF IInv
  <2>2. ASSUME NEW w, w = event[h]
        PROVE  Accounted(w)'
    BY <1>2, <2>2 DEF Accounted
  <2>3. QED
    BY <1>1, <2>1, <2>2
<1>7. SamplerWitnessed'
  <2>1. CASE sampler' = sampler /\ emitted' = emitted
    BY <2>1, WitnessesKept DEF IInv
  <2>2. CASE /\ sampler' = [sampler EXCEPT ![event[h].mmsi]
                             = [at |-> event[h].at, nav |-> event[h].nav]]
             /\ emitted' = emitted \cup {event[h]}
    BY <1>0, <1>3, <2>2 DEF SamplerWitnessed, IInv, TypeOK
  <2>3. QED
    BY <1>1, <2>1, <2>2
<1>8. SampledForAnother'
  BY <1>1, <1>6, SampledKept DEF IInv
<1>9. QED
  BY <1>4, <1>5, <1>6, <1>7, <1>8 DEF IInv

\* The XADD: an owner's event reaches the stream, or is lost.
LEMMA PublishKeeps ==
  ASSUME IInv, NEW h \in Handles, Publish(h)
  PROVE  IInv'
<1>0. TypeOK /\ Counted /\ phase[h] = "publish" /\ event[h] \in Events
  BY HasEvent DEF IInv, Publish
<1>1. /\ UNCHANGED <<seen, sampler, received, expired, repeated, emitted, sampled>>
      /\ UNCHANGED faults \/ Fault
      /\ Done(h)
      /\ \/ stream' = Append(stream, event[h])
         \/ stream' = stream
      /\ \/ lost' = lost /\ stream' = Append(stream, event[h])
         \/ lost' = lost \cup {event[h]}
  BY DEF Publish
<1>2. /\ phase' \in [Handles -> Phases] /\ event' \in [Handles -> Events \cup {NoEvent}]
      /\ \A i \in Handles : (phase'[i] = "free") <=> (event'[i] = NoEvent)
      /\ \A i \in Handles : phase'[i] \in {"geo", "get", "set"} => event'[i] \in Positions
      /\ \A i \in Handles \ {h} : phase'[i] = phase[i] /\ event'[i] = event[i]
      /\ phase'[h] = "free"
  BY <1>0, <1>1, DoneTyped
<1>3. TypeOK'
  <2>1. faults' \in 0..MaxFaults
    BY <1>0, <1>1, FaultTyped
  <2>2. stream' \in Seq(Events)
    BY <1>0, <1>1, AppendTyped DEF TypeOK
  <2>3. lost' \subseteq Events
    BY <1>0, <1>1 DEF TypeOK
  <2>4. QED
    BY <1>0, <1>1, <1>2, <2>1, <2>2, <2>3 DEF TypeOK
<1>4. Counted'
  <2>1. CASE stream' = Append(stream, event[h])
    BY <1>0, <1>1, <1>2, <1>3, <2>1, CountedPublish
  <2>2. CASE stream' = stream
    <3>1. \A k \in Mmsis \X Times : Granted(k) <= Granted(k)'
      BY <1>0, <1>1, GrantedGrows
    <3>2. QED
      BY <1>0, <1>1, <1>2, <1>3, <2>2, <3>1, CountedFewer DEF Owning
  <2>3. QED
    BY <1>1, <2>1, <2>2
<1>5. \A w \in emitted' : Accounted(w)'
  <2>1. \A i \in DOMAIN stream : i \in DOMAIN stream' /\ stream'[i] = stream[i]
    BY <1>0, <1>1, AppendTyped DEF TypeOK
  <2>2. event[h] \in lost' \/ \E i \in DOMAIN stream' : stream'[i] = event[h]
    <3>1. CASE stream' = Append(stream, event[h])
      <4>1. Len(stream) + 1 \in DOMAIN stream' /\ stream'[Len(stream) + 1] = event[h]
        BY <1>0, <3>1 DEF TypeOK
      <4>2. QED
        BY <4>1
    <3>2. QED
      BY <1>1, <3>1
  <2>3. QED
    BY <1>0, <1>1, <1>2, <2>1, <2>2, AccountedKept DEF IInv
<1>6. SamplerWitnessed'
  BY <1>1, WitnessesKept DEF IInv
<1>7. SampledForAnother'
  BY <1>1, <1>5, SampledKept DEF IInv
<1>8. QED
  BY <1>3, <1>4, <1>5, <1>6, <1>7 DEF IInv

-----------------------------------------------------------------------------
(***************************************************************************)
(* Faults.                                                                 *)
(***************************************************************************)

\* A command is executed and sent again: the handle keeps its event and its grant.
LEMMA ResendKeeps ==
  ASSUME IInv, NEW h \in Handles, Resend(h)
  PROVE  IInv'
<1>0. TypeOK /\ Counted /\ phase[h] # "free" /\ event[h] \in Events
  BY HasEvent DEF IInv, Resend
<1>1. /\ UNCHANGED <<phase, event, received, expired, sampled, lost>>
      /\ Fault
      /\ \/ /\ seen' = seen \cup {Key(event[h])}
            /\ UNCHANGED <<sampler, emitted, stream, repeated>>
         \/ /\ phase[h] = "set" /\ Written(event[h])
            /\ UNCHANGED <<seen, stream, repeated>>
         \/ /\ phase[h] = "publish" /\ stream' = Append(stream, event[h])
            /\ repeated' = [repeated EXCEPT ![event[h].mmsi][event[h].at] = @ + 1]
            /\ UNCHANGED <<seen, sampler, emitted>>
  BY DEF Resend
<1>2. /\ Key(event[h]) \in Mmsis \X Times /\ event[h].mmsi \in Mmsis /\ event[h].at \in Times
      /\ phase[h] = "set" => event[h] \in Positions
  BY <1>0, EventFacts DEF TypeOK
<1>3. phase[h] = "set" => [at |-> event[h].at, nav |-> event[h].nav] \in SamplerStates
  BY <1>2 DEF Positions, SamplerStates
<1>4. TypeOK'
  <2>1. faults' \in 0..MaxFaults
    BY <1>0, <1>1, FaultTyped
  <2>2. sampler' \in [Mmsis -> SamplerStates] /\ emitted' \subseteq Positions
    BY <1>0, <1>1, <1>2, <1>3 DEF TypeOK, Written
  <2>3. seen' \subseteq Mmsis \X Times
    BY <1>0, <1>1, <1>2 DEF TypeOK
  <2>4. stream' \in Seq(Events)
    BY <1>0, <1>1, AppendTyped DEF TypeOK
  <2>5. repeated' \in [Mmsis -> [Times -> Nat]]
    BY <1>0, <1>1, <1>2, RepeatedTyped DEF TypeOK
  <2>6. QED
    BY <1>0, <1>1, <2>1, <2>2, <2>3, <2>4, <2>5 DEF TypeOK
<1>5. Counted'
  <2>1. CASE stream' = stream /\ repeated' = repeated
    <3>1. \A k \in Mmsis \X Times : Granted(k) <= Granted(k)'
      BY <1>0, <1>1, GrantedGrows
    <3>2. QED
      BY <1>0, <1>1, <1>4, <2>1, <3>1, CountedFewer
  <2>2. CASE /\ phase[h] = "publish" /\ stream' = Append(stream, event[h]) /\ seen' = seen
             /\ repeated' = [repeated EXCEPT ![event[h].mmsi][event[h].at] = @ + 1]
    BY <1>0, <1>1, <1>4, <2>2, CountedRepeat
  <2>3. QED
    BY <1>1, <2>1, <2>2
<1>6. \A w \in emitted' : Accounted(w)'
  <2>1. \A i \in DOMAIN stream : i \in DOMAIN stream' /\ stream'[i] = stream[i]
    BY <1>0, <1>1, AppendTyped DEF TypeOK
  <2>2. \A w \in emitted : Accounted(w)'
    BY <1>1, <2>1, AccountedKept DEF IInv
  <2>3. ASSUME NEW w, phase[h] = "set", w = event[h]
        PROVE  Accounted(w)'
    BY <1>1, <2>3 DEF Accounted
  <2>4. QED
    BY <1>1, <2>2, <2>3 DEF Written
<1>7. SamplerWitnessed'
  <2>1. CASE sampler' = sampler /\ emitted' = emitted
    BY <2>1, WitnessesKept DEF IInv
  <2>2. CASE phase[h] = "set" /\ Written(event[h])
    BY <1>0, <1>2, <1>3, <2>2 DEF SamplerWitnessed, IInv, TypeOK, Written
  <2>3. QED
    BY <1>1, <2>1, <2>2
<1>8. SampledForAnother'
  BY <1>1, <1>6, SampledKept DEF IInv, Written
<1>9. QED
  BY <1>4, <1>5, <1>6, <1>7, <1>8 DEF IInv

\* The process dies: no handle owns a key any more, what was about to be published is lost.
LEMMA CrashKeeps ==
  ASSUME IInv, Crash
  PROVE  IInv'
<1>0. TypeOK /\ Counted
  BY DEF IInv
<1>1. /\ UNCHANGED <<seen, sampler, stream, received, expired, repeated, emitted, sampled>>
      /\ Fault
      /\ phase' = [h \in Handles |-> "free"] /\ event' = [h \in Handles |-> NoEvent]
      /\ lost' = lost \cup {event[h] : h \in {i \in Handles : phase[i] \in {"set", "publish"}}}
  BY DEF Crash, redisVars
<1>2. TypeOK'
  <2>1. faults' \in 0..MaxFaults
    BY <1>0, <1>1, FaultTyped
  <2>2. phase' \in [Handles -> Phases] /\ event' \in [Handles -> Events \cup {NoEvent}]
    BY <1>1 DEF Phases
  <2>3. lost' \subseteq Events
    BY <1>0, <1>1, HasEvent DEF TypeOK
  <2>4. QED
    BY <1>0, <1>1, <2>1, <2>2, <2>3 DEF TypeOK
<1>3. Counted'
  <2>1. \A k \in Mmsis \X Times : Granted(k) <= Granted(k)'
    BY <1>0, <1>1, GrantedGrows
  <2>2. QED
    BY <1>0, <1>1, <1>2, <2>1, CountedFewer DEF Owning
<1>4. \A w \in emitted' : Accounted(w)'
  BY <1>1, AccountedKept DEF IInv
<1>5. SamplerWitnessed'
  BY <1>1, WitnessesKept DEF IInv
<1>6. SampledForAnother'
  BY <1>1, <1>4, SampledKept DEF IInv
<1>7. QED
  BY <1>2, <1>3, <1>4, <1>5, <1>6 DEF IInv

\* A dedup key expires: the key is free once more, and its expiry is counted.
LEMMA DedupExpiresKeeps ==
  ASSUME IInv, NEW m \in Mmsis, NEW t \in Times, DedupExpires(m, t)
  PROVE  IInv'
<1>0. TypeOK /\ Counted
  BY DEF IInv
<1>1. /\ UNCHANGED <<sampler, stream, phase, event, received, repeated, emitted, sampled, lost>>
      /\ <<m, t>> \in seen /\ seen' = seen \ {<<m, t>>}
      /\ Fault
      /\ expired' = [expired EXCEPT ![m][t] = @ + 1]
  BY DEF DedupExpires
<1>2. /\ expired' \in [Mmsis -> [Times -> Nat]]
      /\ expired'[m][t] = expired[m][t] + 1
      /\ \A a \in Mmsis : \A b \in Times : a # m \/ b # t => expired'[a][b] = expired[a][b]
  BY <1>0, <1>1 DEF TypeOK
<1>3. TypeOK'
  <2>1. faults' \in 0..MaxFaults
    BY <1>0, <1>1, FaultTyped
  <2>2. QED
    BY <1>0, <1>1, <1>2, <2>1 DEF TypeOK
<1>4. Counted'
  <2>1. ASSUME NEW k \in Mmsis \X Times
        PROVE  Granted(k) <= Granted(k)'
    <3>1. expired[k[1]][k[2]] \in Nat /\ k = <<k[1], k[2]>> /\ k[1] \in Mmsis /\ k[2] \in Times
      BY <1>0 DEF TypeOK
    <3>2. CASE k = <<m, t>>
      BY <1>1, <1>2, <3>1, <3>2 DEF Granted
    <3>3. CASE k # <<m, t>>
      BY <1>1, <1>2, <3>1, <3>3 DEF Granted
    <3>4. QED
      BY <3>2, <3>3
  <2>2. QED
    BY <1>0, <1>1, <1>3, <2>1, CountedFewer
<1>5. \A w \in emitted' : Accounted(w)'
  BY <1>1, AccountedKept DEF IInv
<1>6. SamplerWitnessed'
  BY <1>1, WitnessesKept DEF IInv
<1>7. SampledForAnother'
  BY <1>1, <1>5, SampledKept DEF IInv
<1>8. QED
  BY <1>3, <1>4, <1>5, <1>6, <1>7 DEF IInv

\* A sampler key expires.
LEMMA SamplerExpiresKeeps ==
  ASSUME IInv, NEW m \in Mmsis, SamplerExpires(m)
  PROVE  IInv'
<1>0. TypeOK /\ Counted
  BY DEF IInv
<1>1. /\ UNCHANGED <<seen, stream, phase, event, received, expired, repeated, emitted,
                    sampled, lost>>
      /\ Fault
      /\ sampler' = [sampler EXCEPT ![m] = NoState]
  BY DEF SamplerExpires, histVars
<1>2. TypeOK'
  <2>1. faults' \in 0..MaxFaults
    BY <1>0, <1>1, FaultTyped
  <2>2. sampler' \in [Mmsis -> SamplerStates]
    BY <1>0, <1>1 DEF TypeOK, SamplerStates
  <2>3. QED
    BY <1>0, <1>1, <2>1, <2>2 DEF TypeOK
<1>3. Counted'
  <2>1. \A k \in Mmsis \X Times : Granted(k) <= Granted(k)'
    BY <1>0, <1>1, GrantedGrows
  <2>2. QED
    BY <1>0, <1>1, <1>2, <2>1, CountedFewer DEF Owning
<1>4. \A w \in emitted' : Accounted(w)'
  BY <1>1, AccountedKept DEF IInv
<1>5. SamplerWitnessed'
  BY <1>0, <1>1 DEF SamplerWitnessed, IInv, TypeOK
<1>6. SampledForAnother'
  BY <1>1, <1>4, SampledKept DEF IInv
<1>7. QED
  BY <1>2, <1>3, <1>4, <1>5, <1>6 DEF IInv

LEMMA StutterKeeps ==
  ASSUME IInv, UNCHANGED vars
  PROVE  IInv'
<1>1. TypeOK'
  BY DEF IInv, vars, redisVars, histVars, TypeOK
<1>2. Counted'
  BY DEF IInv, vars, redisVars, histVars, Counted, Copies, Owners, Known, Published, Granted
<1>3. \A w \in emitted' : Accounted(w)'
  BY DEF IInv, vars, redisVars, histVars, Accounted, Published
<1>4. SamplerWitnessed'
  BY DEF IInv, vars, redisVars, histVars, SamplerWitnessed
<1>5. SampledForAnother'
  BY DEF IInv, vars, redisVars, histVars, SampledForAnother, Published
<1>6. QED
  BY <1>1, <1>2, <1>3, <1>4, <1>5 DEF IInv

LEMMA InitEstablishes ==
  ASSUME Init
  PROVE  IInv
<1>1. TypeOK
  <2>1. stream \in Seq(Events)
    BY DEF Init
  <2>2. QED
    BY <2>1, PipelineFacts DEF Init, TypeOK, Phases, SamplerStates
<1>2. Counted
  <2>1. SUFFICES ASSUME NEW k \in Mmsis \X Times
                 PROVE  /\ Cardinality(Copies(k)) + Cardinality(Owners(k))
                             <= Granted(k) + repeated[k[1]][k[2]]
                        /\ IsFiniteSet(Known(k)) /\ Cardinality(Known(k)) <= Granted(k)
    BY DEF Counted
  <2>2. Copies(k) = {} /\ Owners(k) = {} /\ Known(k) = {}
    BY DEF Init, Copies, Owners, Owning, Known, Published
  <2>3. QED
    BY <1>1, <2>2, FS_EmptySet, GrantedTyped
<1>3. (\A w \in emitted : Accounted(w)) /\ SamplerWitnessed /\ SampledForAnother
  BY DEF Init, SamplerWitnessed, SampledForAnother
<1>4. QED
  BY <1>1, <1>2, <1>3 DEF IInv

-----------------------------------------------------------------------------
(***************************************************************************)
(* Theorems.                                                               *)
(***************************************************************************)

\* Overlapping handles, failed and re-sent commands, expiries and crashes keep the
\* invariant.
THEOREM PipelineInvariant == Spec => []IInv
<1>1. Init => IInv
  BY InitEstablishes
<1>2. IInv /\ [Next]_vars => IInv'
  <2>1. SUFFICES ASSUME IInv, [Next]_vars
                 PROVE  IInv'
    OBVIOUS
  <2>2. ASSUME NEW h \in Handles, \/ Receive(h) \/ Dedup(h) \/ Geo(h)
                                  \/ SamplerGet(h) \/ SamplerSet(h) \/ Publish(h)
                                  \/ Resend(h)
        PROVE  IInv'
    BY <2>1, <2>2, ReceiveKeeps, DedupKeeps, GeoKeeps, SamplerGetKeeps, SamplerSetKeeps,
       PublishKeeps, ResendKeeps
  <2>3. CASE Crash
    BY <2>1, <2>3, CrashKeeps
  <2>4. ASSUME NEW m \in Mmsis, SamplerExpires(m)
        PROVE  IInv'
    BY <2>1, <2>4, SamplerExpiresKeeps
  <2>5. ASSUME NEW m \in Mmsis, NEW t \in Times, DedupExpires(m, t)
        PROVE  IInv'
    BY <2>1, <2>5, DedupExpiresKeeps
  <2>6. CASE UNCHANGED vars
    BY <2>1, <2>6, StutterKeeps
  <2>7. QED
    BY <2>1, <2>2, <2>3, <2>4, <2>5, <2>6 DEF Next
<1>3. QED
  BY <1>1, <1>2, PTL DEF Spec

\* Handles, keys and history sets keep their types, and a handle past the dedup SET that
\* is not yet publishing carries a position (IngestionPipelineService.handle).
THEOREM PipelineTypes == Spec => []TypeOK
<1>1. IInv => TypeOK
  BY DEF IInv
<1>2. QED
  BY <1>1, PipelineInvariant, PTL

\* DedupService: two different events of one vessel and instant are never both published,
\* however the handles overlap, fail or repeat their commands, unless the dedup key expired
\* in between; and one is published twice only when its XADD was sent again.
THEOREM OncePerKey == Spec => []PublishedOncePerKey
<1>1. IInv => PublishedOncePerKey
  <2>1. SUFFICES ASSUME IInv, NEW m \in Mmsis, NEW t \in Times, NEW k, k = <<m, t>>
                 PROVE  /\ Cardinality({stream[i] : i \in Copies(k)}) <= 1 + expired[m][t]
                        /\ Cardinality(Copies(k)) <= 1 + expired[m][t] + repeated[m][t]
    BY DEF PublishedOncePerKey
  <2>2. TypeOK /\ k \in Mmsis \X Times /\ k[1] = m /\ k[2] = t
    BY <2>1 DEF IInv
  <2>3. /\ Cardinality(Copies(k)) + Cardinality(Owners(k)) <= Granted(k) + repeated[m][t]
        /\ IsFiniteSet(Known(k)) /\ Cardinality(Known(k)) <= Granted(k)
    BY <2>1, <2>2 DEF IInv, Counted
  <2>4. Cardinality(Copies(k)) \in Nat /\ Cardinality(Owners(k)) \in Nat
    BY <2>2, CopiesFinite, OwnersFinite, FS_CardinalityType
  <2>5. /\ expired[m][t] \in Nat /\ repeated[m][t] \in Nat /\ Granted(k) \in Nat
        /\ Granted(k) <= expired[m][t] + 1
    BY <2>2 DEF TypeOK, Granted
  <2>6. Cardinality(Copies(k)) <= 1 + expired[m][t] + repeated[m][t]
    BY <2>3, <2>4, <2>5
  <2>7. {stream[i] : i \in Copies(k)} \subseteq Known(k)
    BY <2>2 DEF Known, Copies, Published, TypeOK
  <2>8. /\ IsFiniteSet({stream[i] : i \in Copies(k)})
        /\ Cardinality({stream[i] : i \in Copies(k)}) <= Cardinality(Known(k))
    BY <2>3, <2>7, FS_Subset
  <2>9. QED
    BY <2>3, <2>5, <2>6, <2>8, FS_CardinalityType
<1>2. QED
  BY <1>1, PipelineInvariant, PTL

\* SamplerService, with its GET and SET apart: a position is only sampled away for another
\* of its vessel that reached the stream, is about to, or was lost to a fault, whatever
\* commands are sent again.
THEOREM SampledAwayForAnother == Spec => []SampledForAnother
<1>1. IInv => SampledForAnother
  BY DEF IInv
<1>2. QED
  BY <1>1, PipelineInvariant, PTL
=============================================================================
