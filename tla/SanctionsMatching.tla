-------------------------- MODULE SanctionsMatching --------------------------
(***************************************************************************)
(* How an enrichment job judges a vessel against sanctioned_entities       *)
(* (EnrichmentProcessor.process and matchSanctions, matcher.ts, the        *)
(* candidate queries of EnrichmentRepository).  Candidates are read by     *)
(* IMO, by MMSI and by name, each in a statement of its own; an import may *)
(* commit a batch and another job may judge the same vessel in between,    *)
(* and checkedAt, which guards the write, is taken after the reads.        *)
(***************************************************************************)
EXTENDS Naturals, Sequences, SequencesExt

CONSTANTS Jobs,       \* jobs of the vessel that may overlap
          Entities,
          Listings,   \* per entity: the rows the imports give it, in turn
          Profiles,   \* the vessel's identity over time
          Normal,     \* normalizeName of a name, "" for the empty one
          Null,
          MaxFaults   \* bound: failed jobs

Methods == {"imo", "mmsi", "name_candidate"}

SanctionsMatchingAssumption ==
  /\ \A e \in Entities : Listings[e] \in Seq(ToSet(Listings[e]))
  /\ \A e \in Entities : \A k \in DOMAIN Listings[e] :
       Listings[e][k].aliases \cup {Listings[e][k].name} \subseteq DOMAIN Normal
  /\ \A k \in DOMAIN Profiles : Profiles[k].name \in DOMAIN Normal \cup {Null}
  /\ Profiles \in Seq(ToSet(Profiles)) /\ Profiles # <<>>
  /\ MaxFaults \in Nat

VARIABLES
  listed,    \* per entity: which of its listings its row has, 0 without a row
  profile,   \* which of the profiles the vessel's row has
  job,       \* per job: where it is, the fingerprint, the candidates read, the result
  decided,   \* jobs that have taken checkedAt and not yet written, in the order of it
  row,       \* the vessel's sanctions_status and sanctions_matches
  faults,    \* counter
  always,    \* history: the identifier matches of every moment since the job's fingerprint
  ever       \* history: the matches of some moment since then

vars == <<listed, profile, job, decided, row, faults, always, ever>>

-----------------------------------------------------------------------------
(* matcher.ts.                                                             *)

NormalName(name) == IF name = Null THEN "" ELSE Normal[name]

ByImo(input, c) == input.imo # Null /\ c.row.imo = input.imo
ByMmsi(input, c) == input.mmsi # Null /\ c.row.mmsi = input.mmsi
ByName(input, c) ==
  /\ NormalName(input.name) # ""
  /\ \E name \in {c.row.name} \cup c.row.aliases : NormalName(name) = NormalName(input.name)

\* An entity is matched once, by the first method that finds it.
Identified(input, candidates) ==
  {[entity |-> c.entity, method |-> "imo"] : c \in {d \in candidates : ByImo(input, d)}} \cup
  {[entity |-> c.entity, method |-> "mmsi"] :
     c \in {d \in candidates : /\ ByMmsi(input, d)
                               /\ ~\E b \in candidates : b.entity = d.entity /\ ByImo(input, b)}}

\* match; the order of the matches is left out.
Match(input, candidates) ==
  LET ids == Identified(input, candidates)
      names == {[entity |-> c.entity, method |-> "name_candidate"] :
                  c \in {d \in candidates : ByName(input, d)}} IN
  IF ids # {} THEN [status |-> "sanctioned", matches |-> ids]
  ELSE IF names # {} THEN [status |-> "candidate", matches |-> names]
  ELSE [status |-> "clear", matches |-> {}]

-----------------------------------------------------------------------------
(* EnrichmentRepository.                                                   *)

Rows(l) == {[entity |-> e, row |-> Listings[e][l[e]]] : e \in {d \in Entities : l[d] # 0}}

FindByImo(l, imo) == {c \in Rows(l) : c.row.imo = imo}
FindByMmsi(l, mmsi) == {c \in Rows(l) : c.row.mmsi = mmsi}

\* findSanctionCandidatesByName compares the names as they are written.
FindByName(l, name) ==
  IF NormalName(name) = "" THEN {} ELSE {c \in Rows(l) : name \in {c.row.name} \cup c.row.aliases}

\* What a job would find if the table stood still.
Judgement(input, l) ==
  LET ids == Match(input, FindByImo(l, input.imo) \cup FindByMmsi(l, input.mmsi)) IN
  IF ids.status = "sanctioned" THEN ids ELSE Match(input, FindByName(l, input.name))

-----------------------------------------------------------------------------
Inputs == {Profiles[k] : k \in DOMAIN Profiles}
Candidates == UNION {{[entity |-> e, row |-> Listings[e][k]] : k \in DOMAIN Listings[e]} :
                       e \in Entities}
Results == [status : {"unchecked", "clear", "candidate", "sanctioned"},
            matches : SUBSET [entity : Entities, method : Methods]]
Unchecked == [status |-> "unchecked", matches |-> {}]   \* sanctions_status is NULL
Idle == [pc |-> "idle", input |-> Profiles[1], found |-> {}, result |-> Unchecked]

TypeOK ==
  /\ \A e \in Entities : listed[e] \in 0..Len(Listings[e])
  /\ profile \in DOMAIN Profiles
  /\ job \in [Jobs -> [pc : {"idle", "imo", "mmsi", "match", "name", "decide", "apply"},
                       input : Inputs, found : SUBSET Candidates, result : Results]]
  /\ \A k \in 1..Len(decided) : job[decided[k]].pc = "apply"
  /\ row \in Results
  /\ faults \in 0..MaxFaults
  /\ \A j \in Jobs : always[j] \cup ever[j] \subseteq [entity : Entities, method : Methods]

Init ==
  /\ listed = [e \in Entities |-> 0]
  /\ profile = 1
  /\ job = [j \in Jobs |-> Idle]
  /\ decided = <<>>
  /\ row = Unchecked
  /\ faults = 0
  /\ always = [j \in Jobs |-> {}]
  /\ ever = [j \in Jobs |-> {}]

Goto(j, pc) == job' = [job EXCEPT ![j].pc = pc]

\* Every way in which the table matches.
IdentifierMatches(input, l) ==
  {[entity |-> c.entity, method |-> "imo"] : c \in {d \in Rows(l) : ByImo(input, d)}} \cup
  {[entity |-> c.entity, method |-> "mmsi"] : c \in {d \in Rows(l) : ByMmsi(input, d)}}
NameMatches(input, l) ==
  {[entity |-> c.entity, method |-> "name_candidate"] : c \in {d \in Rows(l) : ByName(input, d)}}
AllMatches(input, l) == IdentifierMatches(input, l) \cup NameMatches(input, l)

\* The job starts, now and again when its result is stale, and reads the fingerprint.
Start(j) ==
  LET input == Profiles[profile] IN
  /\ job[j].pc = "idle"
  /\ job' = [job EXCEPT ![j] = [Idle EXCEPT !.pc = "imo", !.input = input]]
  /\ always' = [always EXCEPT ![j] = IdentifierMatches(input, listed)]
  /\ ever' = [ever EXCEPT ![j] = AllMatches(input, listed)]
  /\ UNCHANGED <<listed, profile, decided, row, faults>>

ReadImo(j) ==
  LET input == job[j].input IN
  /\ job[j].pc = "imo"
  /\ job' = [job EXCEPT ![j].pc = "mmsi",
                        ![j].found = IF input.imo = Null THEN {} ELSE FindByImo(listed, input.imo)]
  /\ UNCHANGED <<listed, profile, decided, row, faults, always, ever>>

\* Mutant: the MMSI is only looked up when there is no IMO.
ReadMmsiInstead(j) ==
  LET input == job[j].input IN
  /\ job[j].pc = "mmsi"
  /\ job' = [job EXCEPT ![j].pc = "match",
       ![j].found = @ \cup IF input.imo # Null THEN {} ELSE FindByMmsi(listed, input.mmsi)]
  /\ UNCHANGED <<listed, profile, decided, row, faults, always, ever>>

ReadMmsi(j) ==
  LET input == job[j].input IN
  /\ job[j].pc = "mmsi"
  /\ job' = [job EXCEPT ![j].pc = "match",
       ![j].found = @ \cup IF input.mmsi = Null THEN {} ELSE FindByMmsi(listed, input.mmsi)]
  /\ UNCHANGED <<listed, profile, decided, row, faults, always, ever>>

\* Identifier matches settle it; otherwise names are read, and matched in the same way.
MatchSanctions(j) ==
  LET input == job[j].input
      ids == Match(input, job[j].found) IN
  /\ job[j].pc = "match"
  /\ job' = [job EXCEPT ![j].pc = "decide", ![j].found = {},
       ![j].result = IF ids.status = "sanctioned" THEN ids
                     ELSE Match(input, FindByName(listed, input.name))]
  /\ UNCHANGED <<listed, profile, decided, row, faults, always, ever>>

\* checkedAt is taken.
Decide(j) ==
  /\ job[j].pc = "decide"
  /\ Goto(j, "apply")
  /\ decided' = Append(decided, j)
  /\ UNCHANGED <<listed, profile, row, faults, always, ever>>

\* The job's place among those decided, and these without it.
Place(j) == CHOOSE k \in 1..Len(decided) : decided[k] = j
Undecided(j) == IF j \in ToSet(decided) THEN RemoveAt(decided, Place(j)) ELSE decided

\* Mutant: the job that stands behind a later one does not write, nor does any other.
ApplyFirst(j) ==
  /\ job[j].pc = "apply"
  /\ job' = [job EXCEPT ![j] = Idle]
  /\ row' = IF row = Unchecked THEN job[j].result ELSE row
  /\ decided' = Undecided(j)
  /\ UNCHANGED <<listed, profile, faults, always, ever>>

\* applyEnrichment: the write is void when a later checkedAt is in the row; a write that
\* counts makes those before it void.
Apply(j) ==
  /\ job[j].pc = "apply"
  /\ job' = [job EXCEPT ![j] = Idle]
  /\ IF j \in ToSet(decided)
       THEN /\ row' = job[j].result
            /\ decided' = SubSeq(decided, Place(j) + 1, Len(decided))
       ELSE UNCHANGED <<row, decided>>
  /\ UNCHANGED <<listed, profile, faults, always, ever>>

\* A statement fails, or the process dies: the job runs again.
Fail(j) ==
  /\ job[j].pc # "idle"
  /\ faults < MaxFaults
  /\ faults' = faults + 1
  /\ job' = [job EXCEPT ![j] = Idle]
  /\ decided' = Undecided(j)
  /\ UNCHANGED <<listed, profile, row, always, ever>>

\* An import's batch gives an entity its next listing.
Upsert(e) ==
  /\ listed[e] < Len(Listings[e])
  /\ listed' = [listed EXCEPT ![e] = @ + 1]
  /\ always' = [j \in Jobs |-> always[j] \cap IdentifierMatches(job[j].input, listed')]
  /\ ever' = [j \in Jobs |-> ever[j] \cup AllMatches(job[j].input, listed')]
  /\ UNCHANGED <<profile, job, decided, row, faults>>

\* upsertProfile.
ChangeProfile ==
  /\ profile < Len(Profiles)
  /\ profile' = profile + 1
  /\ UNCHANGED <<listed, job, decided, row, faults, always, ever>>

Step(j) ==
  Start(j) \/ ReadImo(j) \/ ReadMmsi(j) \/ MatchSanctions(j) \/ Decide(j) \/ Apply(j)

Next ==
  \/ \E j \in Jobs : Step(j) \/ Fail(j)
  \/ \E e \in Entities : Upsert(e)
  \/ ChangeProfile

Spec == Init /\ [][Next]_vars

\* The reconciler and the expiring checked marker bring the job back, and statements end.
FairSpec == Spec /\ \A j \in Jobs : WF_vars(Step(j))

-----------------------------------------------------------------------------
(* Correctness.                                                            *)

\* Whatever an import commits between the three reads: an entity that has the vessel's IMO
\* or MMSI all along makes the result sanctioned and is among its matches, and nothing is
\* matched that did not match at some moment of the job.
JudgedInSpan ==
  \A j \in Jobs : job[j].pc = "decide" =>
    LET r == job[j].result IN
    /\ always[j] # {} => r.status = "sanctioned"
    /\ \A m \in always[j] : \E n \in r.matches : n.entity = m.entity
    /\ r.matches \subseteq ever[j]
    /\ r.status = "sanctioned" <=> \E m \in r.matches : m.method # "name_candidate"

\* A result may mix two states of the list or be written over a newer one, because checkedAt
\* is taken after the reads; once lists and profile stand still, the row comes to say what
\* they say and keeps saying it.
StatusSettles == <>[](row = Judgement(Profiles[profile], listed))
=============================================================================
