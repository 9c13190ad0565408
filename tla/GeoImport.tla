------------------------------ MODULE GeoImport ------------------------------
(***************************************************************************)
(* The geo dataset import (scripts/geo/import-geo-datasets.ts): several    *)
(* runs of it may overlap, each can fail at any await, lose its connection *)
(* or be killed.  Downloads and staging tables are private to a run; the   *)
(* version, its geometries and the switch of is_active are one transaction *)
(* under PostgreSQL's READ COMMITTED with its table locks: INSERT takes    *)
(* ROW EXCLUSIVE, CREATE INDEX IF NOT EXISTS takes SHARE, both to the end  *)
(* of the transaction, and the two exclude each other.                     *)
(***************************************************************************)
EXTENDS Naturals, Sequences, SequencesExt

CONSTANTS Imports,     \* runs of the script; a run is also the version it makes
          Positions,
          Manifest,      \* per import: the sources of its datasets.json
          Overrides,     \* the sources made of the manual override files
          FailAfterLoad, \* imports started with GEO_IMPORT_FAIL_AFTER_LOAD
          NoTable,
          NoVersion,
          MaxFaults      \* bound: failed steps, skipped features, kills

Tables == {"land", "water", "overrides"}
Spots == [at : Positions, edge : BOOLEAN]
NoRows == [t \in Tables |-> {}]

\* The sources of an import in the order they are loaded.  A source has a target table, an
\* operation, a list of fclasses, and its features: the spots of each, whether it is a line,
\* its fclass, and whether it meets the coverage zones.
SourcesOf(i) == Manifest[i] \o Overrides
SourceCount(i) == Len(SourcesOf(i))

GeoImportAssumption ==
  /\ \A i \in Imports : Manifest[i] \in Seq(ToSet(Manifest[i]))
  /\ Overrides \in Seq(ToSet(Overrides)) /\ \A s \in ToSet(Overrides) : s.target = "overrides"
  /\ NoVersion \notin Imports
  /\ FailAfterLoad \subseteq Imports
  /\ MaxFaults \in Nat
  /\ \A i \in Imports : \A source \in ToSet(SourcesOf(i)) :
       \A f \in source.features : f.spots \subseteq Spots

VARIABLES
  pc,       \* per import: where it is
  next,     \* per import: the source a loop is at
  staged,   \* per import and source: the features in its staging table, or NoTable
  written,  \* per import: the geometries its open transaction has inserted
  locked,   \* per import: the tables it holds a ROW EXCLUSIVE lock on
  shared,   \* per import: the tables it holds a SHARE lock on
  off,      \* per import: the version its first UPDATE has deactivated
  active,   \* committed: the version with is_active
  rows,     \* committed: per version, its geometries
  ok,       \* imports whose activation returned to runGeoImport
  victims,  \* history: imports aborted by the deadlock detector
  faults    \* counter

workVars == <<pc, next, staged>>
txVars == <<written, locked, shared, off>>
dbVars == <<active, rows>>
histVars == <<ok, victims, faults>>
vars == <<workVars, txVars, dbVars, histVars>>

Phases == {"new", "preparing", "loading", "inserting", "indexing", "deactivating",
           "activating", "dropping", "ended", "killed"}
InTransaction == {"inserting", "indexing", "deactivating", "activating"}
InTry == {"preparing", "loading"} \cup InTransaction
Over == {"ended", "killed"}

TypeOK ==
  /\ pc \in [Imports -> Phases]
  /\ \A i \in Imports :
       /\ next[i] \in 1..(SourceCount(i) + 1)
       /\ \A k \in 1..SourceCount(i) :
            staged[i][k] \in (SUBSET SourcesOf(i)[k].features) \cup {NoTable}
  /\ written \in [Imports -> [Tables -> SUBSET Spots]]
  /\ locked \in [Imports -> SUBSET Tables]
  /\ shared \in [Imports -> SUBSET Tables]
  /\ off \in [Imports -> Imports \cup {NoVersion}]
  /\ active \in Imports \cup {NoVersion}
  /\ rows \in [Imports -> [Tables -> SUBSET Spots]]
  /\ ok \subseteq Imports /\ victims \subseteq Imports
  /\ faults \in 0..MaxFaults
  /\ \A i \in Imports : pc[i] \notin InTransaction =>
       written[i] = NoRows /\ locked[i] = {} /\ shared[i] = {} /\ off[i] = NoVersion

Init ==
  /\ pc = [i \in Imports |-> "new"]
  /\ next = [i \in Imports |-> 1]
  /\ staged = [i \in Imports |-> [k \in 1..SourceCount(i) |-> NoTable]]
  /\ written = [i \in Imports |-> NoRows]
  /\ locked = [i \in Imports |-> {}]
  /\ shared = [i \in Imports |-> {}]
  /\ off = [i \in Imports |-> NoVersion]
  /\ active = NoVersion
  /\ rows = [i \in Imports |-> NoRows]
  /\ ok = {} /\ victims = {} /\ faults = 0

Fault == faults < MaxFaults /\ faults' = faults + 1
Goto(i, phase) == pc' = [pc EXCEPT ![i] = phase]

-----------------------------------------------------------------------------
(* Before the transaction.                                                 *)

\* validateManifest.
Accepted(sources) ==
  /\ sources # <<>>
  /\ \A s \in ToSet(sources) :
       s.target \in Tables /\ s.located /\ s.operation \in {"polygon", "line_buffer"}

\* readOptions, readManifest and validateManifest throw before there is anything to undo.
Start(i) ==
  /\ pc[i] = "new"
  /\ Goto(i, IF Accepted(Manifest[i]) THEN "preparing" ELSE "ended")
  /\ UNCHANGED <<next, staged, txVars, dbVars, histVars>>

\* prepareSources and prepareManualOverrideSources: every file is there and has the
\* checksum the manifest gives it.
Prepare(i) ==
  /\ pc[i] = "preparing"
  /\ Goto(i, IF \A s \in ToSet(SourcesOf(i)) : s.intact THEN "loading" ELSE "dropping")
  /\ UNCHANGED <<next, staged, txVars, dbVars, histVars>>

\* The next statement of the loop over the sources.
Stage(i, features) ==
  /\ staged' = [staged EXCEPT ![i][next[i]] = features]
  /\ next' = [next EXCEPT ![i] = @ + 1]

\* loadSourceToStaging: by ogr2ogr, which skips the features it cannot read, or feature by
\* feature.
Load(i) ==
  /\ pc[i] = "loading"
  /\ next[i] <= SourceCount(i)
  /\ \/ Stage(i, SourcesOf(i)[next[i]].features) /\ UNCHANGED faults
     \/ \E some \in SUBSET SourcesOf(i)[next[i]].features :
          some # SourcesOf(i)[next[i]].features /\ Stage(i, some) /\ Fault
  /\ UNCHANGED <<pc, txVars, dbVars, ok, victims>>

\* All sources are loaded: the transaction begins, or the test switch makes it fail.
Begin(i) ==
  /\ pc[i] = "loading"
  /\ next[i] > SourceCount(i)
  /\ Goto(i, IF i \in FailAfterLoad THEN "dropping" ELSE "inserting")
  /\ next' = [next EXCEPT ![i] = 1]
  /\ UNCHANGED <<staged, txVars, dbVars, histVars>>

-----------------------------------------------------------------------------
(* activateImportedVersion.                                                *)

\* What insertProcessedGeometries, or insertBufferedLineGeometries, keeps of a staging
\* table: features of the listed classes inside the coverage, and of these the polygons;
\* a line only counts once it is buffered.
Processed(source, features) ==
  UNION {f.spots : f \in {g \in features :
           /\ g.covered
           /\ source.fclasses = {} \/ g.fclass \in source.fclasses
           /\ ~g.line \/ source.operation = "line_buffer"}}

\* The transaction is over: its locks and what it has not committed are gone.
EndTransaction(i) ==
  /\ written' = [written EXCEPT ![i] = NoRows]
  /\ locked' = [locked EXCEPT ![i] = {}]
  /\ shared' = [shared EXCEPT ![i] = {}]
  /\ off' = [off EXCEPT ![i] = NoVersion]

\* Mutant: the transaction stays open when a statement fails.
RollbackLater(i) == Goto(i, "dropping") /\ UNCHANGED txVars

\* The callback of client.begin throws: ROLLBACK, then the finally block.
Rollback(i) == Goto(i, "dropping") /\ EndTransaction(i)

Insert(i) ==
  LET source == SourcesOf(i)[next[i]]
      t == source.target IN
  /\ pc[i] = "inserting"
  /\ next[i] <= SourceCount(i)
  /\ \A j \in Imports \ {i} : t \notin shared[j]
  /\ locked' = [locked EXCEPT ![i] = @ \cup {t}]
  /\ written' = [written EXCEPT ![i][t] = @ \cup Processed(source, staged[i][next[i]])]
  /\ next' = [next EXCEPT ![i] = @ + 1]
  /\ UNCHANGED <<pc, staged, shared, off, dbVars, histVars>>

\* Mutant: land alone is enough.
EnoughLand(i) == written[i]["land"] # {}

\* ensureImportHasData.
Enough(i) == written[i]["land"] # {} /\ written[i]["water"] # {}

EnsureData(i) ==
  /\ pc[i] = "inserting"
  /\ next[i] > SourceCount(i)
  /\ \/ Enough(i) /\ Goto(i, "indexing") /\ UNCHANGED txVars
     \/ ~Enough(i) /\ Rollback(i)
  /\ UNCHANGED <<next, staged, dbVars, histVars>>

\* The tables in the order refreshIndexesAndStatistics goes through them.
IndexOrder == <<"land", "water", "overrides">>
ToIndex(i) == IndexOrder[CHOOSE k \in 1..3 : /\ IndexOrder[k] \notin shared[i]
                                            /\ \A m \in 1..(k - 1) : IndexOrder[m] \in shared[i]]

\* CREATE INDEX IF NOT EXISTS locks its table before it looks for the index.
Index(i) ==
  /\ pc[i] = "indexing"
  /\ shared[i] # Tables
  /\ \A j \in Imports \ {i} : ToIndex(i) \notin locked[j]
  /\ shared' = [shared EXCEPT ![i] = @ \cup {ToIndex(i)}]
  /\ Goto(i, IF shared'[i] = Tables THEN "deactivating" ELSE "indexing")
  /\ UNCHANGED <<next, staged, written, locked, off, dbVars, histVars>>

\* Mutant: the version that was active is left so.
DeactivateNone(i) ==
  /\ pc[i] = "deactivating"
  /\ Goto(i, "activating")
  /\ UNCHANGED <<next, staged, txVars, dbVars, histVars>>

\* UPDATE ... SET is_active = false WHERE is_active.
Deactivate(i) ==
  /\ pc[i] = "deactivating"
  /\ off' = [off EXCEPT ![i] = active]
  /\ Goto(i, "activating")
  /\ UNCHANGED <<next, staged, written, locked, shared, dbVars, histVars>>

\* UPDATE ... SET is_active = true and COMMIT, unless the unique index on is_active refuses
\* a second active version.  The reply to COMMIT may be lost.
Commit(i) ==
  /\ pc[i] = "activating"
  /\ IF active = off[i]
       THEN /\ active' = i
            /\ rows' = [rows EXCEPT ![i] = written[i]]
            /\ \/ ok' = ok \cup {i} /\ UNCHANGED faults
               \/ Fault /\ UNCHANGED ok
       ELSE UNCHANGED <<dbVars, ok, faults>>
  /\ Goto(i, "dropping") /\ EndTransaction(i)
  /\ UNCHANGED <<next, staged, victims>>

\* The imports whose locks an import waits for.
WaitsFor(i) ==
  {j \in Imports \ {i} :
     \/ /\ pc[i] = "inserting" /\ next[i] <= SourceCount(i)
        /\ SourcesOf(i)[next[i]].target \in shared[j]
     \/ pc[i] = "indexing" /\ shared[i] # Tables /\ ToIndex(i) \in locked[j]}

\* PostgreSQL's deadlock detector aborts one of two transactions that wait for each other.
Deadlocked(i) ==
  /\ \E j \in WaitsFor(i) : i \in WaitsFor(j)
  /\ Rollback(i)
  /\ victims' = victims \cup {i}
  /\ UNCHANGED <<next, staged, dbVars, ok, faults>>

-----------------------------------------------------------------------------
(* Failures, and the end.                                                  *)

\* Any await of the try block rejects.  A load that fails may leave a part of its table.
Fail(i) ==
  /\ pc[i] \in InTry
  /\ Fault
  /\ Rollback(i)
  /\ \/ UNCHANGED staged
     \/ /\ pc[i] = "loading" /\ next[i] <= SourceCount(i)
        /\ staged' = [staged EXCEPT ![i][next[i]] = {}]
  /\ UNCHANGED <<next, dbVars, ok, victims>>

\* dropStagingTables in the finally block.
Drop(i) ==
  /\ pc[i] = "dropping"
  /\ Goto(i, "ended")
  /\ \/ staged' = [staged EXCEPT ![i] = [k \in 1..SourceCount(i) |-> NoTable]] /\ UNCHANGED faults
     \/ UNCHANGED staged /\ Fault
  /\ UNCHANGED <<next, txVars, dbVars, ok, victims>>

\* The process is killed: its session ends, its transaction is undone, its staging tables
\* stay.
Kill(i) ==
  /\ pc[i] \notin Over \cup {"new"}
  /\ Fault
  /\ Goto(i, "killed")
  /\ EndTransaction(i)
  /\ UNCHANGED <<next, staged, dbVars, ok, victims>>

Proceed(i) ==
  \/ Prepare(i) \/ Load(i) \/ Begin(i) \/ Insert(i) \/ EnsureData(i) \/ Index(i)
  \/ Deactivate(i) \/ Commit(i) \/ Deadlocked(i) \/ Drop(i)

Next == \E i \in Imports : Start(i) \/ Proceed(i) \/ Fail(i) \/ Kill(i)

Spec == Init /\ [][Next]_vars

\* Statements end, and the deadlock detector runs.
FairSpec == Spec /\ \A i \in Imports : WF_vars(Proceed(i))

-----------------------------------------------------------------------------
(* Correctness.                                                            *)

\* Whatever overlaps, fails or is killed, readers see only whole versions: no version is
\* ever visible in part or without land and water, and one takes over from the other with
\* no moment of two or of none (activateImportedVersion's single transaction).
D == INSTANCE GeoDatasets WITH Versions <- Imports, Layerings <- Imports \X [Tables -> SUBSET Spots]
ImplementsDatasets == D!Datasets

\* An import with a good manifest and intact files, and one with land and water in them.
Ready(i) ==
  /\ Accepted(Manifest[i]) /\ i \notin FailAfterLoad
  /\ \A s \in ToSet(SourcesOf(i)) : s.intact
Sound(i) ==
  /\ Ready(i)
  /\ \A t \in {"land", "water"} :
       \E s \in ToSet(SourcesOf(i)) : s.target = t /\ Processed(s, s.features) # {}

\* Two imports may wait for each other's tables, and PostgreSQL aborts one of them; without
\* faults a sound import is lost in no other way, and some other gets through or lacks land
\* or water itself; neither leaves a staging table (the finally block of runGeoImport).
Prevails(j) ==
  \/ j \in ok \/ pc[j] \in InTransaction
  \/ pc[j] \in {"dropping", "ended"} /\ Ready(j) /\ ~Sound(j)
LosersHaveWinners ==
  faults = 0 =>
    \A i \in Imports : pc[i] = "ended" =>
      /\ \A k \in 1..SourceCount(i) : staged[i][k] = NoTable
      /\ Sound(i) /\ i \notin ok => i \in victims /\ \E j \in Imports \ {i} : Prevails(j)

\* Every import comes to its end, whatever it has to wait for.
ImportsEnd == <>[](\A i \in Imports : pc[i] \in Over \cup {"new"})
=============================================================================
