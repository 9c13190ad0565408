---------------------------- MODULE PositionStore ----------------------------
(***************************************************************************)
(* The position tables and the storage writer that fills them from the bus *)
(* (StorageWriterConsumer, VesselsRepository.upsertPosition), beside the   *)
(* partition maintenance.  The bus redelivers and reorders, so any event   *)
(* may arrive at any time, again, and at two writers at once.  The three   *)
(* statements of a write are one transaction that first locks the vessel's *)
(* row: it takes effect as a whole or not at all.                          *)
(***************************************************************************)
EXTENDS HistoryPartitions

CONSTANTS Writers,      \* dispatches of the storage-writer group
          Vessels,
          Bodies,       \* what a position says besides its vessel and instant
          MaxWrites     \* bound: deliveries to the writers

Absent == "absent"

ASSUME StoreAssumption ==
  /\ Absent \notin Bodies
  /\ MaxWrites \in Nat

\* One instant per day is enough to be older, equal or newer.
Events == [vessel : Vessels, at : Days, body : Bodies]
NoEvent == [vessel |-> "none"]

NoRow == [at |-> CutoffDay(FirstDay) - 2]
Rows == [at : Days, body : Bodies]

VARIABLES
  latest,     \* vessel_positions_latest: per vessel, its row or NoRow
  track,      \* vessel_positions_history: per vessel and instant, its body or Absent
  writing,    \* per writer: the event between the stale check and the transaction
  writes,     \* deliveries so far
  committed,  \* history: events whose transaction committed
  unplaced    \* history: events rejected for want of a partition, with the day and lastOk

storeVars == <<latest, track, writing, writes, committed, unplaced>>
vars == <<today, partitionVars, storeVars>>

TypeOK ==
  /\ PartitionTypeOK
  /\ latest \in [Vessels -> Rows \cup {NoRow}]
  /\ track \in [Vessels -> [Days -> Bodies \cup {Absent}]]
  /\ writing \in [Writers -> Events \cup {NoEvent}]
  /\ writes \in 0..MaxWrites
  /\ committed \subseteq Events
  /\ \A u \in unplaced : u.event \in Events
  /\ \A v \in Vessels : \A d \in Days : track[v][d] # Absent => d \in partitions

Init ==
  /\ PartitionInit
  /\ latest = [v \in Vessels |-> NoRow]
  /\ track = [v \in Vessels |-> [d \in Days |-> Absent]]
  /\ writing = [w \in Writers |-> NoEvent]
  /\ writes = 0
  /\ committed = {} /\ unplaced = {}

-----------------------------------------------------------------------------
(* The writer.                                                             *)

\* The handler is given an event and looks at the clock: what is no longer
\* retained is dropped (and acknowledged), the rest goes to the pool.
Deliver(w) ==
  /\ writing[w] = NoEvent
  /\ writes < MaxWrites
  /\ \E e \in Events :
       /\ Retained(e.at, today)
       /\ writing' = [writing EXCEPT ![w] = e]
  /\ writes' = writes + 1
  /\ UNCHANGED <<today, partitionVars, latest, track, committed, unplaced>>

\* Mutant: DO UPDATE without its WHERE.
NewerOrEqualAlways(e, row) == TRUE

\* WHERE vessel_positions_latest.occurred_at <= EXCLUDED.occurred_at.
NewerOrEqual(e, row) == row.at <= e.at

\* Mutant: ON CONFLICT DO UPDATE in the history.
TrackedOver(e) == [track EXCEPT ![e.vessel][e.at] = e.body]

\* ON CONFLICT (vessel_id, occurred_at) DO NOTHING.
Tracked(e) == [track EXCEPT ![e.vessel][e.at] = IF @ = Absent THEN e.body ELSE @]

\* Mutant: the history insert is left out of the transaction and lost.
CommitLatestOnly(w) ==
  LET e == writing[w] IN
  /\ e # NoEvent
  /\ e.at \in partitions
  /\ latest' = [latest EXCEPT ![e.vessel] =
                  IF NewerOrEqual(e, @) THEN [at |-> e.at, body |-> e.body] ELSE @]
  /\ committed' = committed \cup {e}
  /\ writing' = [writing EXCEPT ![w] = NoEvent]
  /\ UNCHANGED <<today, partitionVars, track, writes, unplaced>>

\* The transaction commits.  Its reply may be lost: then the event comes back.
Commit(w) ==
  LET e == writing[w] IN
  /\ e # NoEvent
  /\ e.at \in partitions
  /\ latest' = [latest EXCEPT ![e.vessel] =
                  IF NewerOrEqual(e, @) THEN [at |-> e.at, body |-> e.body] ELSE @]
  /\ track' = Tracked(e)
  /\ committed' = committed \cup {e}
  /\ writing' = [writing EXCEPT ![w] = NoEvent]
  /\ UNCHANGED <<today, partitionVars, writes, unplaced>>

\* No partition takes the history row: the transaction fails, the event is retried.
Misplace(w) ==
  LET e == writing[w] IN
  /\ e # NoEvent
  /\ e.at \notin partitions
  /\ unplaced' = unplaced \cup {[event |-> e, day |-> today, maintained |-> lastOk]}
  /\ writing' = [writing EXCEPT ![w] = NoEvent]
  /\ UNCHANGED <<today, partitionVars, latest, track, writes, committed>>

\* The transaction fails for another reason, or the process dies.
Fail(w) ==
  /\ writing[w] # NoEvent
  /\ writing' = [writing EXCEPT ![w] = NoEvent]
  /\ UNCHANGED <<today, partitionVars, latest, track, writes, committed, unplaced>>

-----------------------------------------------------------------------------
(* Both.                                                                   *)

\* A dropped partition takes its rows along.
Maintenance ==
  /\ PartitionStep
  /\ track' = [v \in Vessels |->
                 [d \in Days |-> IF d \in partitions' THEN track[v][d] ELSE Absent]]
  /\ UNCHANGED <<latest, writing, writes, committed, unplaced>>

Next ==
  \/ \E w \in Writers : Deliver(w) \/ Commit(w) \/ Misplace(w) \/ Fail(w)
  \/ Maintenance
  \/ NextDay /\ UNCHANGED storeVars

Spec == Init /\ [][Next]_vars

-----------------------------------------------------------------------------
(* Correctness.                                                            *)

\* Redelivery and reordering never take the map back in time: the latest row is one of
\* the newest positions committed for the vessel (upsertLatestPosition).
LatestIsNewest ==
  \A v \in Vessels :
    \A e \in committed : e.vessel = v =>
      /\ latest[v] # NoRow
      /\ e.at <= latest[v].at
      /\ \E f \in committed : f.vessel = v /\ f.at = latest[v].at /\ f.body = latest[v].body

\* A snapshot and a track agree: the latest position is on the track until its day is
\* dropped, and the track has nothing newer (the transaction of upsertPosition).
LatestOnTrack ==
  \A v \in Vessels :
    /\ latest[v] # NoRow /\ Retained(latest[v].at, today) => track[v][latest[v].at] # Absent
    /\ \A d \in Days : track[v][d] # Absent => latest[v] # NoRow /\ d <= latest[v].at

\* What the REST snapshot serves agrees with the events and with the track, whatever order
\* they were committed in.
LatestAgrees == LatestIsNewest /\ LatestOnTrack

\* What a track said of an instant it keeps saying while the day is retained: neither a
\* redelivery, a second event of that instant nor a maintenance run that read the
\* clock days ago changes or drops it.
TrackKept ==
  [][\A v \in Vessels : \A d \in Days :
       track[v][d] # Absent /\ Retained(d, today) => track'[v][d] = track[v][d]]_vars

\* Once maintained, the table has a place for every event the writer lets through: an
\* event is only rejected if it is dated beyond the precreated days, its day was
\* outdated by a midnight after the check, or maintenance has not run for too long.
RetainedIsPlaced ==
  \A u \in unplaced :
    \/ u.maintained = NoDay
    \/ u.event.at > u.maintained + Precreate
    \/ ~Retained(u.event.at, u.day)
=============================================================================
