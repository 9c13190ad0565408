------------------------- MODULE PositionStoreProofs -------------------------
(***************************************************************************)
(* The position tables agree with each other and with the events, for any  *)
(* number of writers, maintainers, vessels and days, and any retention,    *)
(* margin and precreation.                                                 *)
(***************************************************************************)
EXTENDS PositionStore, TLAPS, FiniteSetTheorems

-----------------------------------------------------------------------------
(***************************************************************************)
(* The invariant.                                                          *)
(***************************************************************************)

\* The advisory lock has one holder at most.
OneHolder == holder = {} \/ \E m \in Maintainers : holder = {m}

\* Every retained day up to the last maintained window has a partition.
WindowPlaced ==
  lastOk # NoDay =>
    \A d \in Days : Retained(d, today) /\ d <= lastOk + Precreate => d \in partitions

\* A row of vessel_positions_latest comes from a committed event.
RowCommitted ==
  \A v \in Vessels : latest[v] # NoRow =>
    \E f \in committed : f.vessel = v /\ f.at = latest[v].at /\ f.body = latest[v].body

IInv ==
  /\ TypeOK /\ OneHolder
  /\ WindowPlaced
  /\ RowCommitted
  /\ LatestAgrees
  /\ RetainedIsPlaced

LEMMA StoreFacts ==
  /\ Retention \in Nat \ {0} /\ Safety \in Nat /\ Precreate \in Nat
  /\ FirstDay \in Int /\ MaxDay \in Int /\ FirstDay <= MaxDay
  /\ Absent \notin Bodies /\ MaxWrites \in Nat
BY PartitionAssumption, StoreAssumption

\* An event, a row and their absence are told apart; no row is older than any.
LEMMA Sentinels ==
  /\ NoEvent \notin Events
  /\ NoRow \notin Rows
  /\ \A d \in Days : d \in Int /\ NoRow.at < d
<1>1. NoEvent \notin Events
  BY DEF NoEvent, Events
<1>2. NoRow \notin Rows
  BY DEF NoRow, Rows
<1>3. \A d \in Days : d \in Int /\ NoRow.at < d
  BY StoreFacts DEF Days, NoRow, CutoffDay
<1>4. QED
  BY <1>1, <1>2, <1>3

LEMMA HolderCounted ==
  ASSUME OneHolder
  PROVE  Cardinality(holder) <= 1
<1>1. CASE holder = {}
  BY <1>1, FS_EmptySet
<1>2. ASSUME NEW m, holder = {m}
      PROVE  Cardinality(holder) <= 1
  BY <1>2, FS_Singleton
<1>3. QED
  BY <1>1, <1>2 DEF OneHolder

-----------------------------------------------------------------------------
(***************************************************************************)
(* The partitions.                                                         *)
(***************************************************************************)

\* What every step of a maintainer does to the partitions: no retained day loses its own.
DropsOnlyOutdated ==
  \A d \in partitions : Retained(d, today) => d \in partitions'

LEMMA CommitMaintenanceKeeps ==
  ASSUME PartitionTypeOK, OneHolder, WindowPlaced, NEW m \in Maintainers, CommitMaintenance(m)
  PROVE  /\ PartitionTypeOK' /\ OneHolder' /\ WindowPlaced'
         /\ DropsOnlyOutdated /\ today' = today
<1>1. /\ run[m] \in FirstDay..MaxDay /\ run[m] <= today /\ today \in FirstDay..MaxDay
      /\ run \in [Maintainers -> NoDay..MaxDay] /\ lastOk \in NoDay..MaxDay
      /\ partitions \subseteq Days
      /\ \A n \in Maintainers : run[n] <= today
  BY StoreFacts DEF PartitionTypeOK, CommitMaintenance, NoDay
<1>2. /\ partitions' = (partitions \cup Window(run[m])) \ Outdated(partitions, run[m])
      /\ lastOk' = IF run[m] > lastOk THEN run[m] ELSE lastOk
      /\ run' = [run EXCEPT ![m] = NoDay]
      /\ holder' = {} /\ today' = today
  BY DEF CommitMaintenance
<1>3. Window(run[m]) \subseteq Days
  BY <1>1, StoreFacts DEF Window, Days, CutoffDay
<1>4. CutoffDay(run[m]) <= CutoffDay(today)
  BY <1>1, StoreFacts DEF CutoffDay
<1>5. DropsOnlyOutdated
  BY <1>1, <1>2, <1>4, StoreFacts DEF DropsOnlyOutdated, Outdated, Retained, CutoffDay, Days
<1>6. OneHolder'
  BY <1>2 DEF OneHolder
<1>7. run' \in [Maintainers -> NoDay..MaxDay] /\ \A n \in Maintainers : run'[n] <= today
  BY <1>1, <1>2, StoreFacts DEF NoDay
<1>8. lastOk' \in NoDay..MaxDay
  BY <1>1, <1>2, StoreFacts DEF NoDay
<1>9. PartitionTypeOK'
  <2>1. Cardinality(holder') <= 1
    BY <1>2, FS_EmptySet
  <2>2. partitions' \subseteq Days
    BY <1>1, <1>2, <1>3
  <2>3. QED
    BY <1>1, <1>2, <1>7, <1>8, <2>1, <2>2 DEF PartitionTypeOK
<1>10. WindowPlaced'
  <2>1. SUFFICES ASSUME NEW d \in Days, Retained(d, today), d <= lastOk' + Precreate
                 PROVE  d \in partitions'
    BY <1>2 DEF WindowPlaced
  <2>2. d \in Int /\ CutoffDay(run[m]) <= d
    BY <1>1, <1>4, <2>1, StoreFacts DEF Retained, Days, CutoffDay
  <2>3. d \notin Outdated(partitions, run[m])
    BY <1>1, <2>2, StoreFacts DEF Outdated, CutoffDay
  <2>4. CASE run[m] > lastOk
    BY <1>1, <1>2, <2>1, <2>2, <2>3, <2>4, StoreFacts DEF Window, CutoffDay
  <2>5. CASE ~(run[m] > lastOk)
    <3>1. lastOk' = lastOk /\ lastOk # NoDay
      BY <1>1, <1>2, <2>5, StoreFacts DEF NoDay
    <3>2. d \in partitions
      BY <2>1, <3>1 DEF WindowPlaced
    <3>3. QED
      BY <1>2, <2>3, <3>2
  <2>6. QED
    BY <2>4, <2>5
<1>11. QED
  BY <1>2, <1>5, <1>6, <1>9, <1>10

LEMMA PartitionStepKeeps ==
  ASSUME PartitionTypeOK, OneHolder, WindowPlaced, PartitionStep
  PROVE  /\ PartitionTypeOK' /\ OneHolder' /\ WindowPlaced'
         /\ DropsOnlyOutdated /\ today' = today
<1>1. /\ run \in [Maintainers -> NoDay..MaxDay] /\ today \in FirstDay..MaxDay
      /\ holder \subseteq Maintainers
  BY DEF PartitionTypeOK
<1>2. ASSUME NEW m \in Maintainers, Maintain(m)
      PROVE  PartitionTypeOK' /\ OneHolder' /\ WindowPlaced' /\ DropsOnlyOutdated /\ today' = today
  <2>1. run' = [run EXCEPT ![m] = today] /\ UNCHANGED <<today, partitions, holder, lastOk>>
    BY <1>2 DEF Maintain
  <2>2. PartitionTypeOK'
    BY <1>1, <2>1, StoreFacts DEF PartitionTypeOK, NoDay
  <2>3. QED
    BY <2>1, <2>2 DEF OneHolder, WindowPlaced, DropsOnlyOutdated
<1>3. ASSUME NEW m \in Maintainers, TryLock(m)
      PROVE  PartitionTypeOK' /\ OneHolder' /\ WindowPlaced' /\ DropsOnlyOutdated /\ today' = today
  <2>1. UNCHANGED <<today, partitions, lastOk>> /\ run[m] # NoDay /\ m \notin holder
    BY <1>3 DEF TryLock
  <2>2. OneHolder'
    BY <1>3 DEF TryLock, OneHolder
  <2>3. Cardinality(holder') <= 1
    <3>1. (OneHolder => Cardinality(holder) <= 1)'
      BY HolderCounted, PTL
    <3>2. QED
      BY <2>2, <3>1
  <2>4. PartitionTypeOK'
    <3>1. CASE holder' = {m} /\ UNCHANGED run
      BY <2>1, <2>3, <3>1 DEF PartitionTypeOK
    <3>2. CASE run' = [run EXCEPT ![m] = NoDay] /\ UNCHANGED holder
      BY <1>1, <2>1, <2>3, <3>2, StoreFacts DEF PartitionTypeOK, NoDay
    <3>3. QED
      BY <1>3, <3>1, <3>2 DEF TryLock
  <2>5. QED
    BY <2>1, <2>2, <2>4 DEF WindowPlaced, DropsOnlyOutdated
<1>4. ASSUME NEW m \in Maintainers, AbortMaintenance(m)
      PROVE  PartitionTypeOK' /\ OneHolder' /\ WindowPlaced' /\ DropsOnlyOutdated /\ today' = today
  <2>1. run' = [run EXCEPT ![m] = NoDay] /\ holder' = holder \ {m}
        /\ UNCHANGED <<today, partitions, lastOk>>
    BY <1>4 DEF AbortMaintenance
  <2>2. OneHolder'
    BY <2>1 DEF OneHolder
  <2>3. Cardinality(holder') <= 1
    <3>1. (OneHolder => Cardinality(holder) <= 1)'
      BY HolderCounted, PTL
    <3>2. QED
      BY <2>2, <3>1
  <2>4. PartitionTypeOK'
    BY <1>1, <2>1, <2>3, StoreFacts DEF PartitionTypeOK, NoDay
  <2>5. QED
    BY <2>1, <2>2, <2>4 DEF WindowPlaced, DropsOnlyOutdated
<1>5. QED
  BY <1>2, <1>3, <1>4, CommitMaintenanceKeeps DEF PartitionStep

-----------------------------------------------------------------------------
(***************************************************************************)
(* The actions.                                                            *)
(***************************************************************************)

\* What a track says of a retained instant it says after the step.
Keeps ==
  \A v \in Vessels : \A d \in Days :
    track[v][d] # Absent /\ Retained(d, today) => track'[v][d] = track[v][d]

\* Steps that leave the tables, the clock and the partitions alone.
LEMMA TablesAlone ==
  ASSUME IInv, TypeOK', UNCHANGED <<today, partitionVars, latest, track, committed>>,
         RetainedIsPlaced'
  PROVE  IInv' /\ Keeps
<1>1. OneHolder' /\ WindowPlaced'
  BY DEF IInv, OneHolder, WindowPlaced, partitionVars
<1>2. RowCommitted' /\ LatestAgrees'
  BY DEF IInv, RowCommitted, LatestAgrees, LatestIsNewest, LatestOnTrack
<1>3. QED
  BY <1>1, <1>2 DEF IInv, Keeps

LEMMA DeliverKeeps ==
  ASSUME IInv, NEW w \in Writers, Deliver(w)
  PROVE  IInv' /\ Keeps
<1>1. PICK e \in Events : writing' = [writing EXCEPT ![w] = e]
  BY DEF Deliver
<1>2. /\ writes < MaxWrites /\ writes' = writes + 1
      /\ UNCHANGED <<today, partitionVars, latest, track, committed, unplaced>>
  BY DEF Deliver
<1>3. TypeOK'
  BY <1>1, <1>2, StoreFacts DEF IInv, TypeOK, PartitionTypeOK, partitionVars
<1>4. RetainedIsPlaced'
  BY <1>2 DEF IInv, RetainedIsPlaced
<1>5. QED
  BY <1>2, <1>3, <1>4, TablesAlone

LEMMA FailKeeps ==
  ASSUME IInv, NEW w \in Writers, Fail(w)
  PROVE  IInv' /\ Keeps
<1>1. /\ writing' = [writing EXCEPT ![w] = NoEvent]
      /\ UNCHANGED <<today, partitionVars, latest, track, writes, committed, unplaced>>
  BY DEF Fail
<1>2. TypeOK'
  BY <1>1 DEF IInv, TypeOK, PartitionTypeOK, partitionVars
<1>3. RetainedIsPlaced'
  BY <1>1 DEF IInv, RetainedIsPlaced
<1>4. QED
  BY <1>1, <1>2, <1>3, TablesAlone

LEMMA MisplaceKeeps ==
  ASSUME IInv, NEW w \in Writers, Misplace(w)
  PROVE  IInv' /\ Keeps
<1> DEFINE e == writing[w]
           u == [event |-> e, day |-> today, maintained |-> lastOk]
<1>1. /\ e # NoEvent /\ e.at \notin partitions
      /\ unplaced' = unplaced \cup {u}
      /\ writing' = [writing EXCEPT ![w] = NoEvent]
      /\ UNCHANGED <<today, partitionVars, latest, track, writes, committed>>
  BY DEF Misplace
<1>2. e \in Events /\ e.at \in Days
  BY <1>1 DEF IInv, TypeOK, Events
<1>3. TypeOK'
  BY <1>1, <1>2 DEF IInv, TypeOK, PartitionTypeOK, partitionVars
<1>4. RetainedIsPlaced'
  <2>1. lastOk # NoDay => ~Retained(e.at, today) \/ ~(e.at <= lastOk + Precreate)
    BY <1>1, <1>2 DEF IInv, WindowPlaced
  <2>2. lastOk \in Int /\ e.at \in Int
    BY <1>2, Sentinels, StoreFacts DEF IInv, TypeOK, PartitionTypeOK, NoDay
  <2>3. \/ u.maintained = NoDay
        \/ u.event.at > u.maintained + Precreate
        \/ ~Retained(u.event.at, u.day)
    BY <2>1, <2>2, StoreFacts
  <2>4. QED
    BY <1>1, <2>3 DEF IInv, RetainedIsPlaced
<1>5. QED
  BY <1>1, <1>3, <1>4, TablesAlone

LEMMA MaintenanceKeeps ==
  ASSUME IInv, Maintenance
  PROVE  IInv' /\ Keeps
<1>1. /\ PartitionTypeOK' /\ OneHolder' /\ WindowPlaced'
      /\ DropsOnlyOutdated /\ today' = today
  BY PartitionStepKeeps DEF IInv, TypeOK, Maintenance
<1>2. /\ track' = [v \in Vessels |->
                     [d \in Days |-> IF d \in partitions' THEN track[v][d] ELSE Absent]]
      /\ UNCHANGED <<latest, writing, writes, committed, unplaced>>
  BY DEF Maintenance
<1>3. TypeOK'
  BY <1>1, <1>2 DEF IInv, TypeOK
<1>4. Keeps
  BY <1>1, <1>2 DEF IInv, TypeOK, Keeps, DropsOnlyOutdated
<1>5. RowCommitted' /\ LatestIsNewest' /\ RetainedIsPlaced'
  BY <1>2 DEF IInv, RowCommitted, LatestAgrees, LatestIsNewest, RetainedIsPlaced
<1>6. LatestOnTrack'
  <2>1. SUFFICES ASSUME NEW v \in Vessels
                 PROVE  /\ latest[v] # NoRow /\ Retained(latest[v].at, today)
                             => track'[v][latest[v].at] # Absent
                        /\ \A d \in Days : track'[v][d] # Absent
                             => latest[v] # NoRow /\ d <= latest[v].at
    BY <1>1, <1>2 DEF LatestOnTrack
  <2>2. latest[v] # NoRow => latest[v].at \in Days
    BY DEF IInv, TypeOK, Rows
  <2>3. latest[v] # NoRow /\ Retained(latest[v].at, today) => track[v][latest[v].at] # Absent
    BY DEF IInv, LatestAgrees, LatestOnTrack
  <2>4. \A d \in Days : track'[v][d] # Absent => track[v][d] # Absent
    BY <1>2
  <2>5. QED
    BY <1>4, <2>2, <2>3, <2>4 DEF IInv, LatestAgrees, LatestOnTrack, Keeps
<1>7. QED
  BY <1>1, <1>3, <1>4, <1>5, <1>6 DEF IInv, LatestAgrees

LEMMA NextDayKeeps ==
  ASSUME IInv, NextDay, UNCHANGED storeVars
  PROVE  IInv' /\ Keeps
<1>1. /\ today < MaxDay /\ today' = today + 1 /\ today \in FirstDay..MaxDay
      /\ UNCHANGED <<partitions, run, holder, lastOk, latest, track, writing, writes,
                     committed, unplaced>>
  BY DEF NextDay, partitionVars, storeVars, IInv, TypeOK, PartitionTypeOK
<1>2. \A d \in Days : Retained(d, today)' => Retained(d, today)
  BY <1>1, Sentinels, StoreFacts DEF Retained, CutoffDay
<1>3. PartitionTypeOK'
  <2>1. \A m \in Maintainers : run[m] <= today'
    BY <1>1, StoreFacts DEF IInv, TypeOK, PartitionTypeOK, NoDay
  <2>2. QED
    BY <1>1, <2>1, StoreFacts DEF IInv, TypeOK, PartitionTypeOK
<1>4. TypeOK' /\ OneHolder' /\ RowCommitted' /\ LatestIsNewest' /\ RetainedIsPlaced' /\ Keeps
  BY <1>1, <1>3 DEF IInv, TypeOK, OneHolder, RowCommitted, LatestAgrees, LatestIsNewest,
                    RetainedIsPlaced, Keeps
<1>5. WindowPlaced'
  BY <1>1, <1>2 DEF IInv, WindowPlaced
<1>6. LatestOnTrack'
  <2>1. \A v \in Vessels : latest[v] # NoRow => latest[v].at \in Days
    BY DEF IInv, TypeOK, Rows
  <2>2. QED
    BY <1>1, <1>2, <2>1 DEF IInv, LatestAgrees, LatestOnTrack
<1>7. QED
  BY <1>4, <1>5, <1>6 DEF IInv, LatestAgrees

\* The row a commit leaves for the vessel is the newest, and comes from an event.
LEMMA CommittedRow ==
  ASSUME IInv, NEW e \in Events,
         latest' = [latest EXCEPT ![e.vessel] =
                      IF NewerOrEqual(e, @) THEN [at |-> e.at, body |-> e.body] ELSE @],
         committed' = committed \cup {e}
  PROVE  /\ latest' \in [Vessels -> Rows \cup {NoRow}]
         /\ \A v \in Vessels : v # e.vessel => latest'[v] = latest[v]
         /\ latest'[e.vessel] \in Rows /\ e.at <= latest'[e.vessel].at
         /\ latest[e.vessel] # NoRow => latest[e.vessel].at <= latest'[e.vessel].at
         /\ latest'[e.vessel] = latest[e.vessel]
              \/ latest'[e.vessel] = [at |-> e.at, body |-> e.body]
<1> DEFINE v == e.vessel
           new == [at |-> e.at, body |-> e.body]
<1>1. /\ latest \in [Vessels -> Rows \cup {NoRow}]
      /\ v \in Vessels /\ e.at \in Days /\ e.body \in Bodies
  BY DEF IInv, TypeOK, Events
<1>2. new \in Rows /\ new.at = e.at
  BY <1>1 DEF Rows
<1>3. latest'[v] = IF latest[v].at <= e.at THEN new ELSE latest[v]
  BY <1>1 DEF NewerOrEqual
<1>4. latest[v] \in Rows => latest[v].at \in Days
  BY DEF Rows
<1>5. latest[v] = NoRow => latest[v].at <= e.at
  BY <1>1, Sentinels, StoreFacts DEF NoRow, CutoffDay
<1>6. e.at \in Int /\ (latest[v] \in Rows => latest[v].at \in Int)
  BY <1>1, <1>4, Sentinels
<1>7. latest'[v] \in Rows /\ e.at <= latest'[v].at
  BY <1>1, <1>2, <1>3, <1>5, <1>6
<1>8. latest[v] # NoRow => latest[v].at <= latest'[v].at
  BY <1>1, <1>2, <1>3, <1>6
<1>9. QED
  BY <1>1, <1>2, <1>3, <1>7, <1>8

LEMMA CommitKeeps ==
  ASSUME IInv, NEW w \in Writers, Commit(w)
  PROVE  IInv' /\ Keeps
<1>1. writing[w] \in Events
  BY DEF Commit, IInv, TypeOK
<1>2. PICK e \in Events : e = writing[w]
  BY <1>1
<1>3. /\ e.at \in partitions
      /\ latest' = [latest EXCEPT ![e.vessel] =
                      IF NewerOrEqual(e, @) THEN [at |-> e.at, body |-> e.body] ELSE @]
      /\ track' = [track EXCEPT ![e.vessel][e.at] = IF @ = Absent THEN e.body ELSE @]
      /\ committed' = committed \cup {e}
      /\ writing' = [writing EXCEPT ![w] = NoEvent]
      /\ UNCHANGED <<today, partitionVars, writes, unplaced>>
  BY <1>2 DEF Commit, Tracked
<1>4. e.vessel \in Vessels /\ e.at \in Days /\ e.body \in Bodies /\ e.body # Absent
  BY StoreFacts DEF Events
<1>5. /\ latest' \in [Vessels -> Rows \cup {NoRow}]
      /\ \A v \in Vessels : v # e.vessel => latest'[v] = latest[v]
      /\ latest'[e.vessel] \in Rows /\ e.at <= latest'[e.vessel].at
      /\ latest[e.vessel] # NoRow => latest[e.vessel].at <= latest'[e.vessel].at
      /\ latest'[e.vessel] = latest[e.vessel]
           \/ latest'[e.vessel] = [at |-> e.at, body |-> e.body]
  BY <1>3, CommittedRow
<1>6. track \in [Vessels -> [Days -> Bodies \cup {Absent}]]
  BY DEF IInv, TypeOK
<1>7. /\ track' \in [Vessels -> [Days -> Bodies \cup {Absent}]]
      /\ track'[e.vessel][e.at] # Absent
      /\ \A v \in Vessels : \A d \in Days : track[v][d] # Absent => track'[v][d] = track[v][d]
      /\ \A v \in Vessels : \A d \in Days :
           track'[v][d] # Absent => track[v][d] # Absent \/ (v = e.vessel /\ d = e.at)
  BY <1>3, <1>4, <1>6
<1>8. PartitionTypeOK' /\ OneHolder' /\ WindowPlaced' /\ RetainedIsPlaced'
  BY <1>3 DEF IInv, TypeOK, PartitionTypeOK, OneHolder, WindowPlaced, RetainedIsPlaced,
              partitionVars
<1>9. TypeOK'
  <2>1. \A v \in Vessels : \A d \in Days : track'[v][d] # Absent => d \in partitions'
    BY <1>3, <1>7 DEF IInv, TypeOK, partitionVars
  <2>2. QED
    BY <1>3, <1>5, <1>7, <1>8, <2>1 DEF IInv, TypeOK
<1>10. latest'[e.vessel] # NoRow
  BY <1>5, Sentinels
<1>11. RowCommitted'
  <2>1. SUFFICES ASSUME NEW v \in Vessels, latest'[v] # NoRow
                 PROVE  \E f \in committed' : f.vessel = v /\ f.at = latest'[v].at
                                              /\ f.body = latest'[v].body
    BY DEF RowCommitted
  <2>2. CASE latest'[v] = latest[v]
    BY <1>3, <2>1, <2>2 DEF IInv, RowCommitted
  <2>3. CASE v = e.vessel /\ latest'[v] = [at |-> e.at, body |-> e.body]
    BY <1>3, <2>3
  <2>4. QED
    BY <1>5, <2>2, <2>3
<1>12. LatestIsNewest'
  <2>1. SUFFICES ASSUME NEW v \in Vessels, NEW f \in committed', f.vessel = v
                 PROVE  latest'[v] # NoRow /\ f.at <= latest'[v].at
    BY <1>11 DEF LatestIsNewest, RowCommitted
  <2>2. CASE f = e
    BY <1>5, <1>10, <2>1, <2>2
  <2>3. CASE f \in committed
    <3>1. latest[v] # NoRow /\ f.at <= latest[v].at
      BY <2>1, <2>3 DEF IInv, LatestAgrees, LatestIsNewest
    <3>2. f.at \in Int /\ latest[v].at \in Int /\ latest'[v].at \in Int
      <4>1. f.at \in Days /\ latest[v].at \in Days
        BY <2>3, <3>1 DEF IInv, TypeOK, Events, Rows
      <4>2. latest'[v].at \in Days
        BY <1>5, <3>1, <4>1 DEF Rows
      <4>3. QED
        BY <4>1, <4>2, Sentinels
    <3>3. QED
      BY <1>5, <1>10, <3>1, <3>2
  <2>4. QED
    BY <1>3, <2>2, <2>3
<1>13. LatestOnTrack'
  <2>1. SUFFICES ASSUME NEW v \in Vessels
                 PROVE  /\ latest'[v] # NoRow /\ Retained(latest'[v].at, today)
                             => track'[v][latest'[v].at] # Absent
                        /\ \A d \in Days : track'[v][d] # Absent
                             => latest'[v] # NoRow /\ d <= latest'[v].at
    BY <1>3 DEF LatestOnTrack
  <2>2. latest[v] # NoRow => latest[v].at \in Days
    BY DEF IInv, TypeOK, Rows
  <2>3. /\ latest[v] # NoRow /\ Retained(latest[v].at, today) => track[v][latest[v].at] # Absent
        /\ \A d \in Days : track[v][d] # Absent => latest[v] # NoRow /\ d <= latest[v].at
    BY DEF IInv, LatestAgrees, LatestOnTrack
  <2>4. latest'[v] # NoRow /\ Retained(latest'[v].at, today)
          => track'[v][latest'[v].at] # Absent
    <3>1. CASE latest'[v] = latest[v]
      BY <1>7, <2>2, <2>3, <3>1
    <3>2. CASE v = e.vessel /\ latest'[v] = [at |-> e.at, body |-> e.body]
      BY <1>7, <3>2
    <3>3. QED
      BY <1>5, <3>1, <3>2
  <2>5. ASSUME NEW d \in Days, track'[v][d] # Absent
        PROVE  latest'[v] # NoRow /\ d <= latest'[v].at
    <3>1. CASE v = e.vessel /\ d = e.at
      BY <1>5, <1>10, <3>1
    <3>2. CASE track[v][d] # Absent
      <4>1. latest[v] # NoRow /\ d <= latest[v].at
        BY <2>3, <3>2
      <4>2. d \in Int /\ latest[v].at \in Int
        BY <2>2, <4>1, Sentinels
      <4>3. v = e.vessel => latest'[v].at \in Int
        BY <1>5, Sentinels DEF Rows
      <4>4. QED
        BY <1>5, <1>10, <4>1, <4>2, <4>3
    <3>3. QED
      BY <1>7, <2>5, <3>1, <3>2
  <2>6. QED
    BY <2>4, <2>5
<1>14. Keeps
  BY <1>7 DEF Keeps
<1>15. QED
  BY <1>8, <1>9, <1>11, <1>12, <1>13, <1>14 DEF IInv, LatestAgrees

-----------------------------------------------------------------------------
(***************************************************************************)
(* The theorems.                                                           *)
(***************************************************************************)

LEMMA InitAgrees ==
  ASSUME Init
  PROVE  IInv
<1>1. PartitionTypeOK /\ OneHolder
  BY StoreFacts, FS_EmptySet DEF Init, PartitionInit, PartitionTypeOK, OneHolder, NoDay
<1>2. TypeOK
  BY <1>1, StoreFacts DEF Init, TypeOK
<1>3. WindowPlaced
  BY DEF Init, PartitionInit, WindowPlaced
<1>4. RowCommitted /\ LatestAgrees /\ RetainedIsPlaced
  BY DEF Init, RowCommitted, LatestAgrees, LatestIsNewest, LatestOnTrack, RetainedIsPlaced
<1>5. QED
  BY <1>1, <1>2, <1>3, <1>4 DEF IInv

LEMMA NextAgrees ==
  ASSUME IInv, [Next]_vars
  PROVE  IInv' /\ Keeps
<1>1. CASE UNCHANGED vars
  <2>1. UNCHANGED <<today, partitionVars, latest, track, writing, writes, committed, unplaced>>
    BY <1>1 DEF vars, storeVars
  <2>2. TypeOK' /\ RetainedIsPlaced'
    BY <2>1 DEF IInv, TypeOK, PartitionTypeOK, RetainedIsPlaced, partitionVars
  <2>3. QED
    BY <2>1, <2>2, TablesAlone
<1>2. QED
  BY <1>1, DeliverKeeps, CommitKeeps, MisplaceKeeps, FailKeeps, MaintenanceKeeps,
     NextDayKeeps DEF Next

\* The inductive invariant holds of every behaviour.
THEOREM StoreInvariant == Spec => []IInv
<1>1. Init => IInv
  BY InitAgrees
<1>2. IInv /\ [Next]_vars => IInv'
  BY NextAgrees
<1>3. QED
  BY <1>1, <1>2, PTL DEF Spec

\* The tables, the partitions, the lock and the writers keep their types; a position in the
\* history lies in a partition.
THEOREM StoreTypes == Spec => []TypeOK
<1>1. IInv => TypeOK
  BY DEF IInv
<1>2. QED
  BY <1>1, StoreInvariant, PTL

\* upsertPosition keeps the latest row the newest committed event of its vessel and the
\* track in step with it, in every order of deliveries, maintenance runs and midnights.
THEOREM LatestAlwaysAgrees == Spec => []LatestAgrees
<1>1. IInv => LatestAgrees
  BY DEF IInv
<1>2. QED
  BY <1>1, StoreInvariant, PTL

\* No event the writer lets through lacks a partition once maintenance has run, except
\* beyond the precreated days or past its day.
THEOREM PlacedWhileMaintained == Spec => []RetainedIsPlaced
<1>1. IInv => RetainedIsPlaced
  BY DEF IInv
<1>2. QED
  BY <1>1, StoreInvariant, PTL

\* While its day is retained, what a track says of an instant is neither changed nor
\* dropped by any step, a maintenance run that read the clock days ago included.
THEOREM TracksAreKept == Spec => TrackKept
<1>1. IInv /\ [Next]_vars =>
        [\A v \in Vessels : \A d \in Days :
           track[v][d] # Absent /\ Retained(d, today) => track'[v][d] = track[v][d]]_vars
  BY NextAgrees DEF Keeps
<1>2. QED
  BY <1>1, StoreInvariant, PTL DEF Spec, TrackKept
=============================================================================
