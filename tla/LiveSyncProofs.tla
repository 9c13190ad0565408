---------------------------- MODULE LiveSyncProofs ----------------------------
(***************************************************************************)
(* The store never goes back in time, the page always has one connection   *)
(* or tries for one, and catches up after an outage, for every length of   *)
(* the clock, any number of checks, lost connections and fetches, and      *)
(* every retention.                                                        *)
(***************************************************************************)
EXTENDS LiveSync, FiniteSetTheorems, TLAPS

-----------------------------------------------------------------------------
(***************************************************************************)
(* The reducers.                                                           *)
(***************************************************************************)

\* Going from v to w takes no field back.
Ahead(v, w) ==
  /\ v.at <= w.at
  /\ v.staticAt <= w.staticAt
  /\ v.checked <= w.checked
  /\ v.lastSeen <= w.lastSeen
  /\ v.named => w.named

Fits(v) == v.matches <= v.checked

\* What every reducer keeps, from a vessel that is or is not there.
Merges(v, w) ==
  /\ w \in Vessel \cup {Gone}
  /\ v # Gone => w # Gone /\ Ahead(v, w)
  /\ (v # Gone => Fits(v)) => (w # Gone => Fits(w))

LEMMA GoneIsNoVessel == Gone \notin Vessel
  BY DEF Gone, Vessel

LEMMA BaseIsVessel ==
  ASSUME NEW v \in Vessel \cup {Gone}
  PROVE  /\ Base(v) \in Vessel
         /\ v # Gone => Base(v) = v
         /\ (v # Gone => Fits(v)) => Fits(Base(v))
<1>1. EmptyVessel \in Vessel /\ Fits(EmptyVessel)
  BY StoreAssumption DEF EmptyVessel, Vessel, Null, Fits
<1>2. CASE v = Gone
  BY <1>1, <1>2 DEF Base
<1>3. CASE v # Gone
  BY <1>3 DEF Base
<1>4. QED
  BY <1>2, <1>3

LEMMA SnapshotMerges ==
  ASSUME NEW v \in Vessel \cup {Gone}, NEW row \in Rows
  PROVE  /\ Merges(v, ApplySnapshotRow(v, row))
         /\ ApplySnapshotRow(v, row) # Gone
         /\ row.seen <= ApplySnapshotRow(v, row).lastSeen
<1> DEFINE b == Base(v)
           w == ApplySnapshotRow(v, row)
           seen == MaxTimestamp(b.lastSeen, row.seen)
           at == IF IsNewer(row.at, b.at) THEN row.at ELSE b.at
           named == row.named \/ b.named
           checked == IF IsNewer(row.checked, b.checked) THEN row.checked ELSE b.checked
<1>1. b \in Vessel /\ (v # Gone => b = v) /\ ((v # Gone => Fits(v)) => Fits(b))
  BY BaseIsVessel
<1>2. w = [b EXCEPT !.lastSeen = seen, !.at = at, !.named = named, !.checked = checked]
  BY DEF ApplySnapshotRow
<1> HIDE DEF b
<1>3. /\ seen \in 0..MaxNow /\ b.lastSeen <= seen
      /\ at \in 0..MaxNow /\ b.at <= at
      /\ named \in BOOLEAN /\ (b.named => named)
      /\ checked \in 0..MaxChecks /\ b.checked <= checked
      /\ row.seen <= seen
  BY <1>1, StoreAssumption DEF Vessel, Rows, MaxTimestamp, IsNewer, Null
<1> HIDE DEF seen, at, named, checked, w
<1>4. w \in Vessel
  BY <1>1, <1>2, <1>3 DEF Vessel
<1>5. w.at = at /\ w.lastSeen = seen /\ w.checked = checked
  BY <1>1, <1>2 DEF Vessel
<1>6. w.staticAt = b.staticAt /\ w.matches = b.matches
  BY <1>1, <1>2 DEF Vessel
<1>7. b.named => w.named
  BY <1>1, <1>2, <1>3 DEF Vessel
<1>8. Ahead(b, w) /\ w.matches = b.matches
  BY <1>1, <1>3, <1>5, <1>6, <1>7, StoreAssumption DEF Vessel, Ahead
<1>9. QED
  BY <1>1, <1>3, <1>4, <1>5, <1>8, GoneIsNoVessel, StoreAssumption
     DEF Merges, Fits, Ahead, Vessel, w

\* A check with its matches.
LEMMA CheckMerges ==
  ASSUME NEW v \in Vessel \cup {Gone}, NEW check \in 0..MaxChecks, Base(v).checked <= check
  PROVE  Merges(v, [Base(v) EXCEPT !.checked = check, !.matches = check])
<1> DEFINE b == Base(v)
           w == [b EXCEPT !.checked = check, !.matches = check]
<1>1. b \in Vessel /\ (v # Gone => b = v)
  BY BaseIsVessel
<1>2. w = [b EXCEPT !.checked = check, !.matches = check]
  OBVIOUS
<1>3. b.checked <= check
  OBVIOUS
<1> HIDE DEF b, w
<1>4. w \in Vessel
  BY <1>1, <1>2 DEF Vessel
<1>5. w.checked = check /\ w.matches = check
  BY <1>1, <1>2 DEF Vessel
<1>6. w.at = b.at /\ w.staticAt = b.staticAt /\ w.lastSeen = b.lastSeen
  BY <1>1, <1>2 DEF Vessel
<1>7. w.named = b.named
  BY <1>1, <1>2 DEF Vessel
<1>8. Ahead(b, w) /\ Fits(w)
  BY <1>1, <1>3, <1>5, <1>6, <1>7, StoreAssumption DEF Vessel, Ahead, Fits
<1>9. QED
  BY <1>1, <1>4, <1>8, GoneIsNoVessel DEF Merges, w, b

\* A message that changes nothing.
LEMMA IgnoredMerges ==
  ASSUME NEW v \in Vessel \cup {Gone}
  PROVE  Merges(v, v)
<1>1. v # Gone => Ahead(v, v)
  BY StoreAssumption DEF Ahead, Vessel
<1>2. QED
  BY <1>1 DEF Merges

LEMMA DetailMerges ==
  ASSUME NEW v \in Vessel \cup {Gone}, NEW check \in 0..MaxChecks
  PROVE  Merges(v, ApplyDetailSanctions(v, check))
<1>1. CASE ~IsNewer(check, Base(v).checked)
  BY <1>1, IgnoredMerges DEF ApplyDetailSanctions
<1>2. CASE IsNewer(check, Base(v).checked)
  <2>1. Base(v).checked <= check
    BY <1>2, BaseIsVessel, StoreAssumption DEF IsNewer, Vessel
  <2>2. QED
    BY <1>2, <2>1, CheckMerges DEF ApplyDetailSanctions
<1>3. QED
  BY <1>1, <1>2

LEMMA EnrichedMerges ==
  ASSUME NEW v \in Vessel \cup {Gone}, NEW check \in 1..MaxChecks
  PROVE  Merges(v, ApplyEnriched(v, check))
<1>1. CASE check < Base(v).checked
  BY <1>1, IgnoredMerges DEF ApplyEnriched
<1>2. CASE ~(check < Base(v).checked)
  <2>1. Base(v).checked <= check /\ check \in 0..MaxChecks
    BY <1>2, BaseIsVessel, StoreAssumption DEF Vessel
  <2>2. QED
    BY <1>2, <2>1, CheckMerges DEF ApplyEnriched
<1>3. QED
  BY <1>1, <1>2

LEMMA PositionMerges ==
  ASSUME NEW v \in Vessel \cup {Gone}, NEW e \in Events
  PROVE  /\ Merges(v, ApplyPosition(v, e))
         /\ IsNewer(e.at, Base(v).at) =>
              ApplyPosition(v, e) # Gone /\ e.at <= ApplyPosition(v, e).lastSeen
<1> DEFINE b == Base(v)
           seen == MaxTimestamp(b.lastSeen, e.at)
           named == e.named \/ b.named
           w == [b EXCEPT !.at = e.at, !.lastSeen = seen, !.named = named]
<1>1. b \in Vessel /\ (v # Gone => b = v)
  BY BaseIsVessel
<1>2. CASE ~IsNewer(e.at, b.at)
  BY <1>2, IgnoredMerges DEF ApplyPosition
<1>3. CASE IsNewer(e.at, b.at)
  <2>1. ApplyPosition(v, e) = w
    BY <1>3 DEF ApplyPosition
  <2>2. w = [b EXCEPT !.at = e.at, !.lastSeen = seen, !.named = named]
    OBVIOUS
  <2> HIDE DEF b
  <2>3. /\ e.at \in 0..MaxNow /\ b.at <= e.at
        /\ seen \in 0..MaxNow /\ b.lastSeen <= seen /\ e.at <= seen
        /\ named \in BOOLEAN /\ (b.named => named)
    BY <1>1, <1>3, StoreAssumption
       DEF Vessel, Events, Instants, IsNewer, Null, MaxTimestamp
  <2> HIDE DEF seen, named, w
  <2>4. w \in Vessel
    BY <1>1, <2>2, <2>3 DEF Vessel
  <2>5. w.at = e.at /\ w.lastSeen = seen
    BY <1>1, <2>2 DEF Vessel
  <2>6. w.staticAt = b.staticAt /\ w.checked = b.checked /\ w.matches = b.matches
    BY <1>1, <2>2 DEF Vessel
  <2>7. b.named => w.named
    BY <1>1, <2>2, <2>3 DEF Vessel
  <2>8. Ahead(b, w) /\ (Fits(b) => Fits(w))
    BY <1>1, <2>3, <2>5, <2>6, <2>7, StoreAssumption DEF Vessel, Ahead, Fits
  <2>9. (v # Gone => Fits(v)) => Fits(b)
    BY BaseIsVessel DEF b
  <2>10. QED
    BY <1>1, <2>1, <2>3, <2>4, <2>5, <2>8, <2>9, GoneIsNoVessel DEF Merges
<1>4. QED
  BY <1>2, <1>3

LEMMA StaticMerges ==
  ASSUME NEW v \in Vessel \cup {Gone}, NEW e \in Events
  PROVE  Merges(v, ApplyStatic(v, e))
<1> DEFINE b == Base(v)
           named == e.named \/ b.named
           w == [b EXCEPT !.named = named, !.staticAt = e.at]
<1>1. b \in Vessel /\ (v # Gone => b = v)
  BY BaseIsVessel
<1>2. CASE v # Gone /\ ~IsNewer(e.at, v.staticAt)
  BY <1>2, IgnoredMerges DEF ApplyStatic
<1>3. CASE ~(v # Gone /\ ~IsNewer(e.at, v.staticAt))
  <2>1. ApplyStatic(v, e) = w
    BY <1>3 DEF ApplyStatic
  <2>2. w = [b EXCEPT !.named = named, !.staticAt = e.at]
    OBVIOUS
  <2>3. v # Gone => v.staticAt <= e.at
    BY <1>3 DEF IsNewer
  <2> HIDE DEF b
  <2>4. e.at \in 0..MaxNow /\ named \in BOOLEAN /\ (b.named => named)
    BY <1>1, StoreAssumption DEF Vessel, Events, Instants
  <2> HIDE DEF named, w
  <2>5. w \in Vessel
    BY <1>1, <2>2, <2>4 DEF Vessel
  <2>6. w.at = b.at /\ w.lastSeen = b.lastSeen /\ w.staticAt = e.at
    BY <1>1, <2>2 DEF Vessel
  <2>7. w.checked = b.checked /\ w.matches = b.matches
    BY <1>1, <2>2 DEF Vessel
  <2>8. b.named => w.named
    BY <1>1, <2>2, <2>4 DEF Vessel
  <2>9. (v # Gone => Ahead(b, w)) /\ (Fits(b) => Fits(w))
    BY <1>1, <2>3, <2>6, <2>7, <2>8, StoreAssumption DEF Vessel, Ahead, Fits
  <2>10. (v # Gone => Fits(v)) => Fits(b)
    BY BaseIsVessel DEF b
  <2>11. QED
    BY <1>1, <2>1, <2>5, <2>9, <2>10, GoneIsNoVessel DEF Merges
<1>4. QED
  BY <1>2, <1>3

\* Pruning drops the vessel or leaves it, and drops none heard of within the retention.
LEMMA PrunedOrKept ==
  ASSUME NEW v \in Vessel \cup {Gone}, NEW t \in Instants
  PROVE  /\ Pruned(v, t) \in {v, Gone}
         /\ v # Gone /\ v.lastSeen # Null /\ Pruned(v, t) = Gone => t - v.lastSeen > Retention
<1>1. Pruned(v, t) \in {v, Gone}
  BY DEF Pruned
<1>2. ASSUME v # Gone, v.lastSeen # Null, Pruned(v, t) = Gone
      PROVE  t - v.lastSeen > Retention
  BY <1>2 DEF Pruned, Outdated, Activity
<1>3. QED
  BY <1>1, <1>2

-----------------------------------------------------------------------------
(***************************************************************************)
(* The inductive invariant.  A removal can only be judged by what has been *)
(* heard if that is in the store or too old to matter (HeardIsKept); the   *)
(* answer to be applied next must be no older than the last one applied,   *)
(* which is no older than the database (AnswersAhead).                     *)
(***************************************************************************)

Older(r, s) == r.at <= s.at /\ r.seen <= s.seen /\ r.checked <= s.checked

Answered(i) == fetch[i].state = "answered"

SyncType ==
  /\ now \in Instants
  /\ db \in Rows /\ db.seen <= now
  /\ vessel \in Vessel \cup {Gone}
  /\ heard \in 0..MaxNow
  /\ applied \in Rows \cup {NoRow}
  /\ request \in Int
  /\ fetch = [i \in Fetches |-> fetch[i]]
  /\ \A i \in Fetches : Answered(i) => fetch[i].row \in Rows \cup {NoRow}

HeardIsKept ==
  heard # Null => \/ now - heard > Retention
                  \/ vessel # Gone /\ heard <= vessel.lastSeen

AnswersAhead ==
  /\ \A i \in Fetches :
       Answered(i) /\ fetch[i].row # NoRow =>
         /\ Older(fetch[i].row, db)
         /\ i = request /\ applied # NoRow => Older(applied, fetch[i].row)
  /\ applied # NoRow => Older(applied, db)

SyncInv == SyncType /\ MatchesFitStatus /\ HeardIsKept /\ AnswersAhead

LEMMA NoRowIsNoRow == NoRow \notin Rows
  BY DEF NoRow, Rows

\* Every step leaves the vessel, merges something into it, or drops it.
Moves(v, w) == w \in Vessel \cup {Gone} /\ (w = Gone \/ Merges(v, w))

LEMMA MovesFits ==
  ASSUME NEW v \in Vessel \cup {Gone}, NEW w, Moves(v, w), v # Gone => Fits(v)
  PROVE  w # Gone => Fits(w)
  BY DEF Moves, Merges

LEMMA InitHolds == Init => SyncInv
<1> SUFFICES ASSUME Init PROVE SyncInv
  OBVIOUS
<1>1. db = [at |-> 0, seen |-> 0, named |-> FALSE, checked |-> 0]
  BY DEF Init, Null
<1>2. db \in Rows
  BY <1>1, StoreAssumption DEF Rows
<1>3. \A i \in Fetches : fetch[i].state = "none"
  BY DEF Init, NoFetch
<1>4. SyncType
  BY <1>1, <1>2, <1>3, StoreAssumption DEF Init, SyncType, Instants, Answered, Null
<1>5. AnswersAhead
  BY <1>3 DEF Init, AnswersAhead, Answered
<1>6. QED
  BY <1>4, <1>5 DEF Init, SyncInv, MatchesFitStatus, HeardIsKept

-----------------------------------------------------------------------------
(***************************************************************************)
(* The actions that touch what the invariant is about.                     *)
(***************************************************************************)

LEMMA ApplySafe ==
  ASSUME SyncInv, NEW i \in Fetches, Apply(i)
  PROVE  /\ SyncInv'
         /\ Moves(vessel, vessel')
         /\ applied # NoRow => Older(applied, applied')
         /\ vessel # Gone /\ vessel' = Gone => heard = Null \/ now - heard > Retention
<1> USE DEF SyncInv
<1> DEFINE row == fetch[i].row
           w == ApplySnapshotRow(vessel, row)
<1>1. /\ Answered(i) /\ fetch' = [fetch EXCEPT ![i] = Settled]
      /\ UNCHANGED <<now, db, request>>
  BY DEF Apply, Answered, serverVars
<1>2. row \in Rows \cup {NoRow}
  BY <1>1 DEF SyncType
<1>3. /\ fetch' = [j \in Fetches |-> fetch'[j]]
      /\ fetch'[i].state # "answered"
      /\ \A j \in Fetches : j # i => fetch'[j] = fetch[j]
  BY <1>1 DEF SyncType, Settled
<1>4. \A j \in Fetches : fetch'[j].state = "answered" => j # i /\ fetch'[j] = fetch[j]
  BY <1>3
<1>5. CASE Current(i) /\ row # NoRow
  <2>1. vessel' = Pruned(w, now) /\ applied' = row /\ heard' = MaxTimestamp(heard, row.seen)
    BY <1>5 DEF Apply
  <2>2. row \in Rows
    BY <1>2, <1>5
  <2>3. Merges(vessel, w) /\ w \in Vessel /\ row.seen <= w.lastSeen
    BY <2>2, SnapshotMerges DEF SyncType, Merges
  <2>4. vessel' \in {w, Gone}
    BY <2>1, <2>3, PrunedOrKept DEF SyncType
  <2>5. Moves(vessel, vessel')
    BY <2>3, <2>4 DEF Moves
  <2>6. MatchesFitStatus'
    BY <2>5, MovesFits DEF SyncType, MatchesFitStatus, Fits
  <2>7. heard' \in 0..MaxNow /\ (heard' = heard \/ heard' = row.seen)
    BY <2>1, <2>2 DEF SyncType, Rows, MaxTimestamp
  <2>8. SyncType'
    BY <1>1, <1>3, <1>4, <2>1, <2>2, <2>5, <2>7 DEF SyncType, Answered, Moves
  <2>9. w.lastSeen \in 0..MaxNow
    BY <2>3 DEF Vessel
  <2>10. ASSUME heard # Null PROVE now - heard > Retention \/ heard <= w.lastSeen
    BY <2>3, <2>9, <2>10, StoreAssumption DEF HeardIsKept, Merges, Ahead, SyncType, Vessel
  <2>11. w # Gone
    BY <2>3, GoneIsNoVessel
  <2>12. ASSUME vessel' = Gone, w.lastSeen # Null PROVE now - w.lastSeen > Retention
    BY <2>1, <2>3, <2>11, <2>12, PrunedOrKept DEF SyncType
  <2>13. ASSUME NEW x \in 0..MaxNow, x # Null, x <= w.lastSeen, vessel' = Gone
         PROVE  now - x > Retention
    BY <2>9, <2>12, <2>13, StoreAssumption DEF Null, SyncType, Instants
  <2>14. heard = Null \/ now - heard > Retention \/ vessel' # Gone
    BY <2>10, <2>13 DEF SyncType
  <2>15. row.seen \in 0..MaxNow
    BY <2>2 DEF Rows
  <2>16. row.seen = Null \/ now - row.seen > Retention \/ vessel' # Gone
    BY <2>3, <2>13, <2>15
  <2>17. HeardIsKept'
    BY <1>1, <2>3, <2>4, <2>7, <2>10, <2>14, <2>16 DEF HeardIsKept
  <2>18. applied # NoRow => Older(applied, row)
    BY <1>1, <1>5 DEF AnswersAhead, Current
  <2>19. Older(row, db)
    BY <1>1, <1>5 DEF AnswersAhead
  <2>20. AnswersAhead'
    BY <1>1, <1>4, <1>5, <2>1, <2>19 DEF AnswersAhead, Answered, Older, Current
  <2>21. QED
    BY <1>1, <2>1, <2>5, <2>6, <2>8, <2>14, <2>17, <2>18, <2>20
<1>6. CASE ~(Current(i) /\ row # NoRow)
  <2>1. /\ vessel' = IF Current(i) THEN Pruned(vessel, now) ELSE vessel
        /\ UNCHANGED <<applied, heard>>
    BY <1>6 DEF Apply
  <2>2. vessel' \in {vessel, Gone}
    BY <2>1, PrunedOrKept DEF SyncType
  <2>3. Moves(vessel, vessel')
    BY <2>2, IgnoredMerges DEF SyncType, Moves
  <2>4. MatchesFitStatus'
    BY <2>3, MovesFits DEF SyncType, MatchesFitStatus, Fits
  <2>5. SyncType'
    BY <1>1, <1>3, <1>4, <2>1, <2>3 DEF SyncType, Answered, Moves
  <2>6. ASSUME vessel # Gone, vessel' = Gone, heard # Null
        PROVE  now - heard > Retention
    <3>1. CASE heard <= vessel.lastSeen
      <4>1. vessel.lastSeen \in 0..MaxNow /\ heard \in 0..MaxNow
        BY <2>6 DEF SyncType, Vessel
      <4>2. vessel.lastSeen # Null
        BY <2>6, <3>1, <4>1, StoreAssumption DEF Null
      <4>3. now - vessel.lastSeen > Retention
        BY <2>1, <2>6, <4>2, PrunedOrKept DEF SyncType
      <4>4. QED
        BY <3>1, <4>1, <4>3, StoreAssumption DEF SyncType, Instants
    <3>2. QED
      BY <2>6, <3>1 DEF HeardIsKept
  <2>7. HeardIsKept'
    BY <1>1, <2>1, <2>2, <2>6 DEF HeardIsKept
  <2>8. AnswersAhead'
    BY <1>1, <1>4, <2>1 DEF AnswersAhead, Answered, Older
  <2>9. applied # NoRow => Older(applied, applied')
    BY <2>1, NoRowIsNoRow, StoreAssumption DEF SyncType, Older, Rows
  <2>10. QED
    BY <2>3, <2>4, <2>5, <2>6, <2>7, <2>8, <2>9
<1>7. QED
  BY <1>5, <1>6

\* Nothing read by the store or the fetches changes, and no fetch is answered.
LEMMA FetchesOnly ==
  ASSUME SyncInv,
         UNCHANGED <<now, db, vessel, applied, heard>>, request' \in Int,
         fetch' = [i \in Fetches |-> fetch'[i]],
         \A i \in Fetches : fetch'[i].state = "answered" =>
           fetch'[i] = fetch[i] /\ (i = request' => i = request)
  PROVE  SyncInv'
<1> USE DEF SyncInv
<1>1. SyncType'
  BY DEF SyncType, Answered
<1>2. MatchesFitStatus' /\ HeardIsKept'
  BY DEF MatchesFitStatus, HeardIsKept
<1>3. AnswersAhead'
  BY DEF AnswersAhead, Answered, Older
<1>4. QED
  BY <1>1, <1>2, <1>3

LEMMA RunFetchSafe ==
  ASSUME SyncInv, RunFetch, UNCHANGED <<now, db, vessel, applied, heard>>
  PROVE  SyncInv'
<1> USE DEF SyncInv
<1>1. /\ Aborted = [i \in Fetches |-> Aborted[i]]
      /\ \A i \in Fetches : Aborted[i].state = "answered" => Aborted[i] = fetch[i]
  BY DEF Aborted, Settled
<1>2. fetch' = [Aborted EXCEPT ![request + 1] = Sent] /\ request' = request + 1
  BY DEF RunFetch
<1>3. fetch' = [i \in Fetches |-> fetch'[i]]
  BY <1>1, <1>2
<1>4. \A i \in Fetches : fetch'[i].state = "answered" => i # request' /\ fetch'[i] = fetch[i]
  BY <1>1, <1>2 DEF Sent, SyncType
<1>5. request' \in Int
  BY <1>2 DEF SyncType
<1>6. QED
  BY <1>3, <1>4, <1>5, FetchesOnly

LEMMA ServeSafe ==
  ASSUME SyncInv, NEW i \in Fetches, Serve(i)
  PROVE  SyncInv'
<1> USE DEF SyncInv
<1>1. /\ fetch' = [fetch EXCEPT ![i] = Answer(SnapshotRow)]
      /\ UNCHANGED <<now, db, vessel, request, applied, heard>>
  BY DEF Serve, serverVars, histVars
<1>2. SnapshotRow \in {db, NoRow}
  BY DEF SnapshotRow
<1>3. /\ fetch' = [j \in Fetches |-> fetch'[j]]
      /\ fetch'[i].row = SnapshotRow
      /\ \A j \in Fetches : j # i => fetch'[j] = fetch[j]
  BY <1>1 DEF SyncType, Answer
<1>4. SyncType'
  BY <1>1, <1>2, <1>3 DEF SyncType, Answered
<1>5. MatchesFitStatus' /\ HeardIsKept'
  BY <1>1 DEF MatchesFitStatus, HeardIsKept
<1>6. Older(db, db)
  BY StoreAssumption DEF Older, SyncType, Rows
<1>7. AnswersAhead'
  BY <1>1, <1>2, <1>3, <1>6 DEF AnswersAhead, Answered, Older
<1>8. QED
  BY <1>4, <1>5, <1>7

\* The database only moves on.
LEMMA DatabaseSafe ==
  ASSUME SyncInv, Older(db, db'), db' \in Rows, db'.seen <= now,
         UNCHANGED <<now, vessel, request, fetch, applied, heard>>
  PROVE  SyncInv'
<1> USE DEF SyncInv
<1>1. SyncType'
  BY DEF SyncType, Answered
<1>2. MatchesFitStatus' /\ HeardIsKept'
  BY DEF MatchesFitStatus, HeardIsKept
<1>3. ASSUME NEW r \in Rows, Older(r, db) PROVE Older(r, db')
  BY <1>3, StoreAssumption DEF Older, SyncType, Rows
<1>4. AnswersAhead'
  BY <1>3 DEF AnswersAhead, Answered, SyncType
<1>5. QED
  BY <1>1, <1>2, <1>4

LEMMA StoreSafe ==
  ASSUME SyncInv, NEW e \in Published, Store(e)
  PROVE  SyncInv' /\ Older(db, db')
<1> DEFINE newer == e.kind = "position" /\ e.at >= db.at
           at == IF newer THEN e.at ELSE db.at
           seen == IF newer THEN now ELSE db.seen
           named == e.named \/ db.named
<1>1. db \in Rows /\ db.seen <= now /\ now \in Instants
  BY DEF SyncInv, SyncType
<1>2. e \in Events
  BY DEF Published
<1>3. db' = [db EXCEPT !.named = named, !.at = at, !.seen = seen]
  BY DEF Store
<1>4. /\ at \in 0..MaxNow /\ db.at <= at
      /\ seen \in 0..MaxNow /\ db.seen <= seen /\ seen <= now
      /\ named \in BOOLEAN
  BY <1>1, <1>2, StoreAssumption DEF Rows, Events, Instants
<1> HIDE DEF at, seen, named
<1>5. db' \in Rows
  BY <1>1, <1>3, <1>4 DEF Rows
<1>6. db'.at = at /\ db'.seen = seen /\ db'.checked = db.checked
  BY <1>1, <1>3 DEF Rows
<1>7. Older(db, db') /\ db'.seen <= now
  BY <1>1, <1>4, <1>6, StoreAssumption DEF Older, Rows
<1>8. UNCHANGED <<now, vessel, request, fetch, applied, heard>>
  BY DEF Store, fetchVars, histVars
<1>9. QED
  BY <1>5, <1>7, <1>8, DatabaseSafe

LEMMA CheckSafe ==
  ASSUME SyncInv, Check
  PROVE  SyncInv' /\ Older(db, db')
<1>1. db \in Rows /\ db.seen <= now
  BY DEF SyncInv, SyncType
<1>2. db' = [db EXCEPT !.checked = db.checked + 1] /\ db.checked < MaxChecks
  BY DEF Check
<1>3. db' \in Rows
  BY <1>1, <1>2, StoreAssumption DEF Rows
<1>4. db'.at = db.at /\ db'.seen = db.seen /\ db'.checked = db.checked + 1
  BY <1>1, <1>2 DEF Rows
<1>5. Older(db, db') /\ db'.seen <= now
  BY <1>1, <1>4, StoreAssumption DEF Older, Rows
<1>6. UNCHANGED <<now, vessel, request, fetch, applied, heard>>
  BY DEF Check, fetchVars, histVars
<1>7. QED
  BY <1>3, <1>5, <1>6, DatabaseSafe

LEMMA TickSafe ==
  ASSUME SyncInv, Tick
  PROVE  SyncInv'
<1> USE DEF SyncInv
<1>1. /\ now' = now + 1 /\ now < MaxNow
      /\ UNCHANGED <<db, vessel, request, fetch, applied, heard>>
  BY DEF Tick, fetchVars, histVars
<1>2. now' \in Instants
  BY <1>1, StoreAssumption DEF SyncType, Instants
<1>3. SyncType'
  BY <1>1, <1>2, StoreAssumption DEF SyncType, Answered, Instants, Rows
<1>4. MatchesFitStatus' /\ AnswersAhead'
  BY <1>1 DEF MatchesFitStatus, AnswersAhead, Answered, Older
<1>5. now - heard > Retention => now' - heard > Retention
  BY <1>1, StoreAssumption DEF SyncType, Instants
<1>6. HeardIsKept'
  BY <1>1, <1>5 DEF HeardIsKept
<1>7. QED
  BY <1>3, <1>4, <1>6

\* A message or a detail is merged.
LEMMA MergeSafe ==
  ASSUME SyncInv, Merges(vessel, vessel'),
         heard' \in 0..MaxNow,
         heard' = heard \/ (vessel' # Gone /\ heard' <= vessel'.lastSeen),
         UNCHANGED <<now, db, request, fetch, applied>>
  PROVE  SyncInv' /\ Moves(vessel, vessel') /\ (vessel # Gone => vessel' # Gone)
<1> USE DEF SyncInv
<1>1. Moves(vessel, vessel')
  BY DEF Moves, Merges
<1>2. SyncType'
  BY <1>1 DEF SyncType, Answered, Moves
<1>3. MatchesFitStatus'
  BY <1>1, MovesFits DEF SyncType, MatchesFitStatus, Fits
<1>4. vessel # Gone => /\ vessel' # Gone
                       /\ vessel.lastSeen <= vessel'.lastSeen
                       /\ vessel.lastSeen \in 0..MaxNow /\ vessel'.lastSeen \in 0..MaxNow
  BY <1>2 DEF Merges, Ahead, SyncType, Vessel
<1>5. HeardIsKept'
  BY <1>4, StoreAssumption DEF HeardIsKept, SyncType
<1>6. AnswersAhead'
  BY DEF AnswersAhead, Answered, Older
<1>7. QED
  BY <1>1, <1>2, <1>3, <1>4, <1>5, <1>6

LEMMA ReceiveSafe ==
  ASSUME SyncInv, Receive
  PROVE  /\ SyncInv' /\ Moves(vessel, vessel') /\ Merges(vessel, vessel')
         /\ vessel # Gone => vessel' # Gone
<1>1. UNCHANGED <<now, db, request, fetch, applied>>
  BY DEF Receive, serverVars, fetchVars
<1>2. vessel \in Vessel \cup {Gone} /\ heard \in 0..MaxNow /\ db \in Rows
  BY DEF SyncInv, SyncType
<1>3. CASE \E check \in 1..db.checked : vessel' = ApplyEnriched(vessel, check) /\ UNCHANGED heard
  <2>1. PICK check \in 1..db.checked : vessel' = ApplyEnriched(vessel, check) /\ UNCHANGED heard
    BY <1>3
  <2>2. check \in 1..MaxChecks
    BY <1>2, <2>1, StoreAssumption DEF Rows
  <2>3. Merges(vessel, vessel')
    BY <1>2, <2>1, <2>2, EnrichedMerges
  <2>4. QED
    BY <1>1, <1>2, <2>1, <2>3, MergeSafe
<1>4. CASE \E e \in Published :
             /\ vessel' = IF e.kind = "position" THEN ApplyPosition(vessel, e)
                                                 ELSE ApplyStatic(vessel, e)
             /\ heard' = IF e.kind = "position" /\ IsNewer(e.at, Base(vessel).at)
                           THEN MaxTimestamp(heard, e.at) ELSE heard
  <2>1. PICK e \in Published :
             /\ vessel' = IF e.kind = "position" THEN ApplyPosition(vessel, e)
                                                 ELSE ApplyStatic(vessel, e)
             /\ heard' = IF e.kind = "position" /\ IsNewer(e.at, Base(vessel).at)
                           THEN MaxTimestamp(heard, e.at) ELSE heard
    BY <1>4
  <2>2. e \in Events /\ e.at \in 1..MaxNow
    BY DEF Published, Events, Instants
  <2>3. Merges(vessel, vessel')
    BY <1>2, <2>1, <2>2, PositionMerges, StaticMerges
  <2>4. heard' \in 0..MaxNow
    BY <1>2, <2>1, <2>2, StoreAssumption DEF MaxTimestamp
  <2>5. heard' = heard \/ (vessel' # Gone /\ heard' <= vessel'.lastSeen)
    BY <1>2, <2>1, <2>2, PositionMerges DEF MaxTimestamp
  <2>6. QED
    BY <1>1, <2>3, <2>4, <2>5, MergeSafe
<1>5. QED
  BY <1>3, <1>4 DEF Receive

LEMMA OpenDetailSafe ==
  ASSUME SyncInv, OpenDetail
  PROVE  /\ SyncInv' /\ Moves(vessel, vessel') /\ Merges(vessel, vessel')
         /\ vessel # Gone => vessel' # Gone
<1>1. UNCHANGED <<now, db, request, fetch, applied, heard>>
  BY DEF OpenDetail, serverVars, fetchVars, histVars
<1>2. vessel \in Vessel \cup {Gone} /\ heard \in 0..MaxNow /\ db \in Rows
  BY DEF SyncInv, SyncType
<1>3. PICK check \in 0..db.checked : vessel' = ApplyDetailSanctions(vessel, check)
  BY DEF OpenDetail
<1>4. check \in 0..MaxChecks
  BY <1>2, <1>3, StoreAssumption DEF Rows
<1>5. Merges(vessel, vessel')
  BY <1>2, <1>3, <1>4, DetailMerges
<1>6. QED
  BY <1>1, <1>2, <1>5, MergeSafe

LEMMA PruneStaleSafe ==
  ASSUME SyncInv, PruneStale
  PROVE  /\ SyncInv' /\ Moves(vessel, vessel')
         /\ vessel # Gone /\ vessel' = Gone => heard = Null \/ now - heard > Retention
<1> USE DEF SyncInv
<1>1. /\ vessel' = Pruned(vessel, now)
      /\ UNCHANGED <<now, db, request, fetch, applied, heard>>
  BY DEF PruneStale, serverVars, fetchVars, histVars
<1>2. vessel' \in {vessel, Gone}
  BY <1>1, PrunedOrKept DEF SyncType
<1>3. Moves(vessel, vessel')
  BY <1>2, IgnoredMerges DEF SyncType, Moves
<1>4. ASSUME vessel # Gone, vessel' = Gone, heard # Null
      PROVE  now - heard > Retention
  <2>1. CASE heard <= vessel.lastSeen
    <3>1. vessel.lastSeen \in 0..MaxNow /\ heard \in 0..MaxNow
      BY <1>4 DEF SyncType, Vessel
    <3>2. vessel.lastSeen # Null
      BY <1>4, <2>1, <3>1, StoreAssumption DEF Null
    <3>3. now - vessel.lastSeen > Retention
      BY <1>1, <1>4, <3>2, PrunedOrKept DEF SyncType
    <3>4. QED
      BY <2>1, <3>1, <3>3, StoreAssumption DEF SyncType, Instants
  <2>2. QED
    BY <1>4, <2>1 DEF HeardIsKept
<1>5. SyncType'
  BY <1>1, <1>3 DEF SyncType, Answered, Moves
<1>6. MatchesFitStatus'
  BY <1>3, MovesFits DEF SyncType, MatchesFitStatus, Fits
<1>7. HeardIsKept'
  BY <1>1, <1>2, <1>4 DEF HeardIsKept
<1>8. AnswersAhead'
  BY <1>1 DEF AnswersAhead, Answered, Older
<1>9. QED
  BY <1>3, <1>4, <1>5, <1>6, <1>7, <1>8

-----------------------------------------------------------------------------
(***************************************************************************)
(* Every step.                                                             *)
(***************************************************************************)

\* What the properties ask of a step.
StepSafe ==
  /\ Moves(vessel, vessel')
  /\ applied # NoRow => Older(applied, applied')
  /\ vessel # Gone /\ vessel' = Gone => heard = Null \/ now - heard > Retention

LEMMA KeptIsSafe ==
  ASSUME SyncInv, UNCHANGED <<vessel, applied>>
  PROVE  StepSafe
<1>1. vessel \in Vessel \cup {Gone} /\ applied \in Rows \cup {NoRow}
  BY DEF SyncInv, SyncType
<1>2. Moves(vessel, vessel')
  BY <1>1, IgnoredMerges DEF Moves
<1>3. applied # NoRow => Older(applied, applied')
  BY <1>1, StoreAssumption DEF Older, Rows
<1>4. QED
  BY <1>2, <1>3 DEF StepSafe

LEMMA NextSafe ==
  ASSUME SyncInv, [Next]_vars
  PROVE  SyncInv' /\ StepSafe
<1> USE DEF serverVars, clientVars, fetchVars, histVars
<1>1. /\ applied \in Rows \cup {NoRow}
      /\ applied' = applied /\ applied # NoRow => Older(applied, applied')
  BY StoreAssumption DEF SyncInv, SyncType, Older, Rows
<1>2. CASE Tick
  BY <1>2, TickSafe, KeptIsSafe DEF Tick
<1>3. CASE Check
  BY <1>3, CheckSafe, KeptIsSafe DEF Check
<1>4. CASE \E e \in Published : Store(e)
  BY <1>4, StoreSafe, KeptIsSafe DEF Store
<1>5. CASE \E i \in Fetches : Serve(i)
  BY <1>5, ServeSafe, KeptIsSafe DEF Serve
<1>6. CASE \E i \in Fetches : Apply(i)
  BY <1>6, ApplySafe DEF StepSafe
<1>7. ASSUME NEW i \in Fetches, FetchFails(i) PROVE SyncInv' /\ StepSafe
  <2>1. /\ fetch' = [fetch EXCEPT ![i] = Settled]
        /\ UNCHANGED <<now, db, vessel, request, applied, heard>>
    BY <1>7 DEF FetchFails
  <2>2. fetch = [j \in Fetches |-> fetch[j]] /\ request \in Int
    BY DEF SyncInv, SyncType
  <2>3. \A j \in Fetches : fetch'[j].state = "answered" => fetch'[j] = fetch[j]
    BY <2>1, <2>2 DEF Settled
  <2>4. fetch' = [j \in Fetches |-> fetch'[j]]
    BY <2>1, <2>2
  <2>5. QED
    BY <2>1, <2>2, <2>3, <2>4, FetchesOnly, KeptIsSafe
<1>8. ASSUME NEW s \in Sockets, Opens(s) PROVE SyncInv' /\ StepSafe
  <2>1. UNCHANGED <<now, db, vessel, applied, heard>>
    BY <1>8 DEF Opens
  <2>2. CASE outage = "long"
    BY <1>8, <2>1, <2>2, RunFetchSafe, KeptIsSafe DEF Opens
  <2>3. CASE outage # "long"
    <3>1. UNCHANGED <<request, fetch>>
      BY <1>8, <2>3 DEF Opens
    <3>2. request \in Int /\ fetch = [i \in Fetches |-> fetch[i]]
      BY DEF SyncInv, SyncType
    <3>3. QED
      BY <2>1, <3>1, <3>2, FetchesOnly, KeptIsSafe
  <2>4. QED
    BY <2>2, <2>3
<1>9. CASE Mount
  BY <1>9, RunFetchSafe, KeptIsSafe DEF Mount
<1>10. CASE Unmount
  <2>1. fetch' = Aborted /\ UNCHANGED <<now, db, vessel, request, applied, heard>>
    BY <1>10 DEF Unmount
  <2>2. fetch = [j \in Fetches |-> fetch[j]] /\ request \in Int
    BY DEF SyncInv, SyncType
  <2>3. /\ fetch' = [j \in Fetches |-> fetch'[j]]
        /\ \A j \in Fetches : fetch'[j].state = "answered" => fetch'[j] = fetch[j]
    BY <2>1, <2>2 DEF Aborted, Settled
  <2>4. QED
    BY <2>1, <2>2, <2>3, FetchesOnly, KeptIsSafe
<1>11. CASE Receive
  BY <1>1, <1>11, ReceiveSafe DEF StepSafe, Receive
<1>12. CASE OpenDetail
  BY <1>1, <1>12, OpenDetailSafe DEF StepSafe, OpenDetail
<1>13. CASE PruneStale
  BY <1>1, <1>13, PruneStaleSafe DEF StepSafe, PruneStale
<1>14. ASSUME UNCHANGED <<now, db, vessel, fetchVars, applied, heard>>
       PROVE  SyncInv' /\ StepSafe
  <2>1. fetch = [j \in Fetches |-> fetch[j]] /\ request \in Int
    BY DEF SyncInv, SyncType
  <2>2. QED
    BY <1>14, <2>1, FetchesOnly, KeptIsSafe
<1>15. CASE \/ \E s \in Sockets : Drops(s) \/ Closes(s)
            \/ OutageGrowsLong \/ Reconnect \/ UNCHANGED vars
  BY <1>14, <1>15 DEF Drops, Closes, OutageGrowsLong, Reconnect, vars
<1>16. QED
  BY <1>2, <1>3, <1>4, <1>5, <1>6, <1>7, <1>8, <1>9, <1>10, <1>11, <1>12, <1>13, <1>15
     DEF Next

-----------------------------------------------------------------------------
(***************************************************************************)
(* The theorems.                                                           *)
(***************************************************************************)

LEMMA SyncInvInvariant == Spec => []SyncInv
<1>1. Init => SyncInv
  BY InitHolds
<1>2. SyncInv /\ [Next]_vars => SyncInv'
  BY NextSafe
<1>3. QED
  BY <1>1, <1>2, PTL DEF Spec

\* The matches shown are never from a later check than the status beside them.
THEOREM MatchesNeverAhead == Spec => []MatchesFitStatus
<1>1. SyncInv => MatchesFitStatus
  BY DEF SyncInv
<1>2. QED
  BY <1>1, SyncInvInvariant, PTL

\* No snapshot, detail or message takes a vessel that stays on the map back in time.
THEOREM StoreMovesForward == Spec => NothingGoesBack
<1> DEFINE Forward == vessel # Gone /\ vessel' # Gone =>
                        /\ vessel.at <= vessel'.at
                        /\ vessel.staticAt <= vessel'.staticAt
                        /\ vessel.checked <= vessel'.checked
                        /\ vessel.lastSeen <= vessel'.lastSeen
                        /\ vessel.named => vessel'.named
<1>1. SyncInv /\ [Next]_vars => [Forward]_vars
  BY NextSafe DEF StepSafe, Moves, Merges, Ahead
<1>2. QED
  BY <1>1, SyncInvInvariant, PTL DEF Spec, NothingGoesBack

\* Snapshots are applied in the order the database was read.
THEOREM SnapshotsInReadOrder == Spec => SnapshotsInOrder
<1> DEFINE InOrder == applied # NoRow =>
                        /\ applied.at <= applied'.at
                        /\ applied.seen <= applied'.seen
                        /\ applied.checked <= applied'.checked
<1>1. SyncInv /\ [Next]_vars => [InOrder]_vars
  BY NextSafe DEF StepSafe, Older
<1>2. QED
  BY <1>1, SyncInvInvariant, PTL DEF Spec, SnapshotsInOrder

\* A vessel is removed only after the retention without a word of it.
THEOREM RemovedOnlyWhenSilent == Spec => KeptWhileHeard
<1> DEFINE Silent == vessel # Gone /\ vessel' = Gone => heard = Null \/ now - heard > Retention
<1>1. SyncInv /\ [Next]_vars => [Silent]_vars
  BY NextSafe DEF StepSafe
<1>2. QED
  BY <1>1, SyncInvInvariant, PTL DEF Spec, KeptWhileHeard

-----------------------------------------------------------------------------
(***************************************************************************)
(* The client.  Each fetch after the first follows a connection that was   *)
(* lost, so the requests never outnumber the connections made.             *)
(***************************************************************************)

Live == {s \in Sockets : socket[s] \in {"connecting", "open"}}

FetchStates == {NoFetch, Sent, Settled} \cup {Answer(r) : r \in Rows \cup {NoRow}}

ClientType ==
  /\ mounted \in {"before", "yes", "after"}
  /\ socket \in [Sockets -> SocketStates]
  /\ timer \in BOOLEAN
  /\ outage \in {"no", "short", "long"}
  /\ request \in 0..(MaxDrops + 1)
  /\ fetch \in [Fetches -> FetchStates]
  /\ owed \in Rows \cup {NoRow}
  /\ \A i \in Fetches : fetch[i] = NoFetch <=> i > request

\* One connection under way or one reconnect scheduled.
OneAttempt ==
  /\ IF mounted = "yes" THEN (timer /\ Live = {}) \/ (~timer /\ \E s \in Sockets : Live = {s})
                        ELSE ~timer /\ Live = {}
  /\ \A s \in Sockets : socket[s] = "closing" => mounted = "after"

\* Connections are made one after the other.
Consecutive == \A r, s \in Sockets : r < s /\ socket[r] = "none" => socket[s] = "none"

\* A connection that may yet ask for a fetch has not used its number.
RequestsFit ==
  /\ request >= 1 => socket[request] # "none"
  /\ outage # "no" => \A s \in Sockets : socket[s] = "connecting" => s > request
  /\ mounted = "before" => request = 0 /\ outage = "no" /\ owed = NoRow

ClientInv == ClientType /\ OneAttempt /\ Consecutive /\ RequestsFit

LEMMA ClientFacts ==
  /\ MaxDrops \in Nat /\ Sockets = 1..(MaxDrops + 1) /\ Fetches = 1..(MaxDrops + 1)
  /\ NoFetch # Sent /\ NoFetch # Settled /\ Sent # Settled
  /\ NoFetch \in FetchStates /\ Sent \in FetchStates /\ Settled \in FetchStates
  /\ \A r : Answer(r) # NoFetch /\ Answer(r) # Sent /\ Answer(r) # Settled
  /\ \A r : Answer(r).state = "answered" /\ Answer(r).row = r
  /\ \A f \in FetchStates : f.state = "answered" => f = Answer(f.row)
<1>1. MaxDrops \in Nat /\ Sockets = 1..(MaxDrops + 1) /\ Fetches = 1..(MaxDrops + 1)
  BY SyncAssumption DEF Sockets, Fetches
<1>2. NoFetch # Sent /\ NoFetch # Settled /\ Sent # Settled
  <2>1. NoFetch.state = "none" /\ Sent.state = "sent" /\ Settled.state = "settled"
    BY DEF NoFetch, Sent, Settled
  <2>2. QED
    BY <2>1
<1>3. NoFetch \in FetchStates /\ Sent \in FetchStates /\ Settled \in FetchStates
  BY DEF FetchStates
<1>4. \A r : Answer(r).state = "answered" /\ Answer(r).row = r
  BY DEF Answer
<1>5. \A r : Answer(r) # NoFetch /\ Answer(r) # Sent /\ Answer(r) # Settled
  BY <1>4 DEF NoFetch, Sent, Settled
<1>6. \A f \in FetchStates : f.state = "answered" => f = Answer(f.row)
  BY <1>4 DEF FetchStates, NoFetch, Sent, Settled
<1>7. QED
  BY <1>1, <1>2, <1>3, <1>4, <1>5, <1>6

\* Aborting settles the fetches under way and touches no other.
LEMMA AbortedTyped ==
  ASSUME ClientType
  PROVE  /\ Aborted \in [Fetches -> FetchStates]
         /\ \A i \in Fetches : /\ Aborted[i] = NoFetch <=> fetch[i] = NoFetch
                               /\ Aborted[i] # Sent
BY ClientFacts DEF Aborted, ClientType

\* A fetch under a number that was not used.
LEMMA RunFetchTyped ==
  ASSUME ClientType, RunFetch, request + 1 <= MaxDrops + 1
  PROVE  /\ request' = request + 1 /\ request' \in 1..(MaxDrops + 1)
         /\ fetch' \in [Fetches -> FetchStates]
         /\ fetch'[request'] = Sent
         /\ \A i \in Fetches : fetch'[i] = NoFetch <=> i > request'
<1>1. request \in 0..(MaxDrops + 1) /\ \A i \in Fetches : fetch[i] = NoFetch <=> i > request
  BY DEF ClientType
<1>2. request' = request + 1 /\ fetch' = [Aborted EXCEPT ![request + 1] = Sent]
  BY DEF RunFetch
<1>3. request + 1 \in Fetches /\ request' \in 1..(MaxDrops + 1)
  BY <1>1, <1>2, ClientFacts
<1>4. /\ fetch' \in [Fetches -> FetchStates] /\ fetch'[request + 1] = Sent
      /\ \A i \in Fetches : i # request + 1 => fetch'[i] = Aborted[i]
  BY <1>2, <1>3, AbortedTyped, ClientFacts
<1>5. ASSUME NEW i \in Fetches
      PROVE  fetch'[i] = NoFetch <=> i > request'
  <2>1. i \in Int
    BY ClientFacts
  <2>2. CASE i = request + 1
    BY <1>1, <1>2, <1>4, <2>2, ClientFacts
  <2>3. CASE i # request + 1
    <3>1. fetch'[i] = NoFetch <=> i > request
      BY <1>1, <1>4, <2>3, AbortedTyped
    <3>2. i > request <=> i > request + 1
      BY <1>1, <2>1, <2>3
    <3>3. QED
      BY <1>2, <3>1, <3>2
  <2>4. QED
    BY <2>2, <2>3
<1>6. QED
  BY <1>2, <1>3, <1>4, <1>5

\* A fetch under way or answered moves on.
LEMMA FetchTyped ==
  ASSUME ClientType, NEW i \in Fetches, NEW f \in FetchStates, f # NoFetch,
         fetch[i] # NoFetch, fetch' = [fetch EXCEPT ![i] = f], request' = request
  PROVE  /\ fetch' \in [Fetches -> FetchStates] /\ fetch'[i] = f
         /\ \A j \in Fetches \ {i} : fetch'[j] = fetch[j]
         /\ \A j \in Fetches : fetch'[j] = NoFetch <=> j > request'
BY DEF ClientType

\* The next connection is the only one.
LEMMA ConnectTyped ==
  ASSUME ClientType, Consecutive, Live = {}, Connect
  PROVE  \E s \in Sockets :
           /\ socket' = [socket EXCEPT ![s] = "connecting"]
           /\ socket' \in [Sockets -> SocketStates]
           /\ socket[s] = "none" /\ socket'[s] = "connecting"
           /\ \A r \in Sockets : r # s => socket'[r] = socket[r]
           /\ \A r \in Sockets : r < s => socket[r] # "none"
           /\ Live' = {s}
           /\ Consecutive'
<1>1. PICK s \in Sockets : /\ socket[s] = "none"
                           /\ \A r \in Sockets : r < s => socket[r] # "none"
                           /\ socket' = [socket EXCEPT ![s] = "connecting"]
  BY DEF Connect
<1>2. /\ socket' \in [Sockets -> SocketStates] /\ socket'[s] = "connecting"
      /\ \A r \in Sockets : r # s => socket'[r] = socket[r]
  BY <1>1 DEF ClientType, SocketStates
<1>3. Live' = {s}
  BY <1>2 DEF Live
<1>4. Consecutive'
  <2>1. SUFFICES ASSUME NEW r \in Sockets, NEW q \in Sockets, r < q, socket'[r] = "none"
                 PROVE  socket'[q] = "none"
    BY DEF Consecutive
  <2>2. r # s /\ socket[r] = "none"
    BY <1>2, <2>1
  <2>3. ~(r < s)
    BY <1>1, <2>2
  <2>4. s < q
    BY <2>1, <2>2, <2>3, ClientFacts
  <2>5. QED
    BY <1>1, <1>2, <2>4, ClientFacts DEF Consecutive
<1>5. QED
  BY <1>1, <1>2, <1>3, <1>4

\* The connection and the requests stay; a fetch moves on.
LEMMA ClientFetch ==
  ASSUME ClientInv, UNCHANGED <<mounted, socket, timer, outage, request>>,
         fetch' \in [Fetches -> FetchStates],
         \A i \in Fetches : fetch'[i] = NoFetch <=> i > request',
         owed' = owed \/ owed' = NoRow
  PROVE  ClientInv'
<1>1. ClientType'
  BY DEF ClientInv, ClientType
<1>2. OneAttempt' /\ Consecutive' /\ RequestsFit'
  BY DEF ClientInv, OneAttempt, Live, Consecutive, RequestsFit
<1>3. QED
  BY <1>1, <1>2 DEF ClientInv

LEMMA ClientQuiet ==
  ASSUME ClientInv, UNCHANGED <<mounted, socket, timer, outage, request, fetch, owed>>
  PROVE  ClientInv'
BY ClientFetch DEF ClientInv, ClientType

LEMMA ClientServe ==
  ASSUME SyncInv, ClientInv, NEW i \in Fetches, Serve(i)
  PROVE  ClientInv'
<1>1. /\ fetch[i] = Sent /\ fetch' = [fetch EXCEPT ![i] = Answer(SnapshotRow)]
      /\ UNCHANGED <<mounted, socket, timer, outage, request, owed>>
  BY DEF Serve, clientVars, histVars
<1>2. Answer(SnapshotRow) \in FetchStates
  BY DEF SyncInv, SyncType, SnapshotRow, FetchStates
<1>3. QED
  BY <1>1, <1>2, FetchTyped, ClientFetch, ClientFacts DEF ClientInv

LEMMA ClientSettle ==
  ASSUME ClientInv, NEW i \in Fetches, Apply(i) \/ FetchFails(i)
  PROVE  ClientInv'
<1>1. /\ fetch[i] # NoFetch /\ fetch' = [fetch EXCEPT ![i] = Settled]
      /\ UNCHANGED <<mounted, socket, timer, outage, request>>
      /\ owed' = owed \/ owed' = NoRow
  <2>1. CASE Apply(i)
    BY <2>1 DEF Apply, clientVars, NoFetch
  <2>2. CASE FetchFails(i)
    BY <2>2, ClientFacts DEF FetchFails, clientVars
  <2>3. QED
    BY <2>1, <2>2
<1>2. QED
  BY <1>1, FetchTyped, ClientFetch, ClientFacts DEF ClientInv

\* The first connection, and the first fetch.
LEMMA ClientMount ==
  ASSUME ClientInv, Mount
  PROVE  ClientInv'
<1>1. /\ mounted = "before" /\ mounted' = "yes" /\ Connect /\ RunFetch
      /\ UNCHANGED <<timer, outage, owed>>
  BY DEF Mount, histVars
<1>2. /\ ClientType /\ Consecutive /\ Live = {} /\ ~timer
      /\ request = 0 /\ outage = "no" /\ owed = NoRow
  BY <1>1 DEF ClientInv, OneAttempt, RequestsFit
<1>3. PICK s \in Sockets :
           /\ socket' \in [Sockets -> SocketStates]
           /\ socket'[s] = "connecting"
           /\ \A r \in Sockets : r # s => socket'[r] = socket[r]
           /\ \A r \in Sockets : r < s => socket[r] # "none"
           /\ Live' = {s}
           /\ Consecutive'
  BY <1>1, <1>2, ConnectTyped
<1>4. /\ request' = request + 1 /\ request' \in 1..(MaxDrops + 1)
      /\ fetch' \in [Fetches -> FetchStates]
      /\ \A i \in Fetches : fetch'[i] = NoFetch <=> i > request'
  BY <1>1, <1>2, RunFetchTyped, ClientFacts
<1>5. ClientType'
  BY <1>1, <1>2, <1>3, <1>4, ClientFacts DEF ClientType
<1>6. OneAttempt'
  <2>1. \A r \in Sockets : socket'[r] # "closing"
    BY <1>1, <1>2, <1>3 DEF ClientInv, OneAttempt
  <2>2. QED
    BY <1>1, <1>2, <1>3, <2>1 DEF OneAttempt
<1>7. RequestsFit'
  <2>1. socket'[1] # "none"
    <3>1. 1 \in Sockets /\ (1 = s \/ 1 < s)
      BY ClientFacts
    <3>2. QED
      BY <1>3, <3>1
  <2>2. QED
    BY <1>1, <1>2, <1>4, <2>1 DEF RequestsFit
<1>8. QED
  BY <1>3, <1>5, <1>6, <1>7 DEF ClientInv

\* The next connection, after the timer.
LEMMA ClientReconnect ==
  ASSUME ClientInv, Reconnect
  PROVE  ClientInv'
<1>1. /\ timer /\ timer' = FALSE /\ Connect
      /\ UNCHANGED <<mounted, outage, request, fetch, owed>>
  BY DEF Reconnect, fetchVars, histVars
<1>2. /\ ClientType /\ Consecutive /\ Live = {} /\ mounted = "yes" /\ request \in Nat
  BY <1>1, ClientFacts DEF ClientInv, OneAttempt, ClientType
<1>3. PICK s \in Sockets :
           /\ socket' \in [Sockets -> SocketStates]
           /\ socket[s] = "none" /\ socket'[s] = "connecting"
           /\ \A r \in Sockets : r # s => socket'[r] = socket[r]
           /\ \A r \in Sockets : r < s => socket[r] # "none"
           /\ Live' = {s}
           /\ Consecutive'
  BY <1>1, <1>2, ConnectTyped
<1>4. ClientType'
  BY <1>1, <1>2, <1>3 DEF ClientType
<1>5. OneAttempt'
  <2>1. \A r \in Sockets : socket'[r] # "closing"
    BY <1>1, <1>2, <1>3 DEF ClientInv, OneAttempt
  <2>2. QED
    BY <1>1, <1>2, <1>3, <2>1 DEF OneAttempt
<1>6. RequestsFit'
  <2>1. request >= 1 => socket[request] # "none" /\ request \in Sockets
    BY <1>2, ClientFacts DEF ClientInv, RequestsFit, ClientType
  <2>2. s > request
    <3>1. s \in Int /\ s >= 1
      BY ClientFacts
    <3>2. CASE request = 0
      BY <3>1, <3>2
    <3>3. CASE request >= 1
      <4>1. request # s /\ (s < request => socket[request] = "none")
        BY <1>2, <1>3, <2>1, <3>3 DEF Consecutive
      <4>2. QED
        BY <1>2, <2>1, <3>1, <3>3, <4>1
    <3>4. QED
      BY <1>2, <3>2, <3>3
  <2>3. \A r \in Sockets : socket'[r] = "connecting" => r = s
    BY <1>3 DEF Live
  <2>4. request >= 1 => socket'[request] # "none"
    BY <1>3, <2>1
  <2>5. QED
    BY <1>1, <1>2, <2>2, <2>3, <2>4 DEF RequestsFit
<1>7. QED
  BY <1>3, <1>4, <1>5, <1>6 DEF ClientInv

\* The connection opens; after a long outage it asks for a fetch.
LEMMA ClientOpens ==
  ASSUME SyncInv, ClientInv, NEW s \in Sockets, Opens(s)
  PROVE  ClientInv' /\ (outage = "long" => RunFetch /\ owed' = db /\ request + 1 <= MaxDrops + 1)
<1>1. /\ socket[s] = "connecting" /\ socket' = [socket EXCEPT ![s] = "open"]
      /\ outage' = "no"
      /\ outage = "long" => RunFetch /\ owed' = db
      /\ outage # "long" => UNCHANGED <<request, fetch, owed>>
      /\ UNCHANGED <<mounted, timer>>
  BY DEF Opens, fetchVars
<1>2. ClientType /\ Consecutive /\ s \in Live
  BY <1>1 DEF ClientInv, Live
<1>3. mounted = "yes" /\ ~timer /\ Live = {s}
  BY <1>2 DEF ClientInv, OneAttempt
<1>4. /\ socket' \in [Sockets -> SocketStates] /\ socket'[s] = "open"
      /\ \A r \in Sockets : r # s => socket'[r] = socket[r]
  BY <1>1, <1>2 DEF ClientType, SocketStates
<1>5. Live' = {s} /\ Consecutive'
  BY <1>1, <1>2, <1>3, <1>4 DEF Live, Consecutive
<1>6. OneAttempt'
  <2>1. \A r \in Sockets : socket'[r] # "closing"
    BY <1>3, <1>4 DEF ClientInv, OneAttempt
  <2>2. QED
    BY <1>1, <1>3, <1>5, <2>1 DEF OneAttempt
<1>7. outage = "long" => s > request /\ request + 1 <= MaxDrops + 1
  BY <1>1, <1>2, ClientFacts DEF ClientInv, RequestsFit, ClientType
<1>8. \A r \in Sockets : socket[r] = "none" <=> socket'[r] = "none"
  BY <1>1, <1>4
<1>9. CASE outage = "long"
  <2>1. /\ request' = request + 1 /\ request' \in 1..(MaxDrops + 1)
        /\ fetch' \in [Fetches -> FetchStates]
        /\ \A i \in Fetches : fetch'[i] = NoFetch <=> i > request'
    BY <1>1, <1>2, <1>7, <1>9, RunFetchTyped
  <2>2. ClientType'
    BY <1>1, <1>2, <1>4, <1>9, <2>1, ClientFacts DEF ClientType, SyncInv, SyncType
  <2>3. socket'[request'] # "none"
    <3>1. request' \in Sockets /\ (request' = s \/ request' < s)
      BY <1>2, <1>7, <1>9, <2>1, ClientFacts DEF ClientType
    <3>2. QED
      BY <1>4, <1>5, <3>1 DEF Consecutive
  <2>4. RequestsFit'
    BY <1>1, <1>3, <2>3 DEF RequestsFit
  <2>5. QED
    BY <1>1, <1>5, <1>6, <1>7, <1>9, <2>2, <2>4 DEF ClientInv
<1>10. CASE outage # "long"
  <2>1. ClientType'
    BY <1>1, <1>2, <1>4, <1>10 DEF ClientType
  <2>2. request \in 0..(MaxDrops + 1)
    BY <1>2 DEF ClientType
  <2>3. RequestsFit'
    BY <1>1, <1>3, <1>8, <1>10, <2>2, ClientFacts DEF ClientInv, RequestsFit
  <2>4. QED
    BY <1>5, <1>6, <1>10, <2>1, <2>3 DEF ClientInv
<1>11. QED
  BY <1>9, <1>10

\* A connection is lost: the next one is scheduled.
LEMMA ClientDrops ==
  ASSUME ClientInv, NEW s \in Sockets, Drops(s)
  PROVE  ClientInv'
<1>1. /\ socket[s] \in {"connecting", "open"} /\ socket' = [socket EXCEPT ![s] = "closed"]
      /\ outage' = IF outage = "no" THEN "short" ELSE outage
      /\ timer' = TRUE
      /\ UNCHANGED <<mounted, request, fetch, owed>>
  BY DEF Drops, fetchVars, histVars
<1>2. ClientType /\ Consecutive /\ s \in Live
  BY <1>1 DEF ClientInv, Live
<1>3. mounted = "yes" /\ Live = {s}
  BY <1>2 DEF ClientInv, OneAttempt
<1>4. /\ socket' \in [Sockets -> SocketStates] /\ socket'[s] = "closed"
      /\ \A r \in Sockets : r # s => socket'[r] = socket[r]
  BY <1>1, <1>2 DEF ClientType, SocketStates
<1>5. Live' = {}
  BY <1>3, <1>4 DEF Live
<1>6. \A r \in Sockets : socket[r] = "none" <=> socket'[r] = "none"
  BY <1>1, <1>4
<1>7. ClientType'
  BY <1>1, <1>2, <1>4 DEF ClientType
<1>8. OneAttempt' /\ Consecutive'
  <2>1. \A r \in Sockets : socket'[r] # "closing"
    BY <1>3, <1>4 DEF ClientInv, OneAttempt
  <2>2. QED
    BY <1>1, <1>2, <1>3, <1>5, <1>6, <2>1 DEF OneAttempt, Consecutive
<1>9. RequestsFit'
  <2>1. \A r \in Sockets : socket'[r] # "connecting"
    BY <1>5 DEF Live
  <2>2. request \in 0..(MaxDrops + 1)
    BY <1>2 DEF ClientType
  <2>3. request >= 1 => socket'[request] # "none"
    BY <1>6, <2>2, ClientFacts DEF ClientInv, RequestsFit
  <2>4. QED
    BY <1>1, <1>3, <2>1, <2>3 DEF RequestsFit
<1>10. QED
  BY <1>7, <1>8, <1>9 DEF ClientInv

LEMMA ClientOutage ==
  ASSUME ClientInv, OutageGrowsLong
  PROVE  ClientInv'
<1>1. /\ outage = "short" /\ outage' = "long"
      /\ UNCHANGED <<mounted, socket, timer, request, fetch, owed>>
  BY DEF OutageGrowsLong, fetchVars, histVars
<1>2. ClientType'
  BY <1>1 DEF ClientInv, ClientType
<1>3. OneAttempt' /\ Consecutive' /\ RequestsFit'
  BY <1>1 DEF ClientInv, OneAttempt, Live, Consecutive, RequestsFit
<1>4. QED
  BY <1>2, <1>3 DEF ClientInv

\* The page is left: no connection, no timer, no fetch under way.
LEMMA ClientUnmount ==
  ASSUME ClientInv, Unmount
  PROVE  ClientInv'
<1>1. /\ mounted = "yes" /\ mounted' = "after" /\ timer' = FALSE
      /\ socket' = [s \in Sockets |->
                      IF socket[s] \in {"connecting", "open"} THEN "closing" ELSE socket[s]]
      /\ fetch' = Aborted /\ owed' = NoRow
      /\ UNCHANGED <<outage, request>>
  BY DEF Unmount
<1>2. ClientType /\ Consecutive
  BY DEF ClientInv
<1>3. /\ socket' \in [Sockets -> SocketStates] /\ Live' = {}
      /\ \A s \in Sockets : socket[s] = "none" <=> socket'[s] = "none"
      /\ \A s \in Sockets : socket'[s] # "connecting"
  BY <1>1, <1>2 DEF ClientType, SocketStates, Live
<1>4. ClientType'
  BY <1>1, <1>2, <1>3, AbortedTyped DEF ClientType
<1>5. OneAttempt' /\ Consecutive'
  BY <1>1, <1>2, <1>3 DEF OneAttempt, Consecutive
<1>6. RequestsFit'
  <2>1. request \in 0..(MaxDrops + 1)
    BY <1>2 DEF ClientType
  <2>2. QED
    BY <1>1, <1>3, <2>1, ClientFacts DEF ClientInv, RequestsFit
<1>7. QED
  BY <1>4, <1>5, <1>6 DEF ClientInv

LEMMA ClientCloses ==
  ASSUME ClientInv, NEW s \in Sockets, Closes(s)
  PROVE  ClientInv'
<1>1. /\ socket[s] = "closing" /\ socket' = [socket EXCEPT ![s] = "closed"]
      /\ outage' = IF outage = "no" THEN "short" ELSE outage
      /\ UNCHANGED <<mounted, timer, request, fetch, owed>>
  BY DEF Closes, fetchVars, histVars
<1>2. ClientType
  BY DEF ClientInv
<1>3. /\ socket' \in [Sockets -> SocketStates] /\ Live' = Live
      /\ \A r \in Sockets : socket[r] = "none" <=> socket'[r] = "none"
      /\ \A r \in Sockets : socket'[r] = "connecting" => socket[r] = "connecting"
  BY <1>1, <1>2 DEF ClientType, SocketStates, Live
<1>4. ClientType'
  BY <1>1, <1>2, <1>3 DEF ClientType
<1>5. OneAttempt' /\ Consecutive'
  BY <1>1, <1>3 DEF ClientInv, OneAttempt, Consecutive
<1>6. RequestsFit'
  <2>1. request \in 0..(MaxDrops + 1)
    BY <1>2 DEF ClientType
  <2>2. mounted = "after" /\ Live' = {}
    BY <1>1, <1>3 DEF ClientInv, OneAttempt
  <2>3. \A r \in Sockets : socket'[r] # "connecting"
    BY <2>2 DEF Live
  <2>4. QED
    BY <1>1, <1>3, <2>1, <2>2, <2>3, ClientFacts DEF ClientInv, RequestsFit
<1>7. QED
  BY <1>4, <1>5, <1>6 DEF ClientInv

LEMMA ClientNext ==
  ASSUME SyncInv, ClientInv, [Next]_vars
  PROVE  ClientInv'
<1> USE DEF serverVars, clientVars, fetchVars, histVars
<1>1. CASE Tick \/ Check \/ \E e \in Published : Store(e)
  <2>1. UNCHANGED <<mounted, socket, timer, outage, request, fetch, owed>>
    BY <1>1 DEF Tick, Check, Store
  <2>2. QED
    BY <2>1, ClientQuiet
<1>2. CASE Receive \/ OpenDetail \/ PruneStale \/ UNCHANGED vars
  <2>1. UNCHANGED <<mounted, socket, timer, outage, request, fetch, owed>>
    BY <1>2 DEF Receive, OpenDetail, PruneStale, vars
  <2>2. QED
    BY <2>1, ClientQuiet
<1>3. CASE \E i \in Fetches : Serve(i) \/ Apply(i) \/ FetchFails(i)
  BY <1>3, ClientServe, ClientSettle
<1>4. CASE \E s \in Sockets : Opens(s) \/ Drops(s) \/ Closes(s)
  BY <1>4, ClientOpens, ClientDrops, ClientCloses
<1>5. CASE Mount \/ Unmount \/ OutageGrowsLong \/ Reconnect
  BY <1>5, ClientMount, ClientUnmount, ClientOutage, ClientReconnect
<1>6. QED
  BY <1>1, <1>2, <1>3, <1>4, <1>5 DEF Next

LEMMA ClientInit ==
  ASSUME Init
  PROVE  ClientInv
<1>1. ClientType
  <2>1. \A i \in Fetches : fetch[i] = NoFetch /\ i > request
    BY ClientFacts DEF Init
  <2>2. fetch \in [Fetches -> FetchStates] /\ request \in 0..(MaxDrops + 1)
    BY ClientFacts DEF Init
  <2>3. socket \in [Sockets -> SocketStates]
    BY DEF Init, SocketStates
  <2>4. QED
    BY <2>1, <2>2, <2>3 DEF Init, ClientType
<1>2. OneAttempt /\ Consecutive /\ RequestsFit
  BY DEF Init, OneAttempt, Live, Consecutive, RequestsFit
<1>3. QED
  BY <1>1, <1>2 DEF ClientInv

-----------------------------------------------------------------------------
(***************************************************************************)
(* Catching up.  What the store owes since the last long outage is brought *)
(* by the answer of the fetch made then, or is too old to be shown.        *)
(***************************************************************************)

\* The row is too old for the snapshot and the map, or has no position.
Lapsed(row) == row.at = Null \/ now - row.seen > Retention

\* The store has what the row has.
HasRow(row) ==
  /\ vessel # Gone
  /\ row.at <= vessel.at /\ row.seen <= vessel.lastSeen /\ row.checked <= vessel.checked

OwedKept ==
  owed # NoRow =>
    /\ Older(owed, db)
    /\ request \in Fetches /\ fetch[request] # NoFetch
    /\ Answered(request) => IF fetch[request].row = NoRow THEN Lapsed(owed)
                                                         ELSE Older(owed, fetch[request].row)
    /\ fetch[request] = Settled => Lapsed(owed) \/ HasRow(owed)

\* A snapshot row is taken over, or the store had as much already.
LEMMA SnapshotBrings ==
  ASSUME NEW v \in Vessel \cup {Gone}, NEW row \in Rows
  PROVE  /\ row.at <= ApplySnapshotRow(v, row).at
         /\ row.seen <= ApplySnapshotRow(v, row).lastSeen
         /\ row.checked <= ApplySnapshotRow(v, row).checked
<1> DEFINE b == Base(v)
           w == ApplySnapshotRow(v, row)
           seen == MaxTimestamp(b.lastSeen, row.seen)
           at == IF IsNewer(row.at, b.at) THEN row.at ELSE b.at
           named == row.named \/ b.named
           checked == IF IsNewer(row.checked, b.checked) THEN row.checked ELSE b.checked
<1>1. b \in Vessel
  BY BaseIsVessel
<1>2. w = [b EXCEPT !.lastSeen = seen, !.at = at, !.named = named, !.checked = checked]
  BY DEF ApplySnapshotRow
<1> HIDE DEF b
<1>3. row.at <= at /\ row.checked <= checked
  BY <1>1, StoreAssumption DEF Vessel, Rows, IsNewer, Null
<1> HIDE DEF seen, at, named, checked, w
<1>4. w.at = at /\ w.checked = checked
  BY <1>1, <1>2 DEF Vessel
<1>5. QED
  BY <1>3, <1>4, SnapshotMerges DEF w

\* What was seen within the retention is not pruned.
LEMMA RecentIsKept ==
  ASSUME NEW v \in Vessel, NEW t \in Instants, NEW s \in 0..MaxNow, s <= v.lastSeen,
         ~(t - s > Retention)
  PROVE  Pruned(v, t) = v
<1>1. s <= Activity(v) /\ Activity(v) \in Int
  BY StoreAssumption DEF Activity, Vessel, Null
<1>2. ~(t - Activity(v) > Retention)
  BY <1>1, StoreAssumption DEF Instants
<1>3. QED
  BY <1>2 DEF Pruned, Outdated

\* A step that neither merges less than the store has nor removes what is recent.
LEMMA HasRowKept ==
  ASSUME SyncInv, NEW row \in Rows, HasRow(row), ~Lapsed(row),
         \/ Merges(vessel, vessel')
         \/ \E w \in Vessel \cup {Gone} : Merges(vessel, w) /\ vessel' = Pruned(w, now)
  PROVE  HasRow(row)'
<1>1. vessel \in Vessel /\ now \in Instants /\ vessel # Gone
  BY DEF SyncInv, SyncType, HasRow
<1>2. ASSUME NEW w, Merges(vessel, w)
      PROVE  /\ w \in Vessel /\ w # Gone
             /\ row.at <= w.at /\ row.seen <= w.lastSeen /\ row.checked <= w.checked
  <2>1. w \in Vessel /\ w # Gone /\ Ahead(vessel, w)
    BY <1>1, <1>2 DEF Merges
  <2>2. row.at <= vessel.at /\ row.seen <= vessel.lastSeen /\ row.checked <= vessel.checked
    BY DEF HasRow
  <2>3. QED
    BY <1>1, <2>1, <2>2, StoreAssumption DEF Ahead, Vessel, Rows
<1>3. CASE Merges(vessel, vessel')
  BY <1>2, <1>3 DEF HasRow
<1>4. ASSUME NEW w \in Vessel \cup {Gone}, Merges(vessel, w), vessel' = Pruned(w, now)
      PROVE  HasRow(row)'
  <2>1. /\ w \in Vessel /\ w # Gone
        /\ row.at <= w.at /\ row.seen <= w.lastSeen /\ row.checked <= w.checked
    BY <1>2, <1>4
  <2>2. Pruned(w, now) = w
    BY <1>1, <2>1, RecentIsKept DEF Lapsed, Rows
  <2>3. QED
    BY <1>4, <2>1, <2>2 DEF HasRow
<1>5. QED
  BY <1>3, <1>4

LEMMA OwedTyped == ClientInv => owed \in Rows \cup {NoRow}
  BY DEF ClientInv, ClientType

LEMMA OlderItself == \A r \in Rows : Older(r, r)
  BY StoreAssumption DEF Older, Rows

LEMMA OlderStill ==
  ASSUME NEW p \in Rows, NEW q \in Rows, NEW r \in Rows, Older(p, q), Older(q, r)
  PROVE  Older(p, r)
BY StoreAssumption DEF Older, Rows

\* The fetch that is owed stays as it is; the clock, the database and the store move on.
LEMMA OwedStays ==
  ASSUME SyncInv, SyncInv', ClientInv, OwedKept,
         owed' = owed, request' = request,
         request \in Fetches => fetch'[request] = fetch[request],
         now' >= now, Older(db, db'),
         \/ Merges(vessel, vessel')
         \/ \E w \in Vessel \cup {Gone} : Merges(vessel, w) /\ vessel' = Pruned(w, now)
  PROVE  OwedKept'
<1>1. SUFFICES ASSUME owed # NoRow
               PROVE  /\ Older(owed, db')
                      /\ request \in Fetches /\ fetch[request] # NoFetch
                      /\ Answered(request) =>
                           IF fetch[request].row = NoRow THEN Lapsed(owed)'
                                                         ELSE Older(owed, fetch[request].row)
                      /\ fetch[request] = Settled => Lapsed(owed)' \/ HasRow(owed)'
  BY DEF OwedKept, Answered, Older
<1>2. Older(owed, db) /\ request \in Fetches /\ fetch[request] # NoFetch
  BY <1>1 DEF OwedKept
<1>3. owed \in Rows /\ db \in Rows /\ db' \in Rows /\ now \in Int /\ now' \in Int
  BY <1>1, <1>2, OwedTyped DEF SyncInv, SyncType, Instants
<1>4. Older(owed, db')
  BY <1>2, <1>3, OlderStill
<1>5. Lapsed(owed) => Lapsed(owed)'
  BY <1>3, StoreAssumption DEF Lapsed, Rows
<1>6. Answered(request) => IF fetch[request].row = NoRow THEN Lapsed(owed)'
                                                        ELSE Older(owed, fetch[request].row)
  BY <1>1, <1>5 DEF OwedKept
<1>7. ASSUME fetch[request] = Settled
      PROVE  Lapsed(owed)' \/ HasRow(owed)'
  <2>1. Lapsed(owed) \/ HasRow(owed)
    BY <1>1, <1>7 DEF OwedKept
  <2>2. QED
    BY <1>3, <1>5, <2>1, HasRowKept
<1>8. QED
  BY <1>2, <1>4, <1>6, <1>7

\* The vessel is left alone.
LEMMA OwedUntouched ==
  ASSUME SyncInv, SyncInv', ClientInv, OwedKept, UNCHANGED <<vessel, owed, request>>,
         request \in Fetches => fetch'[request] = fetch[request],
         now' >= now, Older(db, db')
  PROVE  OwedKept'
<1>1. Merges(vessel, vessel')
  BY IgnoredMerges DEF SyncInv, SyncType
<1>2. QED
  BY <1>1, OwedStays

\* The database's row is read for the fetch that is owed.
LEMMA OwedServe ==
  ASSUME SyncInv, SyncInv', ClientInv, OwedKept, NEW i \in Fetches, Serve(i)
  PROVE  OwedKept'
<1>1. /\ fetch[i] = Sent /\ fetch' = [fetch EXCEPT ![i] = Answer(SnapshotRow)]
      /\ UNCHANGED <<now, db, vessel, request, owed>>
  BY DEF Serve, serverVars, histVars
<1>2. fetch' \in [Fetches -> FetchStates] /\ fetch'[i] = Answer(SnapshotRow)
      /\ \A j \in Fetches \ {i} : fetch'[j] = fetch[j]
  <2>1. Answer(SnapshotRow) \in FetchStates
    BY DEF SyncInv, SyncType, SnapshotRow, FetchStates
  <2>2. QED
    BY <1>1, <2>1, FetchTyped, ClientFacts DEF ClientInv
<1>3. db \in Rows /\ now \in Int /\ now' = now
  BY <1>1 DEF SyncInv, SyncType, Instants
<1>4. CASE i # request
  BY <1>1, <1>2, <1>3, <1>4, OlderItself, OwedUntouched
<1>5. CASE i = request
  <2>1. SUFFICES ASSUME owed # NoRow
                 PROVE  /\ Older(owed, db)
                        /\ IF SnapshotRow = NoRow THEN Lapsed(owed) ELSE Older(owed, SnapshotRow)
    BY <1>1, <1>2, <1>5, ClientFacts DEF OwedKept, Answered, Older, Lapsed
  <2>2. Older(owed, db) /\ owed \in Rows
    BY <2>1, OwedTyped DEF OwedKept
  <2>3. CASE db.at # Null /\ now - db.seen <= Retention
    BY <1>3, <2>2, <2>3, NoRowIsNoRow DEF SnapshotRow
  <2>4. CASE ~(db.at # Null /\ now - db.seen <= Retention)
    <3>1. Lapsed(owed)
      BY <1>3, <2>2, <2>4, StoreAssumption DEF Lapsed, Older, Rows, Null
    <3>2. QED
      BY <2>2, <2>4, <3>1 DEF SnapshotRow
  <2>5. QED
    BY <2>3, <2>4
<1>6. QED
  BY <1>4, <1>5

\* The answer that is owed is merged before the store is pruned.
LEMMA OwedApply ==
  ASSUME SyncInv, SyncInv', ClientInv, OwedKept, NEW i \in Fetches, Apply(i)
  PROVE  OwedKept'
<1>1. /\ Answered(i) /\ fetch' = [fetch EXCEPT ![i] = Settled]
      /\ UNCHANGED <<now, db, request, owed>>
      /\ i # request => vessel' = vessel
      /\ i = request /\ fetch[i].row = NoRow => vessel' = Pruned(vessel, now)
      /\ i = request /\ fetch[i].row # NoRow =>
           vessel' = Pruned(ApplySnapshotRow(vessel, fetch[i].row), now)
  BY DEF Apply, Answered, serverVars, Current
<1>2. fetch'[i] = Settled /\ \A j \in Fetches \ {i} : fetch'[j] = fetch[j]
  <2>1. fetch[i] # NoFetch
    BY <1>1 DEF Answered, NoFetch
  <2>2. QED
    BY <1>1, <2>1, FetchTyped, ClientFacts DEF ClientInv
<1>3. db \in Rows /\ now \in Instants /\ now' = now /\ vessel \in Vessel \cup {Gone}
  BY <1>1 DEF SyncInv, SyncType
<1>4. CASE i # request
  BY <1>1, <1>2, <1>3, <1>4, OlderItself, OwedUntouched DEF Instants
<1>5. CASE i = request
  <2>1. SUFFICES ASSUME owed # NoRow
                 PROVE  Older(owed, db) /\ (Lapsed(owed) \/ HasRow(owed)')
    BY <1>1, <1>2, <1>5, ClientFacts DEF OwedKept, Answered, Older, Lapsed, Settled
  <2>2. Older(owed, db) /\ owed \in Rows
    BY <2>1, OwedTyped DEF OwedKept
  <2>3. CASE fetch[i].row = NoRow
    BY <1>1, <1>5, <2>1, <2>2, <2>3 DEF OwedKept
  <2>4. CASE fetch[i].row # NoRow
    <3>1. PICK row : row = fetch[i].row
      OBVIOUS
    <3>2. row \in Rows /\ Older(owed, row)
      BY <1>1, <1>5, <2>1, <2>4, <3>1 DEF OwedKept, SyncInv, SyncType
    <3>3. PICK w : w = ApplySnapshotRow(vessel, row)
      OBVIOUS
    <3>4. /\ w \in Vessel /\ w # Gone
          /\ row.at <= w.at /\ row.seen <= w.lastSeen /\ row.checked <= w.checked
      BY <1>3, <3>2, <3>3, SnapshotMerges, SnapshotBrings, GoneIsNoVessel DEF Merges
    <3>5. owed.at <= w.at /\ owed.seen <= w.lastSeen /\ owed.checked <= w.checked
      BY <2>2, <3>2, <3>4, StoreAssumption DEF Older, Rows, Vessel
    <3>6. CASE now - owed.seen > Retention
      BY <2>2, <3>6 DEF Lapsed
    <3>7. CASE ~(now - owed.seen > Retention)
      <4>1. owed.seen \in 0..MaxNow
        BY <2>2 DEF Rows
      <4>2. Pruned(w, now) = w
        BY <1>3, <3>4, <3>5, <3>7, <4>1, RecentIsKept
      <4>3. vessel' = w
        BY <1>1, <1>5, <2>4, <3>1, <3>3, <4>2
      <4>4. QED
        BY <1>1, <2>2, <3>4, <3>5, <4>3 DEF HasRow
    <3>8. QED
      BY <3>6, <3>7
  <2>5. QED
    BY <2>3, <2>4
<1>6. QED
  BY <1>4, <1>5

\* Nothing is owed any more.
LEMMA OwedNothing ==
  ASSUME owed' = NoRow
  PROVE  OwedKept'
BY DEF OwedKept

\* A long outage ends: what the database has now is owed by the fetch made now.
LEMMA OwedOpens ==
  ASSUME SyncInv, SyncInv', ClientInv, OwedKept, NEW s \in Sockets, Opens(s)
  PROVE  OwedKept'
<1>1. UNCHANGED <<now, db, vessel>>
  BY DEF Opens, serverVars
<1>2. db \in Rows /\ now \in Int
  BY DEF SyncInv, SyncType, Instants
<1>3. Older(db, db') /\ now' >= now
  BY <1>1, <1>2, OlderItself
<1>4. CASE outage = "long"
  <2>1. /\ request' \in Fetches /\ fetch'[request'] = Sent /\ owed' = db'
    BY <1>1, <1>4, ClientOpens, RunFetchTyped, ClientFacts DEF ClientInv
  <2>2. fetch'[request'].state # "answered" /\ fetch'[request'] # Settled
        /\ fetch'[request'] # NoFetch
    BY <2>1, ClientFacts DEF Sent
  <2>3. QED
    BY <1>1, <1>3, <2>1, <2>2 DEF OwedKept, Answered, Older
<1>5. CASE outage # "long"
  <2>1. UNCHANGED <<request, fetch, owed>>
    BY <1>5 DEF Opens, fetchVars
  <2>2. QED
    BY <1>1, <1>3, <2>1, OwedUntouched
<1>6. QED
  BY <1>4, <1>5

LEMMA OwedNext ==
  ASSUME SyncInv, ClientInv, OwedKept, [Next]_vars
  PROVE  OwedKept'
<1> USE DEF serverVars, clientVars, fetchVars, histVars
<1>1. SyncInv'
  BY NextSafe
<1>2. db \in Rows /\ now \in Instants /\ vessel \in Vessel \cup {Gone} /\ Older(db, db)
      /\ now >= now
  BY OlderItself DEF SyncInv, SyncType, Instants
<1>3. CASE Tick
  <2>1. now' >= now /\ UNCHANGED <<db, vessel, owed, request, fetch>>
    BY <1>2, <1>3 DEF Tick, Instants
  <2>2. QED
    BY <1>1, <1>2, <2>1, OwedUntouched DEF Older
<1>4. CASE Check \/ \E e \in Published : Store(e)
  <2>1. Older(db, db')
    BY <1>4, CheckSafe, StoreSafe
  <2>2. UNCHANGED <<now, vessel, owed, request, fetch>>
    BY <1>4 DEF Check, Store
  <2>3. QED
    BY <1>1, <1>2, <2>1, <2>2, OwedUntouched
<1>5. CASE \E i \in Fetches : Serve(i) \/ Apply(i) \/ FetchFails(i)
  BY <1>1, <1>5, OwedServe, OwedApply, OwedNothing DEF FetchFails
<1>6. CASE \E s \in Sockets : Opens(s)
  BY <1>1, <1>6, OwedOpens
<1>7. CASE Unmount
  BY <1>7, OwedNothing DEF Unmount
<1>8. CASE Mount
  BY <1>8, OwedNothing DEF Mount, ClientInv, RequestsFit
<1>9. CASE Receive \/ OpenDetail
  <2>1. Merges(vessel, vessel')
    BY <1>9, ReceiveSafe, OpenDetailSafe
  <2>2. UNCHANGED <<now, db, owed, request, fetch>>
    BY <1>9 DEF Receive, OpenDetail
  <2>3. QED
    BY <1>1, <1>2, <2>1, <2>2, OwedStays DEF Older
<1>10. CASE PruneStale
  <2>1. /\ vessel' = Pruned(vessel, now) /\ Merges(vessel, vessel)
        /\ UNCHANGED <<now, db, owed, request, fetch>>
    BY <1>2, <1>10, IgnoredMerges DEF PruneStale
  <2>2. QED
    BY <1>1, <1>2, <2>1, OwedStays DEF Older
<1>11. CASE \/ \E s \in Sockets : Drops(s) \/ Closes(s)
            \/ OutageGrowsLong \/ Reconnect \/ UNCHANGED vars
  <2>1. UNCHANGED <<now, db, vessel, owed, request, fetch>>
    BY <1>11 DEF Drops, Closes, OutageGrowsLong, Reconnect, vars
  <2>2. QED
    BY <1>1, <1>2, <2>1, OwedUntouched DEF Older
<1>12. QED
  BY <1>3, <1>4, <1>5, <1>6, <1>7, <1>8, <1>9, <1>10, <1>11 DEF Next

-----------------------------------------------------------------------------
(***************************************************************************)
(* The theorems about the client.                                          *)
(***************************************************************************)

LEMMA PageInvariant == Spec => [](ClientInv /\ OwedKept)
<1>1. Init => ClientInv /\ OwedKept
  BY ClientInit DEF Init, OwedKept
<1>2. SyncInv /\ ClientInv /\ OwedKept /\ [Next]_vars => ClientInv' /\ OwedKept'
  BY ClientNext, OwedNext
<1>3. QED
  BY <1>1, <1>2, SyncInvInvariant, PTL DEF Spec

\* Type correctness of the page and its server, the numbering of the fetches included.
THEOREM PageTypes == Spec => []TypeOK
<1>1. SyncInv /\ ClientInv => TypeOK
  BY DEF SyncInv, SyncType, ClientInv, ClientType, TypeOK, FetchStates
<1>2. QED
  BY <1>1, SyncInvInvariant, PageInvariant, PTL

\* However often connections are lost or refused: while the page is mounted it has one
\* live connection or one reconnect scheduled, and neither once it is left.
THEOREM AlwaysOneAttempt == Spec => []ConnectedOrTrying
<1>1. ClientInv => ConnectedOrTrying
  <2>1. SUFFICES ASSUME ClientInv
                 PROVE  IF mounted = "yes" THEN Cardinality(Live) + (IF timer THEN 1 ELSE 0) = 1
                                           ELSE Live = {} /\ ~timer
    BY DEF ConnectedOrTrying, Live
  <2>2. Cardinality({}) = 0 /\ \A s \in Sockets : Cardinality({s}) = 1
    BY FS_EmptySet, FS_Singleton
  <2>3. QED
    BY <2>1, <2>2 DEF ClientInv, OneAttempt
<1>2. QED
  BY <1>1, PageInvariant, PTL

\* realtime.md's promise: once the fetch made after a long outage has ended well, the
\* store is no older than the database was at the reconnect, whatever was under way.
THEOREM CatchesUpAfterOutage == Spec => []CaughtUpAfterOutage
<1>1. ASSUME SyncInv, ClientInv, OwedKept
      PROVE  CaughtUpAfterOutage
  <2>1. SUFFICES ASSUME owed # NoRow, fetch[request] = Settled, owed.at # Null,
                        now - owed.seen <= Retention
                 PROVE  vessel # Gone /\ owed.at <= vessel.at /\ owed.checked <= vessel.checked
    BY DEF CaughtUpAfterOutage
  <2>2. ~Lapsed(owed)
    BY <2>1, <1>1, OwedTyped, StoreAssumption DEF Lapsed, Rows, SyncInv, SyncType, Instants
  <2>3. QED
    BY <1>1, <2>1, <2>2 DEF OwedKept, HasRow
<1>2. QED
  BY <1>1, SyncInvInvariant, PageInvariant, PTL
=============================================================================
