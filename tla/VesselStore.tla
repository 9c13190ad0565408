----------------------------- MODULE VesselStore -----------------------------
(***************************************************************************)
(* The browser's vessel store: how a snapshot row, a detail row and each   *)
(* kind of WebSocket message change what is known of one vessel            *)
(* (mergeReducer.ts).  The reducers never mix vessels.                     *)
(*                                                                         *)
(* A vessel is when its fields were true: at, the occurredAt of its        *)
(* position; named, whether its profile has a name; staticAt, the last     *)
(* static event; checked and matches, the sanctions check its status and   *)
(* its list of matches come from; lastSeen.  Zero is null.                 *)
(***************************************************************************)
EXTENDS Integers

CONSTANTS MaxNow,     \* bound: the clock
          MaxChecks,  \* bound: sanctions checks of the vessel
          Retention   \* SNAPSHOT_RETENTION_MS

ASSUME StoreAssumption == MaxNow \in Nat \ {0} /\ MaxChecks \in Nat /\ Retention \in Nat

Instants == 1..MaxNow
Null == 0

\* An AIS event is its instant: the pipeline publishes one per vessel and instant.
Events == [kind : {"position", "static"}, at : Instants, named : BOOLEAN]

\* What the database joins into a snapshot row.
Rows == [at : 0..MaxNow, seen : 0..MaxNow, named : BOOLEAN, checked : 0..MaxChecks]

Vessel == [at : 0..MaxNow, named : BOOLEAN, staticAt : 0..MaxNow, lastSeen : 0..MaxNow,
           checked : 0..MaxChecks, matches : 0..MaxChecks]

\* The Map has no entry.
Gone == [at |-> -1]

EmptyVessel == [at |-> Null, named |-> FALSE, staticAt |-> Null, lastSeen |-> Null,
                checked |-> Null, matches |-> Null]

Base(v) == IF v = Gone THEN EmptyVessel ELSE v

IsNewer(incoming, current) == incoming # Null /\ incoming >= current

MaxTimestamp(a, b) == IF a >= b THEN a ELSE b

\* Mutant: the row's lastSeenAt wins.
SnapshotRowResetsSeen(v, row) ==
  [Base(v) EXCEPT !.lastSeen = row.seen,
                  !.at = IF IsNewer(row.at, @) THEN row.at ELSE @,
                  !.named = row.named \/ @,
                  !.checked = IF IsNewer(row.checked, @) THEN row.checked ELSE @]

\* A row has the status of a check, not its matches.
ApplySnapshotRow(v, row) ==
  [Base(v) EXCEPT !.lastSeen = MaxTimestamp(@, row.seen),
                  !.at = IF IsNewer(row.at, @) THEN row.at ELSE @,
                  !.named = row.named \/ @,
                  !.checked = IF IsNewer(row.checked, @) THEN row.checked ELSE @]

\* Mutant: the detail's matches without its status.
DetailMatchesOnly(v, check) ==
  IF ~IsNewer(check, Base(v).checked) THEN v ELSE [Base(v) EXCEPT !.matches = check]

ApplyDetailSanctions(v, check) ==
  IF ~IsNewer(check, Base(v).checked) THEN v
  ELSE [Base(v) EXCEPT !.checked = check, !.matches = check]

ApplyPosition(v, e) ==
  IF ~IsNewer(e.at, Base(v).at) THEN v
  ELSE [Base(v) EXCEPT !.at = e.at,
                       !.lastSeen = MaxTimestamp(@, e.at),
                       !.named = e.named \/ @]

\* Mutant: the guard looks at the position's instant.
StaticByPosition(v, e) ==
  IF v # Gone /\ ~IsNewer(e.at, v.at) THEN v
  ELSE [Base(v) EXCEPT !.named = e.named \/ @, !.staticAt = e.at]

ApplyStatic(v, e) ==
  IF v # Gone /\ ~IsNewer(e.at, v.staticAt) THEN v
  ELSE [Base(v) EXCEPT !.named = e.named \/ @, !.staticAt = e.at]

ApplyEnriched(v, check) ==
  IF check < Base(v).checked THEN v
  ELSE [Base(v) EXCEPT !.checked = check, !.matches = check]

\* vesselActivityAt.
Activity(v) ==
  IF v.lastSeen # Null THEN v.lastSeen ELSE IF v.at # Null THEN v.at ELSE v.staticAt

\* A vessel without any of the three timestamps is never pruned.
Outdated(v, now) == Activity(v) # Null /\ now - Activity(v) > Retention

Pruned(v, now) == IF v # Gone /\ Outdated(v, now) THEN Gone ELSE v
=============================================================================
