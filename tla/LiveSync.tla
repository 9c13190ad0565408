------------------------------- MODULE LiveSync -------------------------------
(***************************************************************************)
(* The page that keeps one vessel of the store current: its WebSocket      *)
(* client, its snapshot fetches and the pruning timer                      *)
(* (useVesselRealtimeSync, WsClient, the vessels store), against a server  *)
(* whose database and whose messages are only loosely ordered.             *)
(*                                                                         *)
(* The bus redelivers and reorders, and stores an event and sends it to    *)
(* the browsers independently: at any time the database and an open socket *)
(* may get any event up to now, for the first time or again.  A provider's *)
(* report reaches the system within a tick of the clock.  Backoff lengths, status labels  *)
(* and the error banner are display and left out; the hook is mounted once.*)
(***************************************************************************)
EXTENDS VesselStore, FiniteSets

CONSTANTS MaxDrops  \* bound: connections that are lost

ASSUME SyncAssumption == MaxDrops \in Nat

Sockets == 1..(MaxDrops + 1)
SocketStates == {"none", "connecting", "open", "closing", "closed"}

Fetches == 1..(MaxDrops + 1)

\* A fetch that was not made, one under way, and one aborted, failed or applied; else the
\* row it was answered with.
NoFetch == [state |-> "none"]
Sent == [state |-> "sent"]
Settled == [state |-> "settled"]
Answer(row) == [state |-> "answered", row |-> row]

NoRow == [at |-> -1]

VARIABLES
  now,      \* the clock
  db,       \* the vessel's row in the database, at = Null without a position
  vessel,   \* the store
  mounted,  \* the hook: "before", "yes", "after"
  socket,   \* per connection made: its state
  timer,    \* a reconnect is scheduled
  outage,   \* disconnectedAt: "no", "short", or "long" past outageResyncMs
  request,  \* requestIdRef
  fetch,    \* per request
  applied,  \* history: the last snapshot row applied, NoRow before
  heard,    \* history: the newest word of the vessel: a position accepted, a row's lastSeenAt
  owed      \* history: the row of the database when the last long outage ended, if the
            \* fetch made then did not fail

serverVars == <<now, db>>
clientVars == <<mounted, socket, timer, outage>>
fetchVars == <<request, fetch>>
histVars == <<applied, heard, owed>>
vars == <<serverVars, vessel, clientVars, fetchVars, histVars>>

TypeOK ==
  /\ now \in Instants
  /\ db \in Rows
  /\ vessel \in Vessel \cup {Gone}
  /\ mounted \in {"before", "yes", "after"}
  /\ socket \in [Sockets -> SocketStates]
  /\ timer \in BOOLEAN
  /\ outage \in {"no", "short", "long"}
  /\ request \in 0..(MaxDrops + 1)
  /\ fetch \in [Fetches -> {NoFetch, Sent, Settled} \cup {Answer(r) : r \in Rows \cup {NoRow}}]
  /\ applied \in Rows \cup {NoRow}
  /\ heard \in 0..MaxNow
  /\ owed \in Rows \cup {NoRow}
  /\ \A i \in Fetches : fetch[i] = NoFetch <=> i > request

Init ==
  /\ now = 1
  /\ db = [at |-> Null, seen |-> Null, named |-> FALSE, checked |-> Null]
  /\ vessel = Gone
  /\ mounted = "before"
  /\ socket = [s \in Sockets |-> "none"]
  /\ timer = FALSE /\ outage = "no"
  /\ request = 0 /\ fetch = [i \in Fetches |-> NoFetch]
  /\ applied = NoRow /\ heard = Null /\ owed = NoRow

-----------------------------------------------------------------------------
(* The server.                                                             *)

Tick ==
  /\ now < MaxNow
  /\ now' = now + 1
  /\ UNCHANGED <<db, vessel, clientVars, fetchVars, histVars>>

\* The events that may be under way.
Published == {e \in Events : e.at <= now}

\* The storage writer: the newest position, and a name that is never taken back.
Store(e) ==
  /\ db' = [db EXCEPT !.named = e.named \/ @,
                      !.at = IF e.kind = "position" /\ e.at >= @ THEN e.at ELSE @,
                      !.seen = IF e.kind = "position" /\ e.at >= db.at THEN now ELSE @]
  /\ UNCHANGED <<now, vessel, clientVars, fetchVars, histVars>>

\* The enrichment worker checks the vessel (again).
Check ==
  /\ db.at # Null
  /\ db.checked < MaxChecks
  /\ db' = [db EXCEPT !.checked = @ + 1]
  /\ UNCHANGED <<now, vessel, clientVars, fetchVars, histVars>>

\* The snapshot has the vessels seen within its window.
SnapshotRow == IF db.at # Null /\ now - db.seen <= Retention THEN db ELSE NoRow

Serve(i) ==
  /\ fetch[i] = Sent
  /\ fetch' = [fetch EXCEPT ![i] = Answer(SnapshotRow)]
  /\ UNCHANGED <<serverVars, vessel, clientVars, request, histVars>>

-----------------------------------------------------------------------------
(* The fetches.                                                            *)

\* An answer that has been read is past aborting; its callback is still to run.
Aborted == [i \in Fetches |-> IF fetch[i] = Sent THEN Settled ELSE fetch[i]]

\* Mutant: a fetch without a number of its own.
RunFetchUnnumbered ==
  /\ request' = request
  /\ fetch' = [Aborted EXCEPT ![request + 1] = Sent]

\* runFetch.
RunFetch ==
  /\ request' = request + 1
  /\ fetch' = [Aborted EXCEPT ![request + 1] = Sent]

\* Mutant: the request's number is not looked at.
CurrentAlways(i) == TRUE

Current(i) == i = request

\* The answer of the current request is merged, then the store is pruned; the answer of
\* an older one is dropped.
Apply(i) ==
  /\ fetch[i].state = "answered"
  /\ fetch' = [fetch EXCEPT ![i] = Settled]
  /\ LET row == fetch[i].row IN
       IF Current(i) /\ row # NoRow
         THEN /\ vessel' = Pruned(ApplySnapshotRow(vessel, row), now)
              /\ applied' = row
              /\ heard' = MaxTimestamp(heard, row.seen)
         ELSE /\ vessel' = IF Current(i) THEN Pruned(vessel, now) ELSE vessel
              /\ UNCHANGED <<applied, heard>>
  /\ UNCHANGED <<serverVars, clientVars, request, owed>>

FetchFails(i) ==
  /\ fetch[i] = Sent
  /\ fetch' = [fetch EXCEPT ![i] = Settled]
  /\ owed' = NoRow
  /\ UNCHANGED <<serverVars, vessel, clientVars, request, applied, heard>>

-----------------------------------------------------------------------------
(* The WebSocket client.                                                   *)

\* connect, on the next connection.
Connect ==
  \E s \in Sockets :
    /\ socket[s] = "none"
    /\ \A r \in Sockets : r < s => socket[r] # "none"
    /\ socket' = [socket EXCEPT ![s] = "connecting"]

Mount ==
  /\ mounted = "before"
  /\ mounted' = "yes"
  /\ Connect
  /\ RunFetch
  /\ UNCHANGED <<serverVars, vessel, timer, outage, histVars>>

\* Mutant: disconnectedAt is cleared before it is looked at.
OpensForgetful(s) ==
  /\ socket[s] = "connecting"
  /\ socket' = [socket EXCEPT ![s] = "open"]
  /\ outage' = "no"
  /\ owed' = IF outage = "long" THEN db ELSE owed
  /\ UNCHANGED <<serverVars, vessel, mounted, timer, fetchVars, applied, heard>>

\* onopen: subscribes, and fetches again after a long outage.
Opens(s) ==
  /\ socket[s] = "connecting"
  /\ socket' = [socket EXCEPT ![s] = "open"]
  /\ outage' = "no"
  /\ IF outage = "long" THEN RunFetch /\ owed' = db ELSE UNCHANGED <<fetchVars, owed>>
  /\ UNCHANGED <<serverVars, vessel, mounted, timer, applied, heard>>

\* Mutant: a connection that never opened is not tried again.
DropsUnheard(s) ==
  /\ socket[s] \in {"connecting", "open"}
  /\ \E r \in Sockets : socket[r] = "none"
  /\ socket' = [socket EXCEPT ![s] = "closed"]
  /\ outage' = IF outage = "no" THEN "short" ELSE outage
  /\ timer' = (socket[s] = "open")
  /\ UNCHANGED <<serverVars, vessel, mounted, fetchVars, histVars>>

\* The connection is lost or refused: onclose schedules the next one.
Drops(s) ==
  /\ socket[s] \in {"connecting", "open"}
  /\ \E r \in Sockets : socket[r] = "none"
  /\ socket' = [socket EXCEPT ![s] = "closed"]
  /\ outage' = IF outage = "no" THEN "short" ELSE outage
  /\ timer' = TRUE
  /\ UNCHANGED <<serverVars, vessel, mounted, fetchVars, histVars>>

OutageGrowsLong ==
  /\ outage = "short"
  /\ outage' = "long"
  /\ UNCHANGED <<serverVars, vessel, mounted, socket, timer, fetchVars, histVars>>

\* The timer fires.
Reconnect ==
  /\ timer
  /\ timer' = FALSE
  /\ Connect
  /\ UNCHANGED <<serverVars, vessel, mounted, outage, fetchVars, histVars>>

\* onmessage, for any event that was published or check that was announced.
Receive ==
  /\ \E s \in Sockets : socket[s] = "open"
  /\ \/ \E e \in Published :
          /\ vessel' = IF e.kind = "position" THEN ApplyPosition(vessel, e)
                                              ELSE ApplyStatic(vessel, e)
          /\ heard' = IF e.kind = "position" /\ IsNewer(e.at, Base(vessel).at)
                        THEN MaxTimestamp(heard, e.at) ELSE heard
     \/ \E check \in 1..db.checked : vessel' = ApplyEnriched(vessel, check) /\ UNCHANGED heard
  /\ UNCHANGED <<serverVars, clientVars, fetchVars, applied, owed>>

\* A detail panel shows a row that was read now or is still in the query cache.
OpenDetail ==
  /\ mounted = "yes"
  /\ \E check \in 0..db.checked : vessel' = ApplyDetailSanctions(vessel, check)
  /\ UNCHANGED <<serverVars, clientVars, fetchVars, histVars>>

PruneStale ==
  /\ mounted = "yes"
  /\ vessel' = Pruned(vessel, now)
  /\ UNCHANGED <<serverVars, clientVars, fetchVars, histVars>>

\* The effect's cleanup: stop and abort.
Unmount ==
  /\ mounted = "yes"
  /\ mounted' = "after"
  /\ timer' = FALSE
  /\ socket' = [s \in Sockets |->
                  IF socket[s] \in {"connecting", "open"} THEN "closing" ELSE socket[s]]
  /\ fetch' = Aborted
  /\ owed' = NoRow
  /\ UNCHANGED <<serverVars, vessel, outage, request, applied, heard>>

\* onclose after stop.
Closes(s) ==
  /\ socket[s] = "closing"
  /\ socket' = [socket EXCEPT ![s] = "closed"]
  /\ outage' = IF outage = "no" THEN "short" ELSE outage
  /\ UNCHANGED <<serverVars, vessel, mounted, timer, fetchVars, histVars>>

Next ==
  \/ Tick \/ Check \/ \E e \in Published : Store(e)
  \/ \E i \in Fetches : Serve(i) \/ Apply(i) \/ FetchFails(i)
  \/ \E s \in Sockets : Opens(s) \/ Drops(s) \/ Closes(s)
  \/ Mount \/ Unmount \/ OutageGrowsLong \/ Reconnect
  \/ Receive \/ OpenDetail \/ PruneStale

Spec == Init /\ [][Next]_vars

-----------------------------------------------------------------------------
(* Correctness.                                                            *)

\* Snapshots, details and messages in any order, again and late, never take a vessel
\* that stays on the map back in time, nor a known name away (the reducers' guards).
NothingGoesBack ==
  [][vessel # Gone /\ vessel' # Gone =>
       /\ vessel.at <= vessel'.at
       /\ vessel.staticAt <= vessel'.staticAt
       /\ vessel.checked <= vessel'.checked
       /\ vessel.lastSeen <= vessel'.lastSeen
       /\ vessel.named => vessel'.named]_vars

\* The matches shown never come from a later check than the status beside them, though
\* snapshots bring a status without matches and details bring both.
MatchesFitStatus ==
  vessel # Gone => vessel.matches <= vessel.checked

\* A fetch overtaken by a newer one is never applied after it: snapshots are applied in
\* the order the database was read (the request number, the abort).
SnapshotsInOrder ==
  [][applied # NoRow =>
       applied.at <= applied'.at /\ applied.seen <= applied'.seen
         /\ applied.checked <= applied'.checked]_vars

\* While mounted the page has one live connection or one reconnect scheduled, never both,
\* and none of them once it is left (start, onclose, stop).
ConnectedOrTrying ==
  LET live == {s \in Sockets : socket[s] \in {"connecting", "open"}} IN
  IF mounted = "yes" THEN Cardinality(live) + (IF timer THEN 1 ELSE 0) = 1
                     ELSE live = {} /\ ~timer

\* realtime.md: the client "refreshes the REST snapshot after a longer outage".  Once that
\* fetch has ended well, the store is no older than the database was at the reconnect.
CaughtUpAfterOutage ==
  owed # NoRow /\ fetch[request] = Settled /\ owed.at # Null /\ now - owed.seen <= Retention =>
    vessel # Gone /\ owed.at <= vessel.at /\ owed.checked <= vessel.checked

\* A vessel is removed only when nothing has been heard of it for the retention: an old
\* snapshot row does not make a vessel look silent (lastSeenAt, pruneStaleVessels).
KeptWhileHeard ==
  [][vessel # Gone /\ vessel' = Gone => heard = Null \/ now - heard > Retention]_vars
=============================================================================
