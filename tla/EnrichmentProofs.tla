--------------------------- MODULE EnrichmentProofs ---------------------------
(***************************************************************************)
(* The markers in Redis and the announcements on the bus stay in step with *)
(* the checks in the database, for any number of vessels, profiles,        *)
(* attempts, lost notices, failed commands and crashes.                    *)
(***************************************************************************)
EXTENDS Enrichment, TLAPS

-----------------------------------------------------------------------------
(***************************************************************************)
(* The invariant.                                                          *)
(***************************************************************************)

\* A worker between its update and its last marker has the stored check in its hands, and
\* what it has done of publish, SET enrich:profile and SET enrich:checked shows.
WorkerInv ==
  LET v == VesselOf(taken) IN
  /\ step \in {"publish", "setprofile", "setchecked"} =>
       check = Stored /\ row[v].at = Stored /\ row[v].profile = read
  /\ step \in {"setprofile", "setchecked"} => heard[v] = Stored
  /\ step = "setchecked" => cached[v] = read

IInv == TypeOK /\ WorkerInv /\ MarkersVouch /\ RowAnnounced

LEMMA EnrichmentFacts ==
  /\ NoProfile \notin Profiles /\ Attempts \in Nat \ {0}
  /\ MaxPersists \in Nat /\ MaxStale \in Nat /\ MaxFaults \in Nat
BY EnrichmentAssumption

LEMMA Sentinels ==
  /\ NoRequest \notin Requests
  /\ NoJob \notin JobIds
  /\ \A j \in JobIds : VesselOf(j) \in Vessels
  /\ Never = 0 /\ Earlier = 1 /\ Stored = 2 /\ Later = 3
<1>1. NoRequest \notin Requests
  BY DEF NoRequest, Requests
<1>2. NoJob \notin JobIds /\ \A j \in JobIds : VesselOf(j) \in Vessels
  BY DEF NoJob, JobIds, VesselOf
<1>3. QED
  BY <1>1, <1>2 DEF Never, Earlier, Stored, Later

LEMMA WorkerHasJob ==
  ASSUME TypeOK, step # "free"
  PROVE  taken \in JobIds /\ VesselOf(taken) \in Vessels /\ job[taken] = "active"
BY Sentinels DEF TypeOK

\* The requester and the bound of the faults are no part of what the invariant relates.
LEMMA OutsideWorker ==
  ASSUME IInv, TypeOK', UNCHANGED <<row, cached, workerVars, heard, broken>>
  PROVE  IInv'
BY DEF IInv, WorkerInv, MarkersVouch, RowAnnounced, workerVars

-----------------------------------------------------------------------------
(***************************************************************************)
(* The rest of the system, and the requester.                              *)
(***************************************************************************)

LEMMA PersistKeeps ==
  ASSUME IInv, NEW v \in Vessels, NEW p \in Profiles, Persist(v, p)
  PROVE  IInv'
<1>1. TypeOK'
  BY EnrichmentFacts DEF IInv, TypeOK, Persist, Fault, Requests, redisVars, queueVars, workerVars
<1>2. QED
  BY <1>1, OutsideWorker DEF Persist, redisVars

LEMMA BecomesStaleKeeps ==
  ASSUME IInv, NEW v \in Vessels, BecomesStale(v)
  PROVE  IInv'
<1>1. TypeOK'
  BY EnrichmentFacts DEF IInv, TypeOK, BecomesStale, redisVars, requestVars, queueVars, workerVars
<1>2. QED
  BY <1>1, OutsideWorker DEF BecomesStale, redisVars

LEMMA MarkerExpiresKeeps ==
  ASSUME IInv, NEW v \in Vessels, MarkerExpires(v)
  PROVE  IInv'
<1>1. TypeOK'
  BY DEF IInv, TypeOK, MarkerExpires, Instants, dbVars, requestVars, queueVars, workerVars, histVars
<1>2. QED
  BY <1>1, OutsideWorker DEF MarkerExpires, dbVars, histVars

LEMMA ScanKeeps ==
  ASSUME IInv, Scan
  PROVE  IInv'
<1>1. todo' \subseteq Requests
  <2>1. PICK b \in Batches : todo' = {[vessel |-> v, profile |-> profile[v]] : v \in b}
    BY DEF Scan
  <2>2. \A v \in b : v \in Vessels /\ profile[v] # NoProfile
    BY <2>1 DEF Batches, NeedsCheck
  <2>3. \A v \in b : [vessel |-> v, profile |-> profile[v]] \in Requests
    BY <2>2 DEF IInv, TypeOK, Requests
  <2>4. QED
    BY <2>1, <2>3
<1>2. TypeOK'
  BY <1>1 DEF IInv, TypeOK, Scan, dbVars, redisVars, queueVars, workerVars, histVars
<1>3. QED
  BY <1>2, OutsideWorker DEF Scan, dbVars, redisVars, histVars

LEMMA BeginKeeps ==
  ASSUME IInv, NEW r \in Requesters, NEW q \in Requests, Begin(r, q),
         notices' = notices, todo' \subseteq todo
  PROVE  IInv'
<1>1. TypeOK'
  BY DEF IInv, TypeOK, Begin, dbVars, redisVars, queueVars, workerVars, histVars
<1>2. QED
  BY <1>1, OutsideWorker DEF Begin, dbVars, redisVars, histVars

\* request() ends, one way or the other.
LEMMA RequestEnds ==
  ASSUME TypeOK, NEW r \in Requesters, Return(r) \/ Reject(r)
  PROVE  /\ request' \in [Requesters -> Requests \cup {NoRequest}]
         /\ trigger' \in [Requesters -> Triggers \cup {"none"}]
         /\ notices' \subseteq Requests
         /\ todo' \subseteq Requests
BY DEF TypeOK, Return, Reject

LEMMA DecideKeeps ==
  ASSUME IInv, NEW r \in Requesters, Decide(r)
  PROVE  IInv'
<1>1. UNCHANGED <<dbVars, redisVars, queueVars, workerVars, heard, broken, persists, aged>>
  BY DEF Decide
<1>2. faults' \in 0..MaxFaults
  BY EnrichmentFacts DEF IInv, TypeOK, Decide, Fault
<1>3. /\ request' \in [Requesters -> Requests \cup {NoRequest}]
      /\ trigger' \in [Requesters -> Triggers \cup {"none"}]
      /\ notices' \subseteq Requests /\ todo' \subseteq Requests
  <2>1. CASE Return(r) \/ Reject(r)
    BY <2>1, RequestEnds DEF IInv
  <2>2. CASE /\ trigger' = [trigger EXCEPT ![r] = Decision(request[r].vessel, request[r].profile)]
             /\ UNCHANGED <<notices, request, todo>>
    <3>1. Decision(request[r].vessel, request[r].profile) \in Triggers
      BY DEF Decision, Triggers
    <3>2. QED
      BY <2>2, <3>1 DEF IInv, TypeOK
  <2>3. QED
    BY <2>1, <2>2 DEF Decide
<1>4. TypeOK'
  BY <1>1, <1>2, <1>3 DEF IInv, TypeOK, dbVars, redisVars, queueVars, workerVars
<1>5. QED
  BY <1>1, <1>4, OutsideWorker DEF dbVars, redisVars

\* queue.add makes no job active.
LEMMA JobsAdded ==
  ASSUME TypeOK, NEW j \in JobIds, job[j] # "active",
         job' = job \/ job' = [job EXCEPT ![j] = "waiting"], taken' = taken
  PROVE  /\ job' \in [JobIds -> JobStates]
         /\ \A i \in JobIds : (job'[i] = "active") <=> (taken' = i)
BY DEF TypeOK, JobStates

LEMMA EnqueueKeeps ==
  ASSUME IInv, NEW r \in Requesters, Enqueue(r) \/ EnqueueForgotten(r)
  PROVE  IInv'
<1> DEFINE j == <<request[r].vessel, trigger[r], request[r].profile>>
<1>1. /\ request[r] # NoRequest /\ trigger[r] # "none"
      /\ job' = job \/ (job[j] # "active" /\ job' = [job EXCEPT ![j] = "waiting"])
      /\ Return(r) \/ Reject(r)
      /\ UNCHANGED faults \/ Fault
      /\ UNCHANGED <<dbVars, redisVars, tries, stalled, workerVars, heard, broken, persists, aged>>
  BY DEF Enqueue, EnqueueForgotten, histVars
<1>2. j \in JobIds
  BY <1>1 DEF IInv, TypeOK, Requests, JobIds
<1>3. faults' \in 0..MaxFaults
  BY <1>1, EnrichmentFacts DEF IInv, TypeOK, Fault
<1>4. /\ request' \in [Requesters -> Requests \cup {NoRequest}]
      /\ trigger' \in [Requesters -> Triggers \cup {"none"}]
      /\ notices' \subseteq Requests /\ todo' \subseteq Requests
  BY <1>1, RequestEnds DEF IInv
<1> HIDE DEF j
<1>5. /\ job' \in [JobIds -> JobStates]
      /\ \A i \in JobIds : (job'[i] = "active") <=> (taken' = i)
  <2>1. CASE job' = job
    BY <1>1, <2>1 DEF IInv, TypeOK, workerVars
  <2>2. CASE job[j] # "active" /\ job' = [job EXCEPT ![j] = "waiting"]
    BY <1>1, <1>2, <2>2, JobsAdded DEF IInv, workerVars
  <2>3. QED
    BY <1>1, <2>1, <2>2
<1>6. TypeOK'
  BY <1>1, <1>3, <1>4, <1>5 DEF IInv, TypeOK, dbVars, redisVars, workerVars
<1>7. QED
  BY <1>1, <1>6, OutsideWorker DEF dbVars, redisVars

-----------------------------------------------------------------------------
(***************************************************************************)
(* The worker.                                                             *)
(***************************************************************************)

\* The worker lets go of its job, which is then waiting or finished.
LEMMA JobLeaves ==
  ASSUME TypeOK, step # "free", Release, NEW s \in {"waiting", "finished"},
         job' = [job EXCEPT ![taken] = s]
  PROVE  /\ job' \in [JobIds -> JobStates]
         /\ \A i \in JobIds : (job'[i] = "active") <=> (taken' = i)
         /\ step' = "free" /\ taken' = NoJob /\ read' = NoProfile /\ check' = Never
<1>1. taken \in JobIds /\ NoJob \notin JobIds
  BY WorkerHasJob, Sentinels
<1>2. step' = "free" /\ taken' = NoJob /\ read' = NoProfile /\ check' = Never
  BY DEF Release
<1>3. job' \in [JobIds -> JobStates]
  BY DEF TypeOK, JobStates
<1>4. ASSUME NEW i \in JobIds
      PROVE  job'[i] # "active" /\ taken' # i
  <2>1. CASE i = taken
    BY <1>1, <1>2, <2>1 DEF TypeOK
  <2>2. CASE i # taken
    BY <1>1, <1>2, <2>2 DEF TypeOK
  <2>3. QED
    BY <2>1, <2>2
<1>5. QED
  BY <1>2, <1>3, <1>4

\* An end of the worker's job, at any step: what it leaves undone is in broken.
LEMMA JobEnds ==
  ASSUME IInv, TypeOK', step # "free", step' = "free", taken' = NoJob,
         UNCHANGED <<row, cached, heard>>,
         broken' = Broken \/ (step = "complete" /\ broken' = broken)
  PROVE  IInv'
<1>1. WorkerInv'
  BY DEF WorkerInv
<1>2. taken \in JobIds /\ VesselOf(taken) \in Vessels
  BY WorkerHasJob DEF IInv
<1>3. broken \subseteq broken' /\ (step \in {"publish", "setprofile", "setchecked"}
                                     => VesselOf(taken) \in broken')
  BY DEF Broken
<1>4. MarkersVouch'
  BY <1>3 DEF IInv, MarkersVouch
<1>5. RowAnnounced'
  BY <1>3 DEF IInv, RowAnnounced
<1>6. QED
  BY <1>1, <1>4, <1>5 DEF IInv

LEMMA TakeKeeps ==
  ASSUME IInv, Take
  PROVE  IInv'
<1>1. PICK j \in JobIds : job[j] = "waiting" /\ job' = [job EXCEPT ![j] = "active"] /\ taken' = j
  BY DEF Take
<1>2. /\ step = "free" /\ step' = "read"
      /\ UNCHANGED <<dbVars, redisVars, requestVars, tries, stalled, read, check, histVars>>
  BY DEF Take
<1>3. \A i \in JobIds : job[i] # "active"
  BY <1>2, Sentinels DEF IInv, TypeOK
<1>4. job' \in [JobIds -> JobStates] /\ \A i \in JobIds : (job'[i] = "active") <=> (taken' = i)
  BY <1>1, <1>3 DEF IInv, TypeOK, JobStates
<1>5. TypeOK'
  BY <1>1, <1>2, <1>4, Sentinels DEF IInv, TypeOK, Steps, dbVars, redisVars, requestVars, histVars
<1>6. WorkerInv' /\ MarkersVouch' /\ RowAnnounced'
  BY <1>2 DEF IInv, WorkerInv, MarkersVouch, RowAnnounced, dbVars, redisVars, histVars
<1>7. QED
  BY <1>5, <1>6 DEF IInv

LEMMA ReadAndMatchKeeps ==
  ASSUME IInv, ReadAndMatch
  PROVE  IInv'
<1>1. /\ step = "read" /\ step' = "apply" /\ read' = profile[VesselOf(taken)]
      /\ check' \in {Later, Stored}
      /\ UNCHANGED <<dbVars, redisVars, requestVars, queueVars, taken, heard, broken,
                     persists, aged, faults>>
  BY DEF ReadAndMatch
<1>2. taken \in JobIds /\ VesselOf(taken) \in Vessels
  BY <1>1, WorkerHasJob DEF IInv
<1>3. read' \in Profiles \cup {NoProfile} /\ check' \in Instants
  BY <1>1, <1>2 DEF IInv, TypeOK, Instants
<1>4. TypeOK'
  BY <1>1, <1>2, <1>3, Sentinels DEF IInv, TypeOK, Steps, dbVars, redisVars, requestVars, queueVars
<1>5. WorkerInv' /\ MarkersVouch' /\ RowAnnounced'
  BY <1>1 DEF IInv, WorkerInv, MarkersVouch, RowAnnounced, dbVars, redisVars
<1>6. QED
  BY <1>4, <1>5 DEF IInv

LEMMA ApplyKeeps ==
  ASSUME IInv, Apply
  PROVE  IInv'
<1> DEFINE v == VesselOf(taken)
           aging(f) == [f EXCEPT ![v] = IF @ = Stored THEN Earlier ELSE @]
<1>1. /\ step = "apply"
      /\ UNCHANGED <<profile, cached, requestVars, queueVars, taken, read, broken, persists,
                     aged, faults>>
  BY DEF Apply
<1>2. taken \in JobIds /\ v \in Vessels /\ taken # NoJob
  BY <1>1, WorkerHasJob, Sentinels DEF IInv
<1>3. CASE Stores(v) /\ step' = "publish"
  <2>1. /\ row' = [row EXCEPT ![v] = [profile |-> read, at |-> Stored]]
        /\ stale' = stale \ {v}
        /\ marker' = aging(marker) /\ heard' = aging(heard)
        /\ check' = Stored
    BY <1>3 DEF Stores
  <2>2. marker' \in [Vessels -> Instants] /\ heard' \in [Vessels -> Instants]
    BY <2>1 DEF IInv, TypeOK, Instants
  <2>3. row' \in [Vessels -> [profile : Profiles \cup {NoProfile}, at : {Never, Stored}]]
        /\ row'[v].profile = read /\ row'[v].at = Stored
        /\ \A u \in Vessels : u # v => row'[u] = row[u]
    BY <1>2, <2>1 DEF IInv, TypeOK
  <2>4. TypeOK'
    BY <1>1, <1>2, <1>3, <2>1, <2>2, <2>3 DEF IInv, TypeOK, Steps, Instants, requestVars, queueVars
  <2>5. WorkerInv'
    BY <1>1, <1>2, <1>3, <2>1, <2>3 DEF WorkerInv
  <2>6. MarkersVouch'
    BY <1>1, <1>3, <2>3 DEF IInv, MarkersVouch
  <2>7. RowAnnounced'
    <3>1. ASSUME NEW u \in Vessels, u # v
          PROVE  heard'[u] = heard[u] /\ row'[u] = row[u]
      BY <2>1, <2>3, <3>1 DEF IInv, TypeOK
    <3>2. heard'[v] <= Stored
      <4>1. heard[v] <= row[v].at /\ row[v].at \in {Never, Stored} /\ heard[v] \in Instants
        BY <1>2 DEF IInv, TypeOK, RowAnnounced
      <4>2. heard'[v] = IF heard[v] = Stored THEN Earlier ELSE heard[v]
        BY <1>2, <2>1 DEF IInv, TypeOK
      <4>3. QED
        BY <4>1, <4>2, Sentinels DEF Instants
    <3>3. QED
      BY <1>1, <1>3, <2>3, <3>1, <3>2 DEF IInv, RowAnnounced
  <2>8. QED
    BY <2>4, <2>5, <2>6, <2>7 DEF IInv
<1>4. CASE step' = "complete" /\ UNCHANGED <<row, stale, marker, heard, check>>
  <2>1. TypeOK'
    BY <1>1, <1>2, <1>4 DEF IInv, TypeOK, Steps, requestVars, queueVars
  <2>2. WorkerInv' /\ MarkersVouch' /\ RowAnnounced'
    BY <1>1, <1>4 DEF IInv, WorkerInv, MarkersVouch, RowAnnounced
  <2>3. QED
    BY <2>1, <2>2 DEF IInv
<1>5. QED
  BY <1>3, <1>4 DEF Apply

LEMMA PublishEnrichedKeeps ==
  ASSUME IInv, PublishEnriched
  PROVE  IInv'
<1> DEFINE v == VesselOf(taken)
<1>1. /\ step = "publish" /\ step' = "setprofile"
      /\ heard' = [heard EXCEPT ![v] = check]
      /\ UNCHANGED <<dbVars, redisVars, requestVars, queueVars, taken, read, check, broken,
                     persists, aged, faults>>
  BY DEF PublishEnriched
<1>2. taken \in JobIds /\ v \in Vessels /\ taken # NoJob
  BY <1>1, WorkerHasJob, Sentinels DEF IInv
<1>3. check = Stored /\ row[v].at = Stored /\ row[v].profile = read
  BY <1>1 DEF IInv, WorkerInv
<1>4. heard' \in [Vessels -> Instants] /\ heard'[v] = Stored
      /\ \A u \in Vessels : u # v => heard'[u] = heard[u]
  BY <1>1, <1>2, <1>3 DEF IInv, TypeOK, Instants
<1>5. TypeOK'
  BY <1>1, <1>2, <1>4 DEF IInv, TypeOK, Steps, dbVars, redisVars, requestVars, queueVars
<1>6. WorkerInv' /\ MarkersVouch'
  BY <1>1, <1>3, <1>4 DEF IInv, WorkerInv, MarkersVouch, dbVars, redisVars
<1>7. RowAnnounced'
  BY <1>1, <1>2, <1>3, <1>4, Sentinels DEF IInv, RowAnnounced, dbVars
<1>8. QED
  BY <1>5, <1>6, <1>7 DEF IInv

LEMMA SetProfileKeeps ==
  ASSUME IInv, SetProfile
  PROVE  IInv'
<1> DEFINE v == VesselOf(taken)
<1>1. /\ step = "setprofile" /\ step' = "setchecked"
      /\ cached' = [cached EXCEPT ![v] = read]
      /\ UNCHANGED <<dbVars, marker, requestVars, queueVars, taken, read, check, histVars>>
  BY DEF SetProfile
<1>2. taken \in JobIds /\ v \in Vessels /\ taken # NoJob
  BY <1>1, WorkerHasJob, Sentinels DEF IInv
<1>3. check = Stored /\ row[v].at = Stored /\ row[v].profile = read /\ heard[v] = Stored
  BY <1>1 DEF IInv, WorkerInv
<1>4. cached' \in [Vessels -> Profiles \cup {NoProfile}] /\ cached'[v] = read
      /\ \A u \in Vessels : u # v => cached'[u] = cached[u]
  BY <1>1, <1>2 DEF IInv, TypeOK
<1>5. TypeOK'
  BY <1>1, <1>2, <1>4 DEF IInv, TypeOK, Steps, dbVars, requestVars, queueVars, histVars
<1>6. WorkerInv' /\ MarkersVouch'
  BY <1>1, <1>2, <1>3, <1>4 DEF IInv, WorkerInv, MarkersVouch, dbVars, histVars
<1>7. RowAnnounced'
  BY <1>1 DEF IInv, RowAnnounced, dbVars, histVars
<1>8. QED
  BY <1>5, <1>6, <1>7 DEF IInv

LEMMA SetCheckedKeeps ==
  ASSUME IInv, SetChecked
  PROVE  IInv'
<1> DEFINE v == VesselOf(taken)
<1>1. /\ step = "setchecked" /\ step' = "complete"
      /\ marker' = [marker EXCEPT ![v] = check]
      /\ broken' = broken \ {v}
      /\ UNCHANGED <<dbVars, cached, requestVars, queueVars, taken, read, check, heard,
                     persists, aged, faults>>
  BY DEF SetChecked
<1>2. taken \in JobIds /\ v \in Vessels /\ taken # NoJob
  BY <1>1, WorkerHasJob, Sentinels DEF IInv
<1>3. row[v].at = Stored /\ row[v].profile = read /\ heard[v] = Stored /\ cached[v] = read
  BY <1>1 DEF IInv, WorkerInv
<1>4. TypeOK'
  BY <1>1, <1>2 DEF IInv, TypeOK, Steps, dbVars, requestVars, queueVars
<1>5. WorkerInv'
  BY <1>1 DEF WorkerInv
<1>6. MarkersVouch'
  BY <1>1, <1>3 DEF IInv, MarkersVouch, dbVars
<1>7. RowAnnounced'
  BY <1>1, <1>3, Sentinels DEF IInv, RowAnnounced, dbVars
<1>8. QED
  BY <1>4, <1>5, <1>6, <1>7 DEF IInv

\* The job is over: completed, or failed for good.
LEMMA FinishTyped ==
  ASSUME TypeOK, step # "free", Finish
  PROVE  /\ job' \in [JobIds -> JobStates]
         /\ \A i \in JobIds : (job'[i] = "active") <=> (taken' = i)
         /\ step' = "free" /\ taken' = NoJob /\ read' = NoProfile /\ check' = Never
         /\ tries' \in [JobIds -> 0..Attempts] /\ stalled' \subseteq JobIds
<1>1. Release /\ job' = [job EXCEPT ![taken] = "finished"]
  BY DEF Finish
<1>2. tries' \in [JobIds -> 0..Attempts] /\ stalled' \subseteq JobIds
  BY EnrichmentFacts DEF Finish, TypeOK
<1>3. QED
  BY <1>1, <1>2, JobLeaves

LEMMA CompleteKeeps ==
  ASSUME IInv, Complete
  PROVE  IInv'
<1>1. step = "complete" /\ Finish /\ UNCHANGED <<dbVars, redisVars, requestVars, histVars>>
  BY DEF Complete
<1>2. TypeOK'
  BY <1>1, FinishTyped DEF IInv, TypeOK, Steps, Instants, dbVars, redisVars, requestVars, histVars
<1>3. step' = "free" /\ taken' = NoJob
  BY <1>1 DEF Finish, Release
<1>4. QED
  BY <1>1, <1>2, <1>3, JobEnds DEF dbVars, redisVars, histVars

LEMMA FailAttemptKeeps ==
  ASSUME IInv, FailAttempt
  PROVE  IInv'
<1>1. /\ step # "free" /\ broken' = Broken /\ Fault
      /\ UNCHANGED <<dbVars, redisVars, requestVars, heard, persists, aged>>
  BY DEF FailAttempt
<1>2. faults' \in 0..MaxFaults
  BY <1>1, EnrichmentFacts DEF IInv, TypeOK, Fault
<1>3. taken \in JobIds /\ VesselOf(taken) \in Vessels
  BY <1>1, WorkerHasJob DEF IInv
<1>4. broken' \subseteq Vessels
  BY <1>1, <1>3 DEF IInv, TypeOK, Broken
<1>5. /\ job' \in [JobIds -> JobStates]
      /\ \A i \in JobIds : (job'[i] = "active") <=> (taken' = i)
      /\ step' = "free" /\ taken' = NoJob /\ read' = NoProfile /\ check' = Never
      /\ tries' \in [JobIds -> 0..Attempts] /\ stalled' \subseteq JobIds
  <2>1. CASE /\ tries[taken] + 1 < Attempts /\ Again
             /\ tries' = [tries EXCEPT ![taken] = @ + 1] /\ UNCHANGED stalled
    <3>1. tries' \in [JobIds -> 0..Attempts] /\ stalled' \subseteq JobIds
      BY <1>3, <2>1, EnrichmentFacts DEF IInv, TypeOK
    <3>2. Release /\ job' = [job EXCEPT ![taken] = "waiting"]
      BY <2>1 DEF Again
    <3>3. QED
      BY <1>1, <3>1, <3>2, JobLeaves DEF IInv
  <2>2. CASE Finish
    BY <1>1, <2>2, FinishTyped DEF IInv
  <2>3. QED
    BY <2>1, <2>2 DEF FailAttempt
<1>6. TypeOK'
  BY <1>1, <1>2, <1>4, <1>5 DEF IInv, TypeOK, Steps, Instants, dbVars, redisVars, requestVars
<1>7. QED
  BY <1>1, <1>5, <1>6, JobEnds DEF dbVars, redisVars

LEMMA CrashKeeps ==
  ASSUME IInv, Crash
  PROVE  IInv'
<1>1. /\ Fault /\ broken' = Broken
      /\ request' = [r \in Requesters |-> NoRequest] /\ trigger' = [r \in Requesters |-> "none"]
      /\ todo' = {}
      /\ UNCHANGED <<dbVars, redisVars, notices, heard, persists, aged>>
  BY DEF Crash
<1>2. faults' \in 0..MaxFaults
  BY <1>1, EnrichmentFacts DEF IInv, TypeOK, Fault
<1>3. CASE step = "free" /\ UNCHANGED <<queueVars, workerVars>>
  <2>1. broken' = broken
    BY <1>1, <1>3 DEF Broken
  <2>2. TypeOK'
    BY <1>1, <1>2, <1>3, <2>1 DEF IInv, TypeOK, dbVars, redisVars, queueVars, workerVars
  <2>3. QED
    BY <1>1, <1>3, <2>1, <2>2, OutsideWorker DEF dbVars, redisVars
<1>4. CASE step # "free"
  <2>1. taken \in JobIds /\ VesselOf(taken) \in Vessels
    BY <1>4, WorkerHasJob DEF IInv
  <2>2. broken' \subseteq Vessels
    BY <1>1, <2>1 DEF IInv, TypeOK, Broken
  <2>3. /\ job' \in [JobIds -> JobStates]
        /\ \A i \in JobIds : (job'[i] = "active") <=> (taken' = i)
        /\ step' = "free" /\ taken' = NoJob /\ read' = NoProfile /\ check' = Never
        /\ tries' \in [JobIds -> 0..Attempts] /\ stalled' \subseteq JobIds
    <3>1. CASE Again /\ stalled' = stalled \cup {taken} /\ UNCHANGED tries
      BY <1>4, <2>1, <3>1, JobLeaves DEF IInv, TypeOK, Again
    <3>2. CASE Finish
      BY <1>4, <3>2, FinishTyped DEF IInv
    <3>3. QED
      BY <1>4, <3>1, <3>2 DEF Crash
  <2>4. TypeOK'
    BY <1>1, <1>2, <2>2, <2>3 DEF IInv, TypeOK, Steps, Instants, dbVars, redisVars
  <2>5. QED
    BY <1>1, <1>4, <2>3, <2>4, JobEnds DEF dbVars, redisVars
<1>5. QED
  BY <1>3, <1>4 DEF Crash

-----------------------------------------------------------------------------
(***************************************************************************)
(* The theorems.                                                           *)
(***************************************************************************)

LEMMA InitVouches ==
  ASSUME Init
  PROVE  IInv
<1>1. TypeOK
  BY EnrichmentFacts, Sentinels DEF Init, TypeOK, Instants, JobStates, Steps, Triggers
<1>2. WorkerInv /\ MarkersVouch
  BY DEF Init, WorkerInv, MarkersVouch
<1>3. RowAnnounced
  BY DEF Init, RowAnnounced, Never
<1>4. QED
  BY <1>1, <1>2, <1>3 DEF IInv

LEMMA NextVouches ==
  ASSUME IInv, [Next]_vars
  PROVE  IInv'
<1>1. CASE \E v \in Vessels :
             \/ \E p \in Profiles : Persist(v, p)
             \/ BecomesStale(v) \/ MarkerExpires(v)
  BY <1>1, PersistKeeps, BecomesStaleKeeps, MarkerExpiresKeeps
<1>2. CASE Consume
  <2>1. PICK q \in notices : Begin("consumer", q) /\ UNCHANGED <<notices, todo>>
    BY <1>2 DEF Consume
  <2>2. q \in Requests /\ "consumer" \in Requesters
    BY DEF IInv, TypeOK, Requesters
  <2>3. QED
    BY <2>1, <2>2, BeginKeeps
<1>3. CASE Reconcile
  <2>1. PICK q \in todo : Begin("reconciler", q) /\ todo' = todo \ {q} /\ UNCHANGED notices
    BY <1>3 DEF Reconcile
  <2>2. q \in Requests /\ "reconciler" \in Requesters
    BY DEF IInv, TypeOK, Requesters
  <2>3. QED
    BY <2>1, <2>2, BeginKeeps
<1>4. CASE \E r \in Requesters : Decide(r) \/ Enqueue(r) \/ EnqueueForgotten(r)
  BY <1>4, DecideKeeps, EnqueueKeeps
<1>5. CASE Worker
  BY <1>5, TakeKeeps, ReadAndMatchKeeps, ApplyKeeps, PublishEnrichedKeeps, SetProfileKeeps,
     SetCheckedKeeps, CompleteKeeps DEF Worker
<1>6. CASE UNCHANGED vars
  <2>1. TypeOK'
    BY <1>6 DEF IInv, TypeOK, vars, dbVars, redisVars, requestVars, queueVars, workerVars, histVars
  <2>2. QED
    BY <1>6, <2>1, OutsideWorker DEF vars, dbVars, redisVars, histVars
<1>7. QED
  BY <1>1, <1>2, <1>3, <1>4, <1>5, <1>6, ScanKeeps, FailAttemptKeeps, CrashKeeps DEF Next

\* The inductive invariant holds of every behaviour.
THEOREM EnrichmentInvariant == Spec => []IInv
<1>1. Init => IInv
  BY InitVouches
<1>2. IInv /\ [Next]_vars => IInv'
  BY NextVouches
<1>3. QED
  BY <1>1, <1>2, PTL DEF Spec

\* Requests, jobs and markers keep their types, and the worker has a job exactly while
\* BullMQ has one active.
THEOREM EnrichmentTypes == Spec => []TypeOK
<1>1. IInv => TypeOK
  BY DEF IInv
<1>2. QED
  BY <1>1, EnrichmentInvariant, PTL

\* enrich:profile names the profile the stored result was computed from, unless a check was
\* cut short, whichever profile changes and failures interleave with the worker's awaits.
THEOREM MarkersAlwaysVouch == Spec => []MarkersVouch
<1>1. IInv => MarkersVouch
  BY DEF IInv
<1>2. QED
  BY <1>1, EnrichmentInvariant, PTL

\* vessel.enriched never runs ahead of the database, and lags only while it is about to be
\* published or after a check was cut short.
THEOREM RowsAreAnnounced == Spec => []RowAnnounced
<1>1. IInv => RowAnnounced
  BY DEF IInv
<1>2. QED
  BY <1>1, EnrichmentInvariant, PTL
=============================================================================
