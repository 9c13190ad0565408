----------------------------- MODULE Enrichment -----------------------------
(***************************************************************************)
(* Vessel enrichment: the requester, called by the consumer of             *)
(* vessel.persisted.v1 and by the reconciler, the BullMQ queue, and the    *)
(* worker that checks a vessel against the sanctions list                  *)
(* (VesselEnrichmentRequester, VesselEnrichmentReconciler,                 *)
(* EnrichmentProcessor, EnrichmentRepository).                             *)
(*                                                                         *)
(* One process runs one worker (concurrency 1); the three activities       *)
(* interleave at their awaits.  A profile is what profileHashFor tells     *)
(* apart.  A checkedAt is kept relative to the one in the vessel's row:    *)
(* that is all a comparison can see.  Vessels are never deleted, so a job  *)
(* always resolves its vessel.                                             *)
(***************************************************************************)
EXTENDS Integers, FiniteSets

CONSTANTS Vessels,
          Profiles,     \* hashes of (imo, name)
          NoProfile,    \* no row, or no key
          BatchSize,    \* ENRICHMENT_RECONCILIATION_BATCH_SIZE
          Attempts,     \* ENRICHMENT_JOB_ATTEMPTS
          MaxPersists,  \* bound: writes of the storage writer
          MaxStale,     \* bound: results that reach the staleness age
          MaxFaults     \* bound: failed commands, lost notices, crashes

ASSUME EnrichmentAssumption ==
  /\ NoProfile \notin Profiles
  /\ BatchSize \in Nat \ {0}
  /\ Attempts \in Nat \ {0}
  /\ MaxPersists \in Nat /\ MaxStale \in Nat /\ MaxFaults \in Nat

Triggers == {"discovered", "profile_changed", "stale"}

\* jobId: enrich.<vessel>.<trigger>.<hash>.
JobIds == Vessels \X Triggers \X Profiles
VesselOf(j) == j[1]
NoJob == <<>>

\* A finished job, completed or failed, stays in BullMQ until 200 newer ones have ended
\* the same way.
JobStates == {"none", "waiting", "active", "finished"}

\* The instants of checks, in order: none, before the row's, the row's, after the row's.
Never == 0
Earlier == 1
Stored == 2
Later == 3
Instants == {Never, Earlier, Stored, Later}

Requesters == {"consumer", "reconciler"}
Requests == [vessel : Vessels, profile : Profiles]
NoRequest == [vessel |-> "none"]

\* The awaits of process(), and the worker between two jobs.
Steps == {"free", "read", "apply", "publish", "setprofile", "setchecked", "complete"}

VARIABLES
  profile,   \* per vessel: the profile in table vessels
  row,       \* per vessel: the profile its check read, and sanctions_checked_at
  stale,     \* vessels whose check is past ENRICHMENT_STALENESS_SECONDS
  cached,    \* per vessel: enrich:profile
  marker,    \* per vessel: the checkedAt in enrich:checked, Never without the key
  notices,   \* vessel.persisted events not yet acknowledged
  request,   \* per requester: the request it is in
  trigger,   \* per requester: what decide returned, "none" before
  todo,      \* the rest of the reconciler's batch
  job, tries, stalled,  \* BullMQ: per job, its state, failed attempts, and who stalled once
  step, taken, read, check,  \* the worker: where it is, its job, what it read, checkedAt
  heard,     \* history: per vessel, the checkedAt last published as vessel.enriched
  broken,    \* history: vessels with a check that failed between its write and its end
  persists, aged, faults  \* counters

dbVars == <<profile, row, stale>>
redisVars == <<cached, marker>>
requestVars == <<notices, request, trigger, todo>>
queueVars == <<job, tries, stalled>>
workerVars == <<step, taken, read, check>>
histVars == <<heard, broken, persists, aged, faults>>
vars == <<dbVars, redisVars, requestVars, queueVars, workerVars, histVars>>

TypeOK ==
  /\ profile \in [Vessels -> Profiles \cup {NoProfile}]
  /\ row \in [Vessels -> [profile : Profiles \cup {NoProfile}, at : {Never, Stored}]]
  /\ stale \subseteq Vessels
  /\ cached \in [Vessels -> Profiles \cup {NoProfile}]
  /\ marker \in [Vessels -> Instants]
  /\ notices \subseteq Requests
  /\ request \in [Requesters -> Requests \cup {NoRequest}]
  /\ trigger \in [Requesters -> Triggers \cup {"none"}]
  /\ todo \subseteq Requests
  /\ job \in [JobIds -> JobStates]
  /\ tries \in [JobIds -> 0..Attempts]
  /\ stalled \subseteq JobIds
  /\ step \in Steps
  /\ taken \in JobIds \cup {NoJob}
  /\ read \in Profiles \cup {NoProfile}
  /\ check \in Instants
  /\ heard \in [Vessels -> Instants]
  /\ broken \subseteq Vessels
  /\ persists \in 0..MaxPersists /\ aged \in 0..MaxStale /\ faults \in 0..MaxFaults
  /\ (step = "free") <=> (taken = NoJob)
  /\ \A j \in JobIds : (job[j] = "active") <=> (taken = j)

Init ==
  /\ profile = [v \in Vessels |-> NoProfile]
  /\ row = [v \in Vessels |-> [profile |-> NoProfile, at |-> Never]]
  /\ stale = {}
  /\ cached = [v \in Vessels |-> NoProfile]
  /\ marker = [v \in Vessels |-> Never]
  /\ notices = {}
  /\ request = [r \in Requesters |-> NoRequest]
  /\ trigger = [r \in Requesters |-> "none"]
  /\ todo = {}
  /\ job = [j \in JobIds |-> "none"]
  /\ tries = [j \in JobIds |-> 0]
  /\ stalled = {}
  /\ step = "free" /\ taken = NoJob /\ read = NoProfile /\ check = Never
  /\ heard = [v \in Vessels |-> Never]
  /\ broken = {}
  /\ persists = 0 /\ aged = 0 /\ faults = 0

Fault == faults < MaxFaults /\ faults' = faults + 1

-----------------------------------------------------------------------------
(* The rest of the system.                                                 *)

\* The storage writer commits a vessel's profile and publishes vessel.persisted.v1; a
\* failed publish is swallowed.
Persist(v, p) ==
  /\ persists < MaxPersists
  /\ persists' = persists + 1
  /\ profile' = [profile EXCEPT ![v] = p]
  /\ \/ notices' = notices \cup {[vessel |-> v, profile |-> p]} /\ UNCHANGED faults
     \/ Fault /\ UNCHANGED notices
  /\ UNCHANGED <<row, stale, redisVars, request, trigger, todo, queueVars, workerVars,
                 heard, broken, aged>>

\* The check in the row is now older than the staleness.
BecomesStale(v) ==
  /\ row[v].at # Never
  /\ v \notin stale
  /\ aged < MaxStale
  /\ aged' = aged + 1
  /\ stale' = stale \cup {v}
  /\ UNCHANGED <<profile, row, redisVars, requestVars, queueVars, workerVars,
                 heard, broken, persists, faults>>

\* The checked key expires, as old as the check it was set for and a little more.
MarkerExpires(v) ==
  /\ marker[v] # Never
  /\ marker[v] < row[v].at \/ v \in stale
  /\ marker' = [marker EXCEPT ![v] = Never]
  /\ UNCHANGED <<dbVars, cached, requestVars, queueVars, workerVars, histVars>>

-----------------------------------------------------------------------------
(* The requester and its callers.                                          *)

Begin(r, q) ==
  /\ request[r] = NoRequest
  /\ request' = [request EXCEPT ![r] = q]
  /\ UNCHANGED <<dbVars, redisVars, trigger, queueVars, workerVars, histVars>>

\* VesselPersistedConsumer.handle.
Consume == \E q \in notices : Begin("consumer", q) /\ UNCHANGED <<notices, todo>>

\* Mutant: a scan for vessels that were never checked.
NeverChecked(v) == profile[v] # NoProfile /\ row[v].at = Never

\* sanctions_checked_at is null or before the staleness limit.
NeedsCheck(v) == profile[v] # NoProfile /\ (row[v].at = Never \/ v \in stale)

\* findVesselsNeedingEnrichment: the longest unchecked first, up to the batch size.
Batches ==
  LET due == {v \in Vessels : NeedsCheck(v)} IN
  {b \in SUBSET due :
     /\ Cardinality(b) <= BatchSize
     /\ b = due \/ Cardinality(b) = BatchSize
     /\ \A v \in b : \A u \in due \ b : row[v].at <= row[u].at}

\* A tick of the reconciler selects its batch, unless the last one is not done.
Scan ==
  /\ request["reconciler"] = NoRequest
  /\ todo = {}
  /\ \E b \in Batches : todo' = {[vessel |-> v, profile |-> profile[v]] : v \in b}
  /\ todo' # {}
  /\ UNCHANGED <<dbVars, redisVars, notices, request, trigger, queueVars, workerVars,
                 histVars>>

Reconcile ==
  \E q \in todo :
    /\ Begin("reconciler", q)
    /\ todo' = todo \ {q}
    /\ UNCHANGED notices

\* request() returned; the consumer's entry is acknowledged.
Return(r) ==
  /\ request' = [request EXCEPT ![r] = NoRequest]
  /\ trigger' = [trigger EXCEPT ![r] = "none"]
  /\ notices' = IF r = "consumer" THEN notices \ {request[r]} ELSE notices
  /\ UNCHANGED todo

\* request() rejected: the consumer's entry stays pending, the reconciler goes on.
Reject(r) ==
  /\ request' = [request EXCEPT ![r] = NoRequest]
  /\ trigger' = [trigger EXCEPT ![r] = "none"]
  /\ UNCHANGED <<notices, todo>>

\* decide returned null: nothing to enqueue.
Fresh(v, p) == cached[v] = p /\ marker[v] # Never

Decision(v, p) ==
  IF cached[v] = NoProfile THEN "discovered"
  ELSE IF cached[v] # p THEN "profile_changed"
  ELSE "stale"

\* The two GETs go out together on the connection the worker shares.
Decide(r) ==
  LET q == request[r] IN
  /\ q # NoRequest
  /\ trigger[r] = "none"
  /\ \/ Fresh(q.vessel, q.profile) /\ Return(r) /\ UNCHANGED faults
     \/ /\ ~Fresh(q.vessel, q.profile)
        /\ trigger' = [trigger EXCEPT ![r] = Decision(q.vessel, q.profile)]
        /\ UNCHANGED <<notices, request, todo, faults>>
     \/ Reject(r) /\ Fault
  /\ UNCHANGED <<dbVars, redisVars, queueVars, workerVars, heard, broken, persists,
                 aged>>

\* queue.add does nothing when it knows a job of that id, finished or not.
Enqueue(r) ==
  LET q == request[r]
      j == <<q.vessel, trigger[r], q.profile>>
      added == IF job[j] = "none" THEN [job EXCEPT ![j] = "waiting"] ELSE job IN
  /\ q # NoRequest
  /\ trigger[r] # "none"
  /\ \/ job' = added /\ Return(r) /\ UNCHANGED faults
     \/ job' \in {job, added} /\ Reject(r) /\ Fault
  /\ UNCHANGED <<dbVars, redisVars, tries, stalled, workerVars, heard, broken, persists,
                 aged>>

\* The same when 200 other jobs have finished since and BullMQ has removed the old one.
EnqueueForgotten(r) ==
  LET q == request[r]
      j == <<q.vessel, trigger[r], q.profile>> IN
  /\ q # NoRequest
  /\ trigger[r] # "none"
  /\ job[j] = "finished"
  /\ job' = [job EXCEPT ![j] = "waiting"]
  /\ Return(r)
  /\ UNCHANGED <<dbVars, redisVars, tries, stalled, workerVars, histVars>>

-----------------------------------------------------------------------------
(* The worker.                                                             *)

\* Mutant: a worker that does not drop the job it had.
ReleaseKeepingJob ==
  step' = "free" /\ read' = NoProfile /\ check' = Never /\ UNCHANGED taken

\* The worker lets go of its job.
Release == step' = "free" /\ taken' = NoJob /\ read' = NoProfile /\ check' = Never

\* The job is over, completed or failed.
Finish ==
  /\ Release
  /\ job' = [job EXCEPT ![taken] = "finished"]
  /\ tries' = [tries EXCEPT ![taken] = 0]
  /\ stalled' = stalled \ {taken}

Again == Release /\ job' = [job EXCEPT ![taken] = "waiting"]

Take ==
  /\ step = "free"
  /\ \E j \in JobIds :
       /\ job[j] = "waiting"
       /\ job' = [job EXCEPT ![j] = "active"]
       /\ taken' = j
  /\ step' = "read"
  /\ UNCHANGED <<dbVars, redisVars, requestVars, tries, stalled, read, check, histVars>>

\* process() reads the vessel as it is now, matches it and looks at the clock, which may
\* still show the instant of the vessel's last check.
ReadAndMatch ==
  LET v == VesselOf(taken) IN
  /\ step = "read"
  /\ read' = profile[v]
  /\ \/ check' = Later
     \/ row[v].at = Stored /\ v \notin stale /\ check' = Stored
  /\ step' = "apply"
  /\ UNCHANGED <<dbVars, redisVars, requestVars, queueVars, taken, heard, broken,
                 persists, aged, faults>>

\* A new check is stored: what was stored is earlier now.
Stores(v) ==
  LET aging(f) == [f EXCEPT ![v] = IF @ = Stored THEN Earlier ELSE @] IN
  /\ row' = [row EXCEPT ![v] = [profile |-> read, at |-> Stored]]
  /\ stale' = stale \ {v}
  /\ marker' = aging(marker)
  /\ heard' = aging(heard)
  /\ check' = Stored

\* Mutant: an update that is not announced.
ApplyQuietly ==
  /\ step = "apply"
  /\ Stores(VesselOf(taken))
  /\ step' = "setprofile"
  /\ UNCHANGED <<profile, cached, requestVars, queueVars, taken, read, broken, persists,
                 aged, faults>>

\* applyEnrichment: an update guarded by sanctions_checked_at; without it the job is over.
Apply ==
  LET v == VesselOf(taken) IN
  /\ step = "apply"
  /\ \/ row[v].at < check /\ Stores(v) /\ step' = "publish"
     \/ row[v].at >= check /\ step' = "complete" /\ UNCHANGED <<row, stale, marker, heard, check>>
  /\ UNCHANGED <<profile, cached, requestVars, queueVars, taken, read, broken, persists,
                 aged, faults>>

PublishEnriched ==
  /\ step = "publish"
  /\ heard' = [heard EXCEPT ![VesselOf(taken)] = check]
  /\ step' = "setprofile"
  /\ UNCHANGED <<dbVars, redisVars, requestVars, queueVars, taken, read, check,
                 broken, persists, aged, faults>>

\* Mutant: the hash of the job's request is cached instead of the one that was checked.
SetProfileOfJob ==
  /\ step = "setprofile"
  /\ cached' = [cached EXCEPT ![VesselOf(taken)] = taken[3]]
  /\ step' = "setchecked"
  /\ UNCHANGED <<dbVars, marker, requestVars, queueVars, taken, read, check, histVars>>

SetProfile ==
  /\ step = "setprofile"
  /\ cached' = [cached EXCEPT ![VesselOf(taken)] = read]
  /\ step' = "setchecked"
  /\ UNCHANGED <<dbVars, marker, requestVars, queueVars, taken, read, check, histVars>>

SetChecked ==
  /\ step = "setchecked"
  /\ marker' = [marker EXCEPT ![VesselOf(taken)] = check]
  /\ broken' = broken \ {VesselOf(taken)}
  /\ step' = "complete"
  /\ UNCHANGED <<dbVars, cached, requestVars, queueVars, taken, read, check, heard,
                 persists, aged, faults>>

Complete ==
  /\ step = "complete"
  /\ Finish
  /\ UNCHANGED <<dbVars, redisVars, requestVars, histVars>>

\* What a worker leaves behind that ends between its write and its last marker.
Broken == IF step \in {"publish", "setprofile", "setchecked"}
            THEN broken \cup {VesselOf(taken)} ELSE broken

\* process() rejects, in any of its awaits: BullMQ retries after a backoff, until the
\* attempts are used up.
FailAttempt ==
  /\ step \notin {"free", "complete"}
  /\ Fault
  /\ \/ tries[taken] + 1 < Attempts /\ Again /\ tries' = [tries EXCEPT ![taken] = @ + 1]
                                   /\ UNCHANGED stalled
     \/ tries[taken] + 1 >= Attempts /\ Finish
  /\ broken' = Broken
  /\ UNCHANGED <<dbVars, redisVars, requestVars, heard, persists, aged>>

\* The process dies.  Its job is found stalled: run again the first time, failed the
\* second.
Crash ==
  /\ Fault
  /\ request' = [r \in Requesters |-> NoRequest]
  /\ trigger' = [r \in Requesters |-> "none"]
  /\ todo' = {}
  /\ \/ step = "free" /\ UNCHANGED <<queueVars, workerVars>>
     \/ /\ step # "free" /\ taken \notin stalled
        /\ Again /\ stalled' = stalled \cup {taken} /\ UNCHANGED tries
     \/ step # "free" /\ taken \in stalled /\ Finish
  /\ broken' = Broken
  /\ UNCHANGED <<dbVars, redisVars, notices, heard, persists, aged>>

Worker ==
  \/ Take \/ ReadAndMatch \/ Apply \/ PublishEnriched \/ SetProfile \/ SetChecked
  \/ Complete

Next ==
  \/ \E v \in Vessels :
       \/ \E p \in Profiles : Persist(v, p)
       \/ BecomesStale(v) \/ MarkerExpires(v)
  \/ Consume \/ Scan \/ Reconcile
  \/ \E r \in Requesters : Decide(r) \/ Enqueue(r) \/ EnqueueForgotten(r)
  \/ Worker \/ FailAttempt \/ Crash

Spec == Init /\ [][Next]_vars

\* The event loop runs what is ready, the reconciler ticks, keys expire.
FairSpec ==
  /\ Spec
  /\ WF_vars(Consume) /\ WF_vars(Scan) /\ WF_vars(Reconcile) /\ WF_vars(Worker)
  /\ \A r \in Requesters : WF_vars(Decide(r)) /\ WF_vars(Enqueue(r))
  /\ \A v \in Vessels : WF_vars(MarkerExpires(v))

\* Besides, other vessels are enriched, and fail, all the time: a request repeated for
\* ever is made at last when BullMQ has removed the finished job of its id.
BusySpec == FairSpec /\ \A r \in Requesters : SF_vars(EnqueueForgotten(r))

-----------------------------------------------------------------------------
(* Correctness.                                                            *)

\* What the requester believes is what the database holds: the cached profile is the one
\* the stored result was computed from, through profile changes under way and requests
\* for older profiles, unless a check ended between its write and its markers.
MarkersVouch ==
  \A v \in Vessels :
    cached[v] # row[v].profile =>
      \/ v \in broken
      \/ step \in {"publish", "setprofile"} /\ VesselOf(taken) = v

\* Clients never hear of a result the database does not hold yet, and a result they did
\* not hear of is about to be published or belongs to a check that was cut short.
RowAnnounced ==
  \A v \in Vessels :
    /\ heard[v] <= row[v].at
    /\ heard[v] < row[v].at =>
         v \in broken \/ (step = "publish" /\ VesselOf(taken) = v)

\* Lost notices, failed attempts, crashes, markers that outlive a result and requests for
\* outdated profiles notwithstanding, an unchecked or stale vessel is checked in the
\* end (the reconciler), if finished jobs make room for new ones.
EveryVesselChecked ==
  \A v \in Vessels :
    (profile[v] # NoProfile /\ (row[v].at = Never \/ v \in stale))
      ~> (row[v].at = Stored /\ v \notin stale)

\* sanctions-enrichment.md: the reconciler "helps recover from [...] enrichment jobs
\* that failed before a fresh state was written".  The failed job keeps its id, which is
\* the id of every later request, and nothing is enqueued.
FailedJobsRecovered ==
  \A v \in Vessels : (profile[v] # NoProfile) ~> (row[v].at = Stored)
=============================================================================
