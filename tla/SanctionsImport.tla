--------------------------- MODULE SanctionsImport ---------------------------
(***************************************************************************)
(* The import of the sanctions list (src/enrichment/sanctions).  Every     *)
(* process runs one worker of the sanctions.import queue.  A job takes the *)
(* source's advisory lock on a reserved connection, starts a run, fetches  *)
(* the list, upserts its vessels batch by batch, and finishes the run; all *)
(* but the lock goes through other connections of the pool.  Processes     *)
(* crash, BullMQ runs a stalled job again, the lock's connection may be    *)
(* lost under a running import, and every statement may fail.              *)
(***************************************************************************)
EXTENDS Naturals, Sequences, FiniteSets, FiniteSetsExt

CONSTANTS Workers,
          Entities,
          Published,   \* the lists the source publishes, in turn: sets of entities
          BatchSize,   \* SANCTIONS_IMPORT_BATCH_SIZE
          NoSession,
          Ghost,       \* the session of a process that is gone, not yet closed by PostgreSQL
          MaxFaults    \* bound: crashes, stalls, lost connections, failed steps

\* A document without an sdnList: read as a list, numbered 0, without a vessel.
VesselsOf(n) == IF n = 0 THEN {} ELSE Published[n]
Lists == DOMAIN Published

SanctionsImportAssumption ==
  /\ IsFiniteSet(Entities)
  /\ Published \in Seq(SUBSET Entities) /\ Published # <<>>
  /\ BatchSize \in Nat \ {0}
  /\ NoSession \notin Workers /\ Ghost \notin Workers \cup {NoSession}
  /\ MaxFaults \in Nat

\* A bootstrap job has a fixed id; the jobs of the cron pattern and of operators have one each.
Jobs == {"bootstrap", "import"}

VARIABLES
  current,    \* the list the source serves
  worker,     \* per process: the state of its worker
  scheduled,  \* the repeatable job is in Redis
  waiting,    \* jobs in the queue
  orphans,    \* jobs of crashed or stalled workers that BullMQ still counts as active
  holder,     \* the session with the advisory lock
  table,      \* sanctioned_entities: per entity the list its row is from, 0 without a row
  log,        \* sanctions_import_runs: rows no worker is going to change
  lockLost,   \* history: a running import has lost its lock
  faults      \* counter

vars == <<current, worker, scheduled, waiting, orphans, holder, table, log, lockLost, faults>>

Body == {"start", "fetch", "load", "fail", "unlock"}
WorkerStates ==
  [pc : {"down", "idle"} \cup Body, job : Jobs, list : {0} \cup Lists, left : SUBSET Entities]
Fresh(pc) == [pc |-> pc, job |-> "import", list |-> 0, left |-> {}]
RunRows == [status : {"running", "completed", "failed"}, list : {0} \cup Lists,
            records : 0..Cardinality(Entities)]

TypeOK ==
  /\ current \in Lists
  /\ worker \in [Workers -> WorkerStates]
  /\ scheduled \in BOOLEAN
  /\ waiting \subseteq Jobs /\ orphans \subseteq Jobs
  /\ holder \in Workers \cup {NoSession, Ghost}
  /\ table \in [Entities -> {0} \cup Lists]
  /\ log \subseteq RunRows
  /\ lockLost \in BOOLEAN /\ faults \in 0..MaxFaults

Init ==
  /\ current = 1
  /\ worker = [w \in Workers |-> Fresh("down")]
  /\ scheduled = FALSE
  /\ waiting = {} /\ orphans = {}
  /\ holder = NoSession
  /\ table = [e \in Entities |-> 0]
  /\ log = {}
  /\ lockLost = FALSE /\ faults = 0

Fault == faults < MaxFaults /\ faults' = faults + 1
Goto(w, pc) == worker' = [worker EXCEPT ![w].pc = pc]

\* The row of the worker's run, as it is left in the table.
Row(w, status) == [status |-> status, list |-> worker[w].list,
                   records |-> Cardinality(VesselsOf(worker[w].list) \ worker[w].left)]

-----------------------------------------------------------------------------
(* The queue.                                                              *)

\* hasSuccessfulRunBySource.
HasSuccessfulRun == \E r \in log : r.status = "completed"

\* onApplicationBootstrap of SanctionsScheduler and of SanctionsImportLifecycleService, whose
\* bootstrap job is not added while it waits or runs.
Boot(w) ==
  LET running == orphans \cup {worker[u].job : u \in {v \in Workers : worker[v].pc \in Body}} IN
  /\ worker[w].pc = "down"
  /\ Goto(w, "idle")
  /\ scheduled' = TRUE
  /\ waiting' = IF HasSuccessfulRun \/ "bootstrap" \in running THEN waiting
                ELSE waiting \cup {"bootstrap"}
  /\ UNCHANGED <<current, orphans, holder, table, log, lockLost, faults>>

\* The repeatable job comes round, or POST /admin/sanctions/imports/:source/run asks for one.
ImportJob ==
  /\ scheduled
  /\ waiting' = waiting \cup {"import"}
  /\ UNCHANGED <<current, worker, scheduled, orphans, holder, table, log, lockLost, faults>>

\* BullMQ finds a job stalled: it waits again, or has been stalled before and fails.
Stalled(job) ==
  /\ job \in orphans
  /\ orphans' = orphans \ {job}
  /\ waiting' \in {waiting, waiting \cup {job}}
  /\ UNCHANGED <<current, worker, scheduled, holder, table, log, lockLost, faults>>

-----------------------------------------------------------------------------
(* The importer.                                                           *)

\* Mutant: the importer goes on without the lock.
TakeAnyway(w, job) ==
  /\ worker[w].pc = "idle"
  /\ job \in waiting
  /\ waiting' = waiting \ {job}
  /\ holder' = IF holder = NoSession THEN w ELSE holder
  /\ worker' = [worker EXCEPT ![w] = [Fresh("start") EXCEPT !.job = job]]
  /\ UNCHANGED <<current, scheduled, orphans, table, log, lockLost, faults>>

\* process takes a job; when withSourceImportLock finds the lock taken the job is done, and
\* no run is recorded.
Take(w, job) ==
  /\ worker[w].pc = "idle"
  /\ job \in waiting
  /\ waiting' = waiting \ {job}
  /\ \/ /\ holder = NoSession
        /\ holder' = w
        /\ worker' = [worker EXCEPT ![w] = [Fresh("start") EXCEPT !.job = job]]
     \/ holder # NoSession /\ UNCHANGED <<holder, worker>>
  /\ UNCHANGED <<current, scheduled, orphans, table, log, lockLost, faults>>

\* startRun, which is before the try block.
StartRun(w) ==
  /\ worker[w].pc = "start"
  /\ \/ Goto(w, "fetch") /\ UNCHANGED faults
     \/ Goto(w, "unlock") /\ Fault
  /\ UNCHANGED <<current, scheduled, waiting, orphans, holder, table, log, lockLost>>

\* fetchAll: the list as it is served now, or a document that is no list.
Fetch(w) ==
  /\ worker[w].pc = "fetch"
  /\ \E n \in {0, current} :
       /\ worker' = [worker EXCEPT ![w].pc = "load", ![w].list = n, ![w].left = VesselsOf(n)]
       /\ IF n = 0 THEN Fault ELSE UNCHANGED faults
  /\ UNCHANGED <<current, scheduled, waiting, orphans, holder, table, log, lockLost>>

\* The batches upsertEntities may be called with next: the vessels come in any order, and
\* the last batch is what is left.
Batches(w) ==
  LET left == worker[w].left IN
  kSubset(IF Cardinality(left) < BatchSize THEN Cardinality(left) ELSE BatchSize, left)

\* upsertEntities: one transaction for a batch.
Upsert(w) ==
  /\ worker[w].pc = "load" /\ worker[w].left # {}
  /\ \E batch \in Batches(w) :
       /\ table' = [e \in Entities |-> IF e \in batch THEN worker[w].list ELSE table[e]]
       /\ worker' = [worker EXCEPT ![w].left = @ \ batch]
  /\ UNCHANGED <<current, scheduled, waiting, orphans, holder, log, lockLost, faults>>

\* The run is over and its row is final.
Leave(w, status) ==
  /\ log' = log \cup {Row(w, status)}
  /\ Goto(w, "unlock")

\* finishRun, at the end of the list.
Finish(w) ==
  /\ worker[w].pc = "load" /\ worker[w].left = {}
  /\ Leave(w, "completed")
  /\ UNCHANGED <<current, scheduled, waiting, orphans, holder, table, lockLost, faults>>

\* An error in the try block: a failed download, batch or finishRun.
Throw(w) ==
  /\ worker[w].pc \in {"fetch", "load"}
  /\ Fault
  /\ Goto(w, "fail")
  /\ UNCHANGED <<current, scheduled, waiting, orphans, holder, table, log, lockLost>>

\* markRunFailed, whose own failure leaves the row at running.
MarkRunFailed(w) ==
  /\ worker[w].pc = "fail"
  /\ \/ Leave(w, "failed") /\ UNCHANGED faults
     \/ Leave(w, "running") /\ Fault
  /\ UNCHANGED <<current, scheduled, waiting, orphans, holder, table, lockLost>>

\* Mutant: nothing unlocks.
KeepLock(w) ==
  /\ worker[w].pc = "unlock"
  /\ worker' = [worker EXCEPT ![w] = Fresh("idle")]
  /\ UNCHANGED <<current, scheduled, waiting, orphans, holder, table, log, lockLost, faults>>

\* pg_advisory_unlock, and the job is done; another session's lock is not released by it.
Unlock(w) ==
  /\ worker[w].pc = "unlock"
  /\ worker' = [worker EXCEPT ![w] = Fresh("idle")]
  /\ holder' = IF holder = w THEN NoSession ELSE holder
  /\ UNCHANGED <<current, scheduled, waiting, orphans, table, log, lockLost, faults>>

-----------------------------------------------------------------------------
(* Faults and the source.                                                  *)

\* The process dies; PostgreSQL may take its time to notice.
Crash(w) ==
  /\ worker[w].pc # "down"
  /\ Fault
  /\ worker' = [worker EXCEPT ![w] = Fresh("down")]
  /\ orphans' = IF worker[w].pc = "idle" THEN orphans ELSE orphans \cup {worker[w].job}
  /\ holder' \in IF holder = w THEN {NoSession, Ghost} ELSE {holder}
  /\ log' = IF worker[w].pc \in {"fetch", "load", "fail"}
            THEN log \cup {Row(w, "running")} ELSE log
  /\ UNCHANGED <<current, scheduled, waiting, table, lockLost>>

SessionEnds ==
  /\ holder = Ghost
  /\ holder' = NoSession
  /\ UNCHANGED <<current, worker, scheduled, waiting, orphans, table, log, lockLost, faults>>

\* The reserved connection breaks; the import does not use it until the unlock.
LoseLock(w) ==
  /\ holder = w
  /\ Fault
  /\ holder' = NoSession
  /\ lockLost' = TRUE
  /\ UNCHANGED <<current, worker, scheduled, waiting, orphans, table, log>>

\* The event loop is blocked for longer than BullMQ's job lock lasts.
Stall(w) ==
  /\ worker[w].pc \in Body
  /\ Fault
  /\ orphans' = orphans \cup {worker[w].job}
  /\ UNCHANGED <<current, worker, scheduled, waiting, holder, table, log, lockLost>>

Publish ==
  /\ current + 1 \in Lists
  /\ current' = current + 1
  /\ UNCHANGED <<worker, scheduled, waiting, orphans, holder, table, log, lockLost, faults>>

Step(w) ==
  \/ StartRun(w) \/ Fetch(w) \/ Upsert(w) \/ Finish(w)
  \/ MarkRunFailed(w) \/ Unlock(w)

Next ==
  \/ \E w \in Workers : Boot(w) \/ Step(w) \/ Throw(w) \/ Crash(w)
                        \/ LoseLock(w) \/ Stall(w) \/ \E job \in Jobs : Take(w, job)
  \/ \E job \in Jobs : Stalled(job)
  \/ ImportJob \/ SessionEnds \/ Publish

Spec == Init /\ [][Next]_vars

\* Processes are restarted, the cron pattern comes round, a worker takes what waits,
\* statements end and PostgreSQL closes dead sessions; nothing says that the source
\* publishes.
FairSpec ==
  /\ Spec
  /\ WF_vars(ImportJob) /\ WF_vars(SessionEnds)
  /\ WF_vars(\E w \in Workers : Take(w, "import"))
  /\ \A w \in Workers : WF_vars(Boot(w)) /\ WF_vars(Step(w))

-----------------------------------------------------------------------------
(* Correctness.                                                            *)

\* A run recorded as completed means what operators read from it: as long as no import has
\* lost its lock, every vessel of the list it read is in the table, from that list or a
\* later one, whatever crashed, stalled, failed or ran at the same time.
CompletedStands ==
  ~lockLost =>
    \A r \in log : r.status = "completed" =>
      /\ r.records = Cardinality(VesselsOf(r.list))
      /\ \A e \in VesselsOf(r.list) : table[e] >= r.list

\* Once the cron job is registered, every published list reaches the table through a
\* completed run, or a later list does, although runs fail, are skipped because of a lock
\* whose process is gone, and are never retried: SanctionsScheduler's job comes round.
ListArrives ==
  []<>(scheduled => \E r \in log : r.status = "completed" /\ r.list >= current)
=============================================================================
