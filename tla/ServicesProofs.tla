---------------------------- MODULE ServicesProofs ----------------------------
(***************************************************************************)
(* What the runs of Services check on small instances, proved for every    *)
(* value of the constants: each machine of the composition takes the steps *)
(* of its own specification only, and keeps its invariants whatever the    *)
(* other parts do.                                                         *)
(***************************************************************************)
EXTENDS Services, FiniteSetTheorems, TLAPS

-----------------------------------------------------------------------------
(* The parts.                                                              *)

\* The composition only ever shows a machine its own steps.
LEMMA ImportSteps == Spec => Import!Spec
<1>1. Init => Import!Init
  BY DEF Init
<1>2. [Next]_vars => [Import!Next]_(Import!vars)
  BY DEF Next, vars, importVars, notImport, notCheck, notLists, notMatching, notFeed, notProfile,
         Import!vars, Import!workVars, Import!txVars, Import!dbVars, Import!histVars
<1>3. QED
  BY <1>1, <1>2, PTL DEF Spec, Import!Spec

LEMMA CheckSteps == Spec => Check!Spec
<1>1. Init => Check!Init
  BY DEF Init
<1>2. [Next]_vars => [Check!Next]_(Check!vars)
  BY DEF Next, vars, checkVars, notImport, notCheck, notLists, notMatching, notFeed, notProfile,
         Check!vars, Check!datasetVars
<1>3. QED
  BY <1>1, <1>2, PTL DEF Spec, Check!Spec

LEMMA ListsSteps == Spec => Lists!Spec
<1>1. Init => Lists!Init
  BY DEF Init
<1>2. [Next]_vars => [Lists!Next]_(Lists!vars)
  BY DEF Next, vars, listVars, notImport, notCheck, notLists, notMatching, notFeed, notProfile,
         Lists!vars
<1>3. QED
  BY <1>1, <1>2, PTL DEF Spec, Lists!Spec

LEMMA MatchingSteps == Spec => Matching!Spec
<1>1. Init => Matching!Init
  BY DEF Init
<1>2. [Next]_vars => [Matching!Next]_(Matching!vars)
  BY DEF Next, vars, matchVars, notImport, notCheck, notLists, notMatching, notFeed, notProfile,
         Matching!vars
<1>3. QED
  BY <1>1, <1>2, PTL DEF Spec, Matching!Spec

LEMMA FeedSteps == Spec => Feed!Spec
<1>1. Init => Feed!Init
  BY DEF Init
<1>2. [Next]_vars => [Feed!Next]_(Feed!vars)
  BY DEF Next, vars, feedVars, notImport, notCheck, notLists, notMatching, notFeed, notProfile,
         Feed!vars, Feed!adapterVars
<1>3. QED
  BY <1>1, <1>2, PTL DEF Spec, Feed!Spec

LEMMA ProfileSteps == Spec => Profile!Spec
<1>1. Init => Profile!Init
  BY DEF Init
<1>2. [Next]_vars => [Profile!Next]_(Profile!vars)
  BY DEF Next, vars, profileVars, notImport, notCheck, notLists, notMatching, notFeed, notProfile,
         Profile!vars
<1>3. QED
  BY <1>1, <1>2, PTL DEF Spec, Profile!Spec

-----------------------------------------------------------------------------
(* The provider's feed.                                                    *)

\* Until stop() the socket, if there is one, is the only one on the wire, and the started
\* adapter has its timer exactly when it has no socket; afterwards sockets only close, and
\* nothing listens.
OneSocket ==
  /\ ~closing =>
       /\ \A s \in Sockets : wire[s] # "none" => s = socket
       /\ socket # NoSocket => wire[socket] \in {"connecting", "open"}
       /\ started => (timer <=> socket = NoSocket)
       /\ ~started => ~timer /\ socket = NoSocket
       /\ attempt = failures
  /\ closing =>
       /\ \A s \in Sockets : wire[s] \in {"none", "closing"}
       /\ socket = NoSocket /\ ~timer /\ ~listening
  /\ ~late

FeedInv == Feed!TypeOK /\ OneSocket

\* The standard modules are the same for every part.
LEMMA SameCardinality ==
  ASSUME NEW S
  PROVE  Feed!Cardinality(S) = Cardinality(S)
BY DEF Cardinality, Feed!Cardinality

LEMMA AtMostTyped ==
  ASSUME NEW n \in Nat, Feed!ProviderAdapterAssumption
  PROVE  Feed!AtMost(n) \in 0..MaxAttempt
BY DEF Feed!AtMost, Feed!ProviderAdapterAssumption

LEMMA FeedInvStep == FeedInv /\ [Feed!Next]_(Feed!vars) => FeedInv'
<1> SUFFICES ASSUME FeedInv, [Feed!Next]_(Feed!vars) PROVE FeedInv'
  OBVIOUS
<1>0. Feed!ProviderAdapterAssumption
  BY ServicesAssumption
<1> USE DEF FeedInv, Feed!TypeOK, OneSocket, Feed!States
<1>1. CASE Feed!Stop
  <2>1. /\ closing' /\ ~timer' /\ socket' = NoSocket /\ ~listening'
        /\ UNCHANGED <<started, attempt, failures, late>>
    BY <1>1 DEF Feed!Stop
  <2>2. wire' \in [Sockets -> Feed!States] /\ \A s \in Sockets : wire'[s] \in {"none", "closing"}
    <3>1. CASE socket = NoSocket
      BY <1>0, <1>1, <3>1 DEF Feed!Stop, Feed!ProviderAdapterAssumption
    <3>2. CASE socket # NoSocket
      <4>1. socket \in Sockets /\ wire' = [wire EXCEPT ![socket] = "closing"]
        BY <1>1, <3>2 DEF Feed!Stop
      <4>2. \A s \in Sockets \ {socket} : wire[s] = "none"
        BY <1>1, <3>2 DEF Feed!Stop
      <4>3. QED
        BY <4>1, <4>2
    <3>3. QED
      BY <3>1, <3>2
  <2>3. Feed!TypeOK'
    <3>1. /\ started' \in BOOLEAN /\ closing' \in BOOLEAN /\ timer' \in BOOLEAN
          /\ listening' \in BOOLEAN /\ late' \in BOOLEAN
      BY <1>1 DEF Feed!Stop
    <3>2. /\ attempt' \in 0..MaxAttempt /\ failures' \in 0..MaxAttempt
          /\ socket' \in Sockets \cup {NoSocket}
      BY <2>1
    <3>3. QED
      BY <2>2, <3>1, <3>2
  <2>4. OneSocket'
    BY <2>1, <2>2
  <2>5. QED
    BY <2>3, <2>4
<1>2. ASSUME NEW s \in Sockets, Feed!Start(s) PROVE FeedInv'
  BY <1>0, <1>2 DEF Feed!Start, Feed!Connect, Feed!ProviderAdapterAssumption
<1>3. ASSUME NEW s \in Sockets, Feed!Open(s) PROVE FeedInv'
  BY <1>0, <1>3 DEF Feed!Open, Feed!adapterVars
<1>4. ASSUME NEW s \in Sockets, Feed!Close(s) PROVE FeedInv'
  <2>1. Feed!AtMost(attempt + 1) \in 0..MaxAttempt /\ Feed!AtMost(failures + 1) \in 0..MaxAttempt
    BY <1>0, AtMostTyped DEF Feed!ProviderAdapterAssumption
  <2>2. QED
    BY <1>0, <1>4, <2>1 DEF Feed!Close, Feed!ScheduleReconnect, Feed!ProviderAdapterAssumption
<1>5. ASSUME NEW s \in Sockets, Feed!Reconnect(s) PROVE FeedInv'
  BY <1>0, <1>5 DEF Feed!Reconnect, Feed!Connect, Feed!ProviderAdapterAssumption
<1>6. ASSUME NEW s \in Sockets, NEW frame \in Feed!Frames, Feed!Message(s, frame) PROVE FeedInv'
  BY <1>0, <1>6 DEF Feed!Message, Feed!ProviderAdapterAssumption
<1>7. CASE UNCHANGED Feed!vars
  BY <1>7 DEF Feed!vars, Feed!adapterVars
<1>8. QED
  BY <1>1, <1>2, <1>3, <1>4, <1>5, <1>6, <1>7 DEF Feed!Next

\* From one attempt to the next the delay grows by more than the jitter takes away.
LEMMA DelaysGrow ==
  ASSUME NEW n \in 1..5
  PROVE  Feed!LeastMs(n) > Feed!GreatestMs(n - 1)
<1>1. 2^0 = 1 /\ 2^1 = 2 /\ 2^2 = 4 /\ 2^3 = 8 /\ 2^4 = 16 /\ 2^5 = 32
  OBVIOUS
<1>2. /\ Feed!ExpMs(0) = 1000 /\ Feed!ExpMs(1) = 2000 /\ Feed!ExpMs(2) = 4000
      /\ Feed!ExpMs(3) = 8000 /\ Feed!ExpMs(4) = 16000 /\ Feed!ExpMs(5) = 30000
  BY <1>1 DEF Feed!ExpMs
<1>3. n = 1 \/ n = 2 \/ n = 3 \/ n = 4 \/ n = 5
  OBVIOUS
<1>4. CASE n = 1
  BY <1>2, <1>4 DEF Feed!LeastMs, Feed!GreatestMs
<1>5. CASE n = 2
  BY <1>2, <1>5 DEF Feed!LeastMs, Feed!GreatestMs
<1>6. CASE n = 3
  BY <1>2, <1>6 DEF Feed!LeastMs, Feed!GreatestMs
<1>7. CASE n = 4
  BY <1>2, <1>7 DEF Feed!LeastMs, Feed!GreatestMs
<1>8. CASE n = 5
  BY <1>2, <1>8 DEF Feed!LeastMs, Feed!GreatestMs
<1>9. QED
  BY <1>3, <1>4, <1>5, <1>6, <1>7, <1>8

LEMMA FeedHeldFromInv == FeedInv => FeedHeld
<1> SUFFICES ASSUME FeedInv PROVE FeedHeld
  OBVIOUS
<1>0. Feed!ProviderAdapterAssumption
  BY ServicesAssumption
<1>1. ASSUME ~closing PROVE Feed!Live = {s \in Sockets : s = socket}
  BY <1>0, <1>1 DEF FeedInv, OneSocket, Feed!TypeOK, Feed!Live, Feed!ProviderAdapterAssumption
<1>2. ASSUME started, ~closing, timer
      PROVE  Cardinality(Feed!Live) + (IF timer THEN 1 ELSE 0) = 1
  <2>1. Feed!Live = {}
    BY <1>0, <1>1, <1>2 DEF FeedInv, OneSocket, Feed!ProviderAdapterAssumption
  <2>2. Cardinality(Feed!Live) = 0
    BY <2>1, FS_EmptySet
  <2>3. QED
    BY <1>2, <2>2
<1>3. ASSUME started, ~closing, ~timer
      PROVE  Cardinality(Feed!Live) + (IF timer THEN 1 ELSE 0) = 1
  <2>1. Feed!Live = {socket}
    BY <1>0, <1>1, <1>3 DEF FeedInv, OneSocket, Feed!TypeOK
  <2>2. Cardinality(Feed!Live) = 1
    BY <2>1, FS_Singleton
  <2>3. QED
    BY <1>3, <2>2
<1>4. closing => ~timer /\ Feed!Live = {} /\ ~late
  BY DEF FeedInv, OneSocket, Feed!Live
<1>5. Feed!OneConnection
  <2>1. ASSUME started, ~closing
        PROVE  /\ Cardinality(Feed!Live) + (IF timer THEN 1 ELSE 0) = 1
               /\ Feed!Live = {s \in Sockets : s = socket}
    BY <1>1, <1>2, <1>3, <2>1
  <2>2. started /\ ~closing => Cardinality(Feed!Live) + (IF timer THEN 1 ELSE 0) = 1
    BY <2>1
  <2>3. started /\ ~closing => Feed!Live = {s \in Sockets : s = socket}
    BY <2>1
  <2>4. QED
    BY <1>4, <2>2, <2>3, SameCardinality DEF Feed!OneConnection
<1>6. Feed!BackoffGrows
  <2>1. attempt > 0 => attempt \in 1..5
    BY <1>0 DEF FeedInv, Feed!TypeOK, Feed!ProviderAdapterAssumption
  <2>2. QED
    BY <2>1, DelaysGrow DEF FeedInv, OneSocket, Feed!BackoffGrows
<1>7. QED
  BY <1>5, <1>6 DEF FeedHeld

LEMMA FeedInit == Feed!Init => FeedInv
<1>1. 0 \in 0..MaxAttempt
  BY ServicesAssumption DEF Feed!ProviderAdapterAssumption
<1>2. QED
  BY <1>1 DEF Feed!Init, FeedInv, Feed!TypeOK, Feed!States, OneSocket

\* Whenever close events come and wherever stop() falls, the running adapter has its one
\* socket or its timer, the stopped one neither; and the backoff is that of the closes since
\* the last frame (start, stop, connect, scheduleReconnect).
THEOREM FeedAlwaysHeld == Spec => []FeedHeld
BY FeedInit, FeedInvStep, FeedHeldFromInv, FeedSteps, PTL DEF Feed!Spec

-----------------------------------------------------------------------------
(* The imports of the sanctions list.                                      *)

\* The standard modules are the same for every part.
LEMMA SameFiniteness ==
  ASSUME NEW S
  PROVE  Lists!Cardinality(S) = Cardinality(S) /\ (Lists!IsFiniteSet(S) <=> IsFiniteSet(S))
BY DEF Cardinality, Lists!Cardinality, IsFiniteSet, Lists!IsFiniteSet

\* Lists are numbered from 1, and consist of entities.
LEMMA ListsFacts ==
  /\ \A n \in Lists!Lists : n \in Nat /\ n > 0
  /\ 1 \in Lists!Lists
  /\ \A n \in {0} \cup Lists!Lists : Lists!VesselsOf(n) \subseteq Entities
  /\ IsFiniteSet(Entities)
  /\ NoSession \notin Workers /\ Ghost \notin Workers /\ Ghost # NoSession
  /\ MaxFaults \in Nat
<1>1. Lists!SanctionsImportAssumption
  BY ServicesAssumption
<1>2. IsFiniteSet(Entities)
  BY <1>1, SameFiniteness DEF Lists!SanctionsImportAssumption
<1>3. QED
  BY <1>1, <1>2 DEF Lists!SanctionsImportAssumption, Lists!Lists, Lists!VesselsOf

\* As long as no import has lost its lock: whoever is between the lock and the unlock holds
\* it; the vessels it has upserted are in the table, from its list or a later one; its list
\* is as late as that of any completed run; and completed runs stand.
LockKept ==
  /\ \A w \in Workers : worker[w].pc \in Lists!Body => holder = w
  /\ \A w \in Workers : worker[w].pc = "load" =>
       /\ worker[w].left \subseteq Lists!VesselsOf(worker[w].list)
       /\ \A e \in Lists!VesselsOf(worker[w].list) \ worker[w].left : table[e] >= worker[w].list
       /\ worker[w].left # {} =>
            \A r \in log : r.status = "completed" => r.list <= worker[w].list
  /\ \A r \in log : r.status = "completed" =>
       /\ r.records = Lists!Cardinality(Lists!VesselsOf(r.list))
       /\ \A e \in Lists!VesselsOf(r.list) : table[e] >= r.list

\* Nothing is read before it is published.
ReadWhenPublished ==
  /\ \A w \in Workers : worker[w].list <= current
  /\ \A r \in log : r.list <= current

ListsInv == Lists!TypeOK /\ ReadWhenPublished /\ (~lockLost => LockKept)

\* The row a worker leaves behind is one of the table's.
LEMMA RowTyped ==
  ASSUME Lists!TypeOK, NEW w \in Workers, NEW status \in {"running", "completed", "failed"}
  PROVE  Lists!Row(w, status) \in Lists!RunRows
<1>1. worker[w].list \in {0} \cup Lists!Lists
  BY DEF Lists!TypeOK, Lists!WorkerStates
<1> DEFINE done == Lists!VesselsOf(worker[w].list) \ worker[w].left
<1>2. done \in SUBSET Entities
  BY <1>1, ListsFacts
<1> HIDE DEF done
<1>3. Cardinality(done) \in 0..Cardinality(Entities)
  BY <1>2, ListsFacts, FS_Subset, FS_CardinalityType
<1>4. Lists!Cardinality(done) \in 0..Lists!Cardinality(Entities)
  BY <1>3, SameFiniteness
<1>5. QED
  BY <1>1, <1>4 DEF Lists!Row, Lists!RunRows, done

\* The holder of the lock is the only one to change the table and to complete runs.
LEMMA ListsInvStep == ListsInv /\ [Lists!Next]_(Lists!vars) => ListsInv'
<1> SUFFICES ASSUME ListsInv, [Lists!Next]_(Lists!vars) PROVE ListsInv'
  OBVIOUS
<1> USE ListsFacts DEF ListsInv, ReadWhenPublished, LockKept, Lists!TypeOK, Lists!WorkerStates,
                       Lists!Body, Lists!Jobs
<1>1. ASSUME NEW w \in Workers, Lists!Boot(w) PROVE ListsInv'
  BY <1>1 DEF Lists!Boot, Lists!Goto
<1>2. ASSUME NEW w \in Workers, Lists!StartRun(w) PROVE ListsInv'
  BY <1>2 DEF Lists!StartRun, Lists!Goto, Lists!Fault
<1>3. ASSUME NEW w \in Workers, Lists!Fetch(w) PROVE ListsInv'
  <2>1. PICK n \in {0, current} :
          /\ worker' = [worker EXCEPT ![w].pc = "load", ![w].list = n,
                                      ![w].left = Lists!VesselsOf(n)]
          /\ IF n = 0 THEN Lists!Fault ELSE UNCHANGED listFaults
    BY <1>3 DEF Lists!Fetch
  <2>2. /\ worker[w].pc = "fetch"
        /\ UNCHANGED <<current, scheduled, waiting, orphans, holder, table, log, lockLost>>
    BY <1>3 DEF Lists!Fetch
  <2>3. n \in {0} \cup Lists!Lists /\ n <= current /\ Lists!VesselsOf(n) \subseteq Entities
    BY <2>1
  <2>4. Lists!TypeOK'
    <3>1. listFaults' \in 0..MaxFaults
      BY <2>1 DEF Lists!Fault
    <3>2. worker' \in [Workers -> Lists!WorkerStates]
      <4> DEFINE loading == [worker[w] EXCEPT !.pc = "load"]
                 listing == [loading EXCEPT !.list = n]
      <4>1. loading \in Lists!WorkerStates
        OBVIOUS
      <4>2. worker' = [worker EXCEPT ![w] = [listing EXCEPT !.left = Lists!VesselsOf(n)]]
        BY <2>1
      <4> HIDE DEF loading
      <4>3. listing \in Lists!WorkerStates
        BY <2>3, <4>1
      <4> HIDE DEF listing
      <4>4. QED
        BY <2>3, <4>2, <4>3
    <3>3. QED
      BY <2>2, <3>1, <3>2
  <2>5. ReadWhenPublished'
    BY <2>1, <2>2, <2>3
  <2>6. ASSUME n = 0 PROVE Lists!VesselsOf(n) = {}
    BY <2>6 DEF Lists!VesselsOf
  <2>7. ~lockLost' => LockKept'
    BY <2>1, <2>2, <2>3, <2>6
  <2>8. QED
    BY <2>4, <2>5, <2>7
<1>4. ASSUME NEW w \in Workers, Lists!Upsert(w) PROVE ListsInv'
  <2>1. PICK batch \in Lists!Batches(w) :
          /\ table' = [e \in Entities |-> IF e \in batch THEN worker[w].list ELSE table[e]]
          /\ worker' = [worker EXCEPT ![w].left = @ \ batch]
    BY <1>4 DEF Lists!Upsert
  <2>2. /\ worker[w].pc = "load" /\ worker[w].left # {}
        /\ UNCHANGED <<current, scheduled, waiting, orphans, holder, log, lockLost, listFaults>>
    BY <1>4 DEF Lists!Upsert
  <2>3. batch \subseteq worker[w].left
    BY <2>1 DEF Lists!Batches, Lists!kSubset
  <2>4. Lists!TypeOK'
    BY <2>1, <2>2, <2>3
  <2>5. ReadWhenPublished'
    BY <2>1, <2>2, <2>3
  <2>6. ASSUME ~lockLost PROVE LockKept'
    <3>1. \A v \in Workers : worker[v].pc = "load" => v = w
      BY <2>2, <2>6
    <3>2. worker[w].list \in Nat /\ \A e \in Entities : table[e] \in Nat
      OBVIOUS
    <3>3. \A r \in log : r.status = "completed" =>
            \A e \in Lists!VesselsOf(r.list) : e \in Entities /\ table'[e] >= r.list
      BY <2>1, <2>2, <2>6, <3>2 DEF Lists!RunRows
    <3>4. QED
      BY <2>1, <2>2, <2>3, <2>6, <3>1, <3>2, <3>3
  <2>7. QED
    BY <2>2, <2>4, <2>5, <2>6
<1>5. ASSUME NEW w \in Workers, Lists!Finish(w) PROVE ListsInv'
  <2>1. Lists!TypeOK'
    BY <1>5, RowTyped DEF Lists!Finish, Lists!Leave, Lists!Goto
  <2>2. ReadWhenPublished'
    BY <1>5, RowTyped DEF Lists!Finish, Lists!Leave, Lists!Goto, Lists!Row
  <2>3. ASSUME ~lockLost PROVE LockKept'
    BY <1>5, <2>3, RowTyped DEF Lists!Finish, Lists!Leave, Lists!Goto, Lists!Row
  <2>4. QED
    BY <1>5, <2>1, <2>2, <2>3 DEF Lists!Finish, Lists!Leave, Lists!Goto
<1>6. ASSUME NEW w \in Workers, Lists!MarkRunFailed(w) PROVE ListsInv'
  <2>1. Lists!TypeOK'
    BY <1>6, RowTyped DEF Lists!MarkRunFailed, Lists!Leave, Lists!Goto, Lists!Fault
  <2>2. ReadWhenPublished'
    BY <1>6, RowTyped DEF Lists!MarkRunFailed, Lists!Leave, Lists!Goto, Lists!Fault, Lists!Row
  <2>3. ASSUME ~lockLost PROVE LockKept'
    BY <1>6, <2>3, RowTyped DEF Lists!MarkRunFailed, Lists!Leave, Lists!Goto, Lists!Fault, Lists!Row
  <2>4. QED
    BY <1>6, <2>1, <2>2, <2>3 DEF Lists!MarkRunFailed, Lists!Leave, Lists!Goto, Lists!Fault
<1>7. ASSUME NEW w \in Workers, Lists!Unlock(w) PROVE ListsInv'
  BY <1>7 DEF Lists!Unlock, Lists!Fresh
<1>8. ASSUME NEW w \in Workers, Lists!Throw(w) PROVE ListsInv'
  BY <1>8 DEF Lists!Throw, Lists!Goto, Lists!Fault
<1>9. ASSUME NEW w \in Workers, Lists!Crash(w) PROVE ListsInv'
  <2>1. Lists!TypeOK'
    <3>1. listFaults' \in 0..MaxFaults
      BY <1>9 DEF Lists!Crash, Lists!Fault
    <3>2. worker' \in [Workers -> Lists!WorkerStates]
      BY <1>9 DEF Lists!Crash, Lists!Fresh
    <3>3. orphans' \subseteq Lists!Jobs /\ holder' \in Workers \cup {NoSession, Ghost}
      BY <1>9 DEF Lists!Crash
    <3>4. log' \subseteq Lists!RunRows
      BY <1>9, RowTyped DEF Lists!Crash
    <3>5. QED
      BY <1>9, <3>1, <3>2, <3>3, <3>4 DEF Lists!Crash
  <2>2. ReadWhenPublished'
    BY <1>9, RowTyped DEF Lists!Crash, Lists!Fresh, Lists!Fault, Lists!Row
  <2>3. ASSUME ~lockLost PROVE LockKept'
    BY <1>9, <2>3, RowTyped DEF Lists!Crash, Lists!Fresh, Lists!Fault, Lists!Row
  <2>4. QED
    BY <1>9, <2>1, <2>2, <2>3 DEF Lists!Crash, Lists!Fresh, Lists!Fault
<1>10. ASSUME NEW w \in Workers, Lists!LoseLock(w) PROVE ListsInv'
  BY <1>10 DEF Lists!LoseLock, Lists!Fault
<1>11. ASSUME NEW w \in Workers, Lists!Stall(w) PROVE ListsInv'
  <2>1. worker[w].job \in Lists!Jobs
    OBVIOUS
  <2>2. Lists!TypeOK'
    <3>1. listFaults' \in 0..MaxFaults
      BY <1>11 DEF Lists!Stall, Lists!Fault
    <3>2. orphans' \subseteq Lists!Jobs
      BY <1>11, <2>1 DEF Lists!Stall
    <3>3. QED
      BY <1>11, <3>1, <3>2 DEF Lists!Stall
  <2>3. QED
    BY <1>11, <2>2 DEF Lists!Stall, Lists!Fault
<1>12. ASSUME NEW w \in Workers, NEW j \in Lists!Jobs, Lists!Take(w, j) PROVE ListsInv'
  BY <1>12 DEF Lists!Take, Lists!Fresh
<1>13. ASSUME NEW j \in Lists!Jobs, Lists!Stalled(j) PROVE ListsInv'
  BY <1>13 DEF Lists!Stalled
<1>14. CASE Lists!ImportJob
  BY <1>14 DEF Lists!ImportJob
<1>15. CASE Lists!SessionEnds
  BY <1>15 DEF Lists!SessionEnds
<1>16. CASE Lists!Publish
  <2>1. Lists!TypeOK'
    BY <1>16 DEF Lists!Publish
  <2>2. \A r \in log : r.list \in Nat
    BY DEF Lists!RunRows
  <2>3. ReadWhenPublished'
    BY <1>16, <2>2 DEF Lists!Publish
  <2>4. QED
    BY <1>16, <2>1, <2>3 DEF Lists!Publish
<1>17. CASE UNCHANGED Lists!vars
  BY <1>17 DEF Lists!vars
<1>18. QED
  BY <1>1, <1>2, <1>3, <1>4, <1>5, <1>6, <1>7, <1>8, <1>9, <1>10, <1>11, <1>12, <1>13, <1>14,
     <1>15, <1>16, <1>17 DEF Lists!Next, Lists!Step

LEMMA ListsInit == Lists!Init => ListsInv
<1> SUFFICES ASSUME Lists!Init PROVE ListsInv
  OBVIOUS
<1>1. worker \in [Workers -> Lists!WorkerStates]
  BY DEF Lists!Init, Lists!WorkerStates, Lists!Fresh, Lists!Jobs
<1>2. Lists!TypeOK
  <2>1. table \in [Entities -> {0} \cup Lists!Lists] /\ current \in Lists!Lists
    BY ListsFacts DEF Lists!Init
  <2>2. listFaults \in 0..MaxFaults
    BY ListsFacts DEF Lists!Init
  <2>3. QED
    BY <1>1, <2>1, <2>2 DEF Lists!Init, Lists!TypeOK
<1>3. ReadWhenPublished /\ LockKept
  BY DEF Lists!Init, Lists!Fresh, Lists!Body, ReadWhenPublished, LockKept
<1>4. QED
  BY <1>2, <1>3 DEF ListsInv

\* A completed run stands for every vessel of its list, as long as no import has lost its
\* lock (withSourceImportLock, runWithLock, upsertEntities, finishRun).
THEOREM CompletedAlwaysStands == Spec => []CompletedStands
<1>1. ListsInv => CompletedStands
  BY DEF ListsInv, LockKept, CompletedStands, Lists!CompletedStands
<1>2. QED
  BY <1>1, ListsInit, ListsInvStep, ListsSteps, PTL DEF Lists!Spec

-----------------------------------------------------------------------------
(* The judgement of a vessel.                                              *)

AsImo(c) == [entity |-> c.entity, method |-> "imo"]
AsMmsi(c) == [entity |-> c.entity, method |-> "mmsi"]
AsName(c) == [entity |-> c.entity, method |-> "name_candidate"]

\* What the matcher makes of its candidates: every match has one that justifies it, and no
\* candidate with the IMO or the MMSI goes unnoticed.
LEMMA MatchFacts ==
  ASSUME NEW input, NEW candidates, NEW r, r = Matching!Match(input, candidates)
  PROVE  /\ \A m \in r.matches : \E c \in candidates :
              \/ m = AsImo(c) /\ Matching!ByImo(input, c)
              \/ m = AsMmsi(c) /\ Matching!ByMmsi(input, c)
              \/ m = AsName(c) /\ Matching!ByName(input, c)
         /\ \A c \in candidates : Matching!ByImo(input, c) \/ Matching!ByMmsi(input, c) =>
              /\ r.status = "sanctioned"
              /\ \E n \in r.matches : n.entity = c.entity
         /\ r.status = "sanctioned" <=> \E m \in r.matches : m.method # "name_candidate"
         /\ r.status \in {"unchecked", "clear", "candidate", "sanctioned"}
<1> DEFINE ids == Matching!Identified(input, candidates)
           names == {AsName(c) : c \in {d \in candidates : Matching!ByName(input, d)}}
<1>1. r = IF ids # {} THEN [status |-> "sanctioned", matches |-> ids]
          ELSE IF names # {} THEN [status |-> "candidate", matches |-> names]
          ELSE [status |-> "clear", matches |-> {}]
  BY DEF Matching!Match, AsName
<1>2. \A m \in ids : /\ m.method # "name_candidate"
                     /\ \E c \in candidates :
                          \/ m = AsImo(c) /\ Matching!ByImo(input, c)
                          \/ m = AsMmsi(c) /\ Matching!ByMmsi(input, c)
  BY DEF Matching!Identified, AsImo, AsMmsi
<1>3. \A c \in candidates : Matching!ByImo(input, c) \/ Matching!ByMmsi(input, c) =>
        \E n \in ids : n.entity = c.entity
  <2>1. ASSUME NEW c \in candidates, Matching!ByImo(input, c)
        PROVE  \E n \in ids : n.entity = c.entity
    <3>1. AsImo(c) \in ids
      BY <2>1 DEF Matching!Identified, AsImo
    <3>2. QED
      BY <3>1 DEF AsImo
  <2>2. ASSUME NEW c \in candidates, Matching!ByMmsi(input, c),
               ~\E b \in candidates : b.entity = c.entity /\ Matching!ByImo(input, b)
        PROVE  \E n \in ids : n.entity = c.entity
    <3>1. AsMmsi(c) \in ids
      BY <2>2 DEF Matching!Identified, AsMmsi
    <3>2. QED
      BY <3>1 DEF AsMmsi
  <2>3. QED
    BY <2>1, <2>2
<1>4. \A m \in names : m.method = "name_candidate" /\ \E c \in candidates :
        m = AsName(c) /\ Matching!ByName(input, c)
  BY DEF AsName
<1> HIDE DEF ids, names
<1>5. QED
  BY <1>1, <1>2, <1>3, <1>4

\* The table's matches, by the rows they come from.
LEMMA TableFacts ==
  ASSUME NEW input, NEW l
  PROVE  /\ \A c \in Matching!Rows(l) : Matching!ByImo(input, c) =>
              AsImo(c) \in Matching!IdentifierMatches(input, l)
         /\ \A c \in Matching!Rows(l) : Matching!ByMmsi(input, c) =>
              AsMmsi(c) \in Matching!IdentifierMatches(input, l)
         /\ \A c \in Matching!Rows(l) : Matching!ByName(input, c) =>
              AsName(c) \in Matching!AllMatches(input, l)
         /\ Matching!IdentifierMatches(input, l) \subseteq Matching!AllMatches(input, l)
         /\ \A m \in Matching!IdentifierMatches(input, l) : \E c \in Matching!Rows(l) :
              \/ m = AsImo(c) /\ Matching!ByImo(input, c)
              \/ m = AsMmsi(c) /\ Matching!ByMmsi(input, c)
BY DEF Matching!IdentifierMatches, Matching!AllMatches, Matching!NameMatches, AsImo, AsMmsi, AsName

\* Of a job under way: what matched all along matches now, and what matches now has matched.
SpanHolds(j) ==
  /\ always[j] \subseteq Matching!IdentifierMatches(job[j].input, listed)
  /\ Matching!AllMatches(job[j].input, listed) \subseteq ever[j]

\* What the job has found has matched, and what its reads have looked for is found.
FoundFits(j) ==
  /\ \A c \in job[j].found :
       /\ Matching!ByImo(job[j].input, c) => AsImo(c) \in ever[j]
       /\ Matching!ByMmsi(job[j].input, c) => AsMmsi(c) \in ever[j]
  /\ job[j].pc \in {"mmsi", "match"} =>
       \A m \in always[j] : m.method = "imo" =>
         \E c \in job[j].found : c.entity = m.entity /\ Matching!ByImo(job[j].input, c)
  /\ job[j].pc = "match" =>
       \A m \in always[j] : m.method = "mmsi" =>
         \E c \in job[j].found : c.entity = m.entity /\ Matching!ByMmsi(job[j].input, c)

\* What JudgedInSpan says of one job.
Judged(j) ==
  job[j].pc = "decide" =>
    LET r == job[j].result IN
    /\ always[j] # {} => r.status = "sanctioned"
    /\ \A m \in always[j] : \E n \in r.matches : n.entity = m.entity
    /\ r.matches \subseteq ever[j]
    /\ r.status = "sanctioned" <=> \E m \in r.matches : m.method # "name_candidate"

Phases == {"idle", "imo", "mmsi", "match", "name", "decide", "apply"}
JobStates == [pc : Phases, input : Matching!Inputs, found : SUBSET Matching!Candidates,
              result : Matching!Results]
Matches == [entity : Entities, method : Matching!Methods]

MatchTypes ==
  /\ listed \in [Entities -> Nat] /\ \A e \in Entities : listed[e] \in 0..Len(Listings[e])
  /\ fingerprint \in DOMAIN Profiles
  /\ job \in [MatchJobs -> JobStates]
  /\ always \in [MatchJobs -> SUBSET Matches] /\ ever \in [MatchJobs -> SUBSET Matches]

Under(j) == job[j].pc # "idle" => SpanHolds(j) /\ FoundFits(j) /\ Judged(j)

MatchInv == MatchTypes /\ \A j \in MatchJobs : Under(j)

\* The listings are sequences, the profiles too, and there is one.
LEMMA MatchingFacts ==
  /\ \A e \in Entities : /\ Len(Listings[e]) \in Nat
                         /\ DOMAIN Listings[e] = 1..Len(Listings[e])
  /\ 1 \in DOMAIN Profiles /\ DOMAIN Profiles = 1..Len(Profiles) /\ Len(Profiles) \in Nat
<1>1. Matching!SanctionsMatchingAssumption
  BY ServicesAssumption
<1>2. QED
  BY <1>1 DEF Matching!SanctionsMatchingAssumption

\* The rows of the table are candidates.
LEMMA RowsTyped ==
  ASSUME MatchTypes
  PROVE  /\ Matching!Rows(listed) \subseteq Matching!Candidates
         /\ \A c \in Matching!Candidates : c.entity \in Entities
         /\ \A input : Matching!AllMatches(input, listed) \subseteq Matches
<1>1. ASSUME NEW c \in Matching!Rows(listed) PROVE c \in Matching!Candidates
  <2>1. PICK e \in Entities : listed[e] # 0 /\ c = [entity |-> e, row |-> Listings[e][listed[e]]]
    BY <1>1 DEF Matching!Rows
  <2>2. listed[e] \in DOMAIN Listings[e]
    BY <2>1, MatchingFacts DEF MatchTypes
  <2>3. QED
    BY <2>1, <2>2 DEF Matching!Candidates
<1>2. \A c \in Matching!Candidates : c.entity \in Entities
  BY DEF Matching!Candidates
<1>3. ASSUME NEW input PROVE Matching!AllMatches(input, listed) \subseteq Matches
  BY <1>1, <1>2 DEF Matching!AllMatches, Matching!IdentifierMatches, Matching!NameMatches,
                    Matches, Matching!Methods
<1>4. QED
  BY <1>1, <1>2, <1>3

\* The matcher's results are typed.
LEMMA ResultTyped ==
  ASSUME MatchTypes, NEW input, NEW candidates \in SUBSET Matching!Candidates
  PROVE  Matching!Match(input, candidates) \in Matching!Results
<1> DEFINE r == Matching!Match(input, candidates)
<1>1. \E s, m : r = [status |-> s, matches |-> m]
  BY DEF Matching!Match
<1>2. r.status \in {"unchecked", "clear", "candidate", "sanctioned"}
  BY MatchFacts
<1>3. \A m \in r.matches : m \in Matches
  BY MatchFacts, RowsTyped DEF Matches, Matching!Methods, AsImo, AsMmsi, AsName
<1> HIDE DEF r
<1>4. r \in Matching!Results
  BY <1>1, <1>2, <1>3 DEF Matching!Results, Matches
<1>5. QED
  BY <1>4 DEF r

\* A step of one job is none of another's.
LEMMA OtherJobsStay ==
  ASSUME MatchInv, NEW j \in MatchJobs, NEW k \in MatchJobs \ {j}, listed' = listed,
         job'[k] = job[k], always'[k] = always[k], ever'[k] = ever[k]
  PROVE  Under(k)'
BY DEF MatchInv, Under, SpanHolds, FoundFits, Judged

\* Starting, reading by IMO and by MMSI.
LEMMA ReadsStep ==
  ASSUME MatchInv, NEW j \in MatchJobs,
         Matching!Start(j) \/ Matching!ReadImo(j) \/ Matching!ReadMmsi(j)
  PROVE  MatchInv'
<1> USE MatchingFacts, RowsTyped DEF MatchInv
<1>1. CASE Matching!Start(j)
  <2> DEFINE input == Profiles[fingerprint]
             new == [Matching!Idle EXCEPT !.pc = "imo", !.input = input]
  <2>1. /\ job' = [job EXCEPT ![j] = new]
        /\ always' = [always EXCEPT ![j] = Matching!IdentifierMatches(input, listed)]
        /\ ever' = [ever EXCEPT ![j] = Matching!AllMatches(input, listed)]
        /\ UNCHANGED <<listed, fingerprint>>
    BY <1>1 DEF Matching!Start
  <2>2. new \in JobStates /\ new.pc = "imo" /\ new.input = input /\ new.found = {}
    BY DEF Matching!Idle, Matching!Unchecked, Matching!Results, JobStates, Phases, MatchTypes,
           Matching!Inputs
  <2>3. /\ Matching!AllMatches(input, listed) \subseteq Matches
        /\ Matching!IdentifierMatches(input, listed) \subseteq Matches
    BY TableFacts
  <2> HIDE DEF new, input
  <2>4. MatchTypes'
    BY <2>1, <2>2, <2>3 DEF MatchTypes
  <2>5. Under(j)'
    BY <2>1, <2>2 DEF Under, SpanHolds, FoundFits, Judged, MatchTypes
  <2>6. ASSUME NEW k \in MatchJobs \ {j} PROVE Under(k)'
    BY <2>1, OtherJobsStay DEF MatchTypes
  <2>7. QED
    BY <2>4, <2>5, <2>6
<1>2. CASE Matching!ReadImo(j)
  <2> DEFINE input == job[j].input
             hits == IF input.imo = Null THEN {} ELSE Matching!FindByImo(listed, input.imo)
  <2>1. /\ job[j].pc = "imo"
        /\ job' = [job EXCEPT ![j].pc = "mmsi", ![j].found = hits]
        /\ UNCHANGED <<listed, fingerprint, always, ever>>
    BY <1>2 DEF Matching!ReadImo
  <2>2. hits \subseteq Matching!Rows(listed)
    BY DEF Matching!FindByImo
  <2>3. \A c \in Matching!Rows(listed) : Matching!ByImo(input, c) => c \in hits
    BY DEF Matching!FindByImo, Matching!ByImo
  <2> HIDE DEF hits
  <2>4. MatchTypes'
    BY <2>1, <2>2 DEF MatchTypes, JobStates, Phases
  <2>5. job'[j].pc = "mmsi" /\ job'[j].input = input /\ job'[j].found = hits
    BY <2>1 DEF MatchTypes, JobStates
  <2>6. SpanHolds(j) /\ SpanHolds(j)'
    BY <2>1, <2>5 DEF Under, SpanHolds
  <2>7. FoundFits(j)'
    <3>1. \A c \in hits : /\ Matching!ByImo(input, c) => AsImo(c) \in ever[j]
                          /\ Matching!ByMmsi(input, c) => AsMmsi(c) \in ever[j]
      BY <2>2, <2>6, TableFacts DEF SpanHolds
    <3>2. ASSUME NEW m \in always[j], m.method = "imo"
          PROVE  \E c \in hits : c.entity = m.entity /\ Matching!ByImo(input, c)
      BY <2>3, <2>6, <3>2, TableFacts DEF SpanHolds, AsImo, AsMmsi
    <3>3. QED
      BY <2>1, <2>5, <3>1, <3>2 DEF FoundFits
  <2>8. Under(j)'
    BY <2>5, <2>6, <2>7 DEF Under, Judged
  <2>9. ASSUME NEW k \in MatchJobs \ {j} PROVE Under(k)'
    BY <2>1, OtherJobsStay DEF MatchTypes
  <2>10. QED
    BY <2>4, <2>8, <2>9
<1>3. CASE Matching!ReadMmsi(j)
  <2> DEFINE input == job[j].input
             hits == IF input.mmsi = Null THEN {} ELSE Matching!FindByMmsi(listed, input.mmsi)
  <2>1. /\ job[j].pc = "mmsi"
        /\ job' = [job EXCEPT ![j].pc = "match", ![j].found = @ \cup hits]
        /\ UNCHANGED <<listed, fingerprint, always, ever>>
    BY <1>3 DEF Matching!ReadMmsi
  <2>2. hits \subseteq Matching!Rows(listed)
    BY DEF Matching!FindByMmsi
  <2>3. \A c \in Matching!Rows(listed) : Matching!ByMmsi(input, c) => c \in hits
    BY DEF Matching!FindByMmsi, Matching!ByMmsi
  <2> HIDE DEF hits
  <2>4. MatchTypes'
    BY <2>1, <2>2 DEF MatchTypes, JobStates, Phases
  <2>5. job'[j].pc = "match" /\ job'[j].input = input /\ job'[j].found = job[j].found \cup hits
    BY <2>1 DEF MatchTypes, JobStates
  <2>6. SpanHolds(j) /\ SpanHolds(j)' /\ FoundFits(j)
    BY <2>1, <2>5 DEF Under, SpanHolds
  <2>7. FoundFits(j)'
    <3>1. \A c \in hits : /\ Matching!ByImo(input, c) => AsImo(c) \in ever[j]
                          /\ Matching!ByMmsi(input, c) => AsMmsi(c) \in ever[j]
      BY <2>2, <2>6, TableFacts DEF SpanHolds
    <3>2. ASSUME NEW m \in always[j], m.method = "mmsi"
          PROVE  \E c \in hits : c.entity = m.entity /\ Matching!ByMmsi(input, c)
      BY <2>3, <2>6, <3>2, TableFacts DEF SpanHolds, AsImo, AsMmsi
    <3>3. QED
      BY <2>1, <2>5, <2>6, <3>1, <3>2 DEF FoundFits
  <2>8. Under(j)'
    BY <2>5, <2>6, <2>7 DEF Under, Judged
  <2>9. ASSUME NEW k \in MatchJobs \ {j} PROVE Under(k)'
    BY <2>1, OtherJobsStay DEF MatchTypes
  <2>10. QED
    BY <2>4, <2>8, <2>9
<1>4. QED
  BY <1>1, <1>2, <1>3

\* The result, of what the identifiers found or else of what the name finds.
LEMMA ResultStep ==
  ASSUME MatchInv, NEW j \in MatchJobs, Matching!MatchSanctions(j)
  PROVE  MatchInv'
<1> DEFINE input == job[j].input
           found == job[j].found
           named == Matching!FindByName(listed, input.name)
           ids == Matching!Match(input, found)
           result == IF ids.status = "sanctioned" THEN ids ELSE Matching!Match(input, named)
<1>1. /\ job[j].pc = "match"
      /\ job' = [job EXCEPT ![j].pc = "decide", ![j].found = {}, ![j].result = result]
      /\ UNCHANGED <<listed, fingerprint, always, ever>>
  BY DEF Matching!MatchSanctions
<1>2. found \subseteq Matching!Candidates /\ named \subseteq Matching!Rows(listed)
  BY DEF MatchInv, MatchTypes, JobStates, Matching!FindByName
<1>3. SpanHolds(j) /\ FoundFits(j)
  BY <1>1 DEF MatchInv, Under
<1>4. result \in Matching!Results
  BY <1>2, RowsTyped, ResultTyped DEF MatchInv
<1>5. \A m \in always[j] : \E c \in found :
        c.entity = m.entity /\ (Matching!ByImo(input, c) \/ Matching!ByMmsi(input, c))
  <2> SUFFICES ASSUME NEW m \in always[j]
               PROVE  \E c \in found : /\ c.entity = m.entity
                                       /\ Matching!ByImo(input, c) \/ Matching!ByMmsi(input, c)
    OBVIOUS
  <2>1. m.method = "imo" \/ m.method = "mmsi"
    BY <1>3, TableFacts DEF SpanHolds, AsImo, AsMmsi
  <2>2. QED
    BY <1>1, <1>3, <2>1 DEF FoundFits
<1>6. /\ always[j] # {} => ids.status = "sanctioned"
      /\ \A m \in always[j] : \E n \in ids.matches : n.entity = m.entity
  BY <1>5, MatchFacts
<1>7. ids.status = "sanctioned" => ids.matches \subseteq ever[j]
  <2> SUFFICES ASSUME ids.status = "sanctioned", NEW m \in ids.matches PROVE m \in ever[j]
    OBVIOUS
  <2>1. m.method # "name_candidate"
    BY DEF Matching!Match, Matching!Identified
  <2>2. PICK c \in found : \/ m = AsImo(c) /\ Matching!ByImo(input, c)
                           \/ m = AsMmsi(c) /\ Matching!ByMmsi(input, c)
    BY <2>1, MatchFacts DEF AsName
  <2>3. QED
    BY <1>3, <2>2 DEF FoundFits
<1>8. Matching!Match(input, named).matches \subseteq ever[j]
  <2> DEFINE byName == Matching!Match(input, named)
  <2>1. \A m \in byName.matches : \E c \in named :
          \/ m = AsImo(c) /\ Matching!ByImo(input, c)
          \/ m = AsMmsi(c) /\ Matching!ByMmsi(input, c)
          \/ m = AsName(c) /\ Matching!ByName(input, c)
    BY MatchFacts
  <2>2. \A m \in byName.matches : m \in Matching!AllMatches(input, listed)
    BY <1>2, <2>1, TableFacts
  <2>3. QED
    BY <1>3, <2>2 DEF SpanHolds
<1>9. /\ result.matches \subseteq ever[j]
      /\ result.status = "sanctioned" <=> \E m \in result.matches : m.method # "name_candidate"
      /\ always[j] # {} => result.status = "sanctioned"
      /\ \A m \in always[j] : \E n \in result.matches : n.entity = m.entity
  BY <1>6, <1>7, <1>8, MatchFacts
<1> HIDE DEF result
<1>10. MatchTypes'
  BY <1>1, <1>4 DEF MatchInv, MatchTypes, JobStates, Phases
<1>11. /\ job'[j].pc = "decide" /\ job'[j].input = input /\ job'[j].found = {}
       /\ job'[j].result = result
  BY <1>1 DEF MatchInv, MatchTypes, JobStates
<1>12. Under(j)'
  BY <1>1, <1>3, <1>9, <1>11 DEF Under, SpanHolds, FoundFits, Judged
<1>13. ASSUME NEW k \in MatchJobs \ {j} PROVE Under(k)'
  BY <1>1, OtherJobsStay DEF MatchInv, MatchTypes
<1>14. QED
  BY <1>10, <1>12, <1>13 DEF MatchInv

\* A job that decides, writes or fails has been judged.
LEMMA EndsStep ==
  ASSUME MatchInv, NEW j \in MatchJobs, Matching!Decide(j) \/ Matching!Apply(j) \/ Matching!Fail(j)
  PROVE  MatchInv'
<1>1. CASE Matching!Decide(j)
  <2>1. /\ job[j].pc = "decide" /\ job' = [job EXCEPT ![j].pc = "apply"]
        /\ UNCHANGED <<listed, fingerprint, always, ever>>
    BY <1>1 DEF Matching!Decide, Matching!Goto
  <2>2. MatchTypes'
    BY <2>1 DEF MatchInv, MatchTypes, JobStates, Phases
  <2>3. /\ job'[j].pc = "apply" /\ job'[j].input = job[j].input /\ job'[j].found = job[j].found
    BY <2>1 DEF MatchInv, MatchTypes, JobStates
  <2>4. Under(j)'
    BY <2>1, <2>3 DEF MatchInv, Under, SpanHolds, FoundFits, Judged
  <2>5. ASSUME NEW k \in MatchJobs \ {j} PROVE Under(k)'
    BY <2>1, OtherJobsStay DEF MatchInv, MatchTypes
  <2>6. QED
    BY <2>2, <2>4, <2>5 DEF MatchInv
<1>2. CASE Matching!Apply(j) \/ Matching!Fail(j)
  <2>1. job' = [job EXCEPT ![j] = Matching!Idle] /\ UNCHANGED <<listed, fingerprint, always, ever>>
    BY <1>2 DEF Matching!Apply, Matching!Fail
  <2>2. Matching!Idle \in JobStates /\ Matching!Idle.pc = "idle"
    BY MatchingFacts DEF Matching!Idle, Matching!Unchecked, Matching!Results, JobStates, Phases,
                         Matching!Inputs
  <2>3. MatchTypes'
    BY <2>1, <2>2 DEF MatchInv, MatchTypes
  <2>4. Under(j)'
    BY <2>1, <2>2 DEF MatchInv, MatchTypes, Under
  <2>5. ASSUME NEW k \in MatchJobs \ {j} PROVE Under(k)'
    BY <2>1, OtherJobsStay DEF MatchInv, MatchTypes
  <2>6. QED
    BY <2>3, <2>4, <2>5 DEF MatchInv
<1>3. QED
  BY <1>1, <1>2

\* A batch of an import only narrows what matched all along, and widens what ever matched.
LEMMA BatchStep ==
  ASSUME MatchInv, NEW e \in Entities, Matching!Upsert(e)
  PROVE  MatchInv'
<1>1. /\ listed[e] < Len(Listings[e]) /\ listed' = [listed EXCEPT ![e] = @ + 1]
      /\ always' = [j \in MatchJobs |->
                      always[j] \cap Matching!IdentifierMatches(job[j].input, listed')]
      /\ ever' = [j \in MatchJobs |-> ever[j] \cup Matching!AllMatches(job[j].input, listed')]
      /\ UNCHANGED <<fingerprint, job>>
  BY DEF Matching!Upsert
<1>2. listed' \in [Entities -> Nat] /\ \A d \in Entities : listed'[d] \in 0..Len(Listings[d])
  BY <1>1, MatchingFacts DEF MatchInv, MatchTypes
<1>3. \A input : Matching!AllMatches(input, listed') \subseteq Matches
  <2>1. \A c \in Matching!Rows(listed') : c.entity \in Entities
    BY DEF Matching!Rows
  <2>2. QED
    BY <2>1 DEF Matching!AllMatches, Matching!IdentifierMatches, Matching!NameMatches, Matches,
                Matching!Methods
<1>4. MatchTypes'
  BY <1>1, <1>2, <1>3 DEF MatchInv, MatchTypes
<1>5. ASSUME NEW j \in MatchJobs PROVE Under(j)'
  <2>1. /\ always'[j] = always[j] \cap Matching!IdentifierMatches(job[j].input, listed')
        /\ ever'[j] = ever[j] \cup Matching!AllMatches(job[j].input, listed')
        /\ job'[j] = job[j]
    BY <1>1
  <2>2. CASE job[j].pc = "idle"
    BY <2>1, <2>2 DEF Under
  <2>3. CASE job[j].pc # "idle"
    <3>1. SpanHolds(j) /\ FoundFits(j) /\ Judged(j)
      BY <2>3 DEF MatchInv, Under
    <3>2. SpanHolds(j)'
      BY <2>1 DEF SpanHolds
    <3>3. FoundFits(j)'
      BY <2>1, <3>1 DEF FoundFits
    <3>4. Judged(j)'
      BY <2>1, <3>1 DEF Judged
    <3>5. QED
      BY <3>2, <3>3, <3>4 DEF Under
  <2>4. QED
    BY <2>2, <2>3
<1>6. QED
  BY <1>4, <1>5 DEF MatchInv

LEMMA MatchInit == Matching!Init => MatchInv
BY MatchingFacts
DEF Matching!Init, MatchInv, MatchTypes, Under, Matching!Idle, Matching!Unchecked,
    Matching!Results, JobStates, Phases, Matching!Inputs

LEMMA MatchInvStep == MatchInv /\ [Matching!Next]_(Matching!vars) => MatchInv'
<1> SUFFICES ASSUME MatchInv, [Matching!Next]_(Matching!vars) PROVE MatchInv'
  OBVIOUS
<1>1. CASE Matching!ChangeProfile
  BY <1>1, MatchingFacts
  DEF Matching!ChangeProfile, MatchInv, MatchTypes, Under, SpanHolds, FoundFits, Judged
<1>2. CASE UNCHANGED Matching!vars
  BY <1>2 DEF Matching!vars, MatchInv, MatchTypes, Under, SpanHolds, FoundFits, Judged
<1>3. QED
  BY <1>1, <1>2, ReadsStep, ResultStep, EndsStep, BatchStep DEF Matching!Next, Matching!Step

\* A judgement over three reads names every entity that had the vessel's IMO or MMSI all
\* along, and none that never matched (matchSanctions, matcher.ts, the candidate queries).
THEOREM AlwaysJudgedInSpan == Spec => []JudgedInSpan
<1>1. MatchInv => JudgedInSpan
  BY DEF MatchInv, Under, Judged, JudgedInSpan, Matching!JudgedInSpan
<1>2. QED
  BY <1>1, MatchInit, MatchInvStep, MatchingSteps, PTL DEF Matching!Spec

-----------------------------------------------------------------------------
(* The vessel's profile.                                                   *)

\* What a static report says of a column, if it says anything, is in the report; of a side,
\* one of the four is not padding.
LEMMA StaticFields ==
  ASSUME NEW r, Profile!IsStatic(r), NEW c \in Profile!Columns, Profile!Fields(r)[c] # Null
  PROVE  /\ Profile!Fields(r)[c] = r.says[c]
         /\ c \in Profile!Sides => \E s \in Profile!Sides : r.says[s] # "unknown"
<1>1. c \in Profile!Sides /\ Profile!Dimensions(r.says)[c] # Null =>
        /\ Profile!Dimensions(r.says)[c] = r.says[c]
        /\ \E s \in Profile!Sides : r.says[s] # "unknown"
  BY DEF Profile!Dimensions
<1>2. CASE r.type = "StaticDataReport"
  <2>1. Profile!Fields(r) = Profile!FromStaticDataReport(r)
    BY <1>2 DEF Profile!Fields
  <2>2. QED
    BY <1>1, <2>1
    DEF Profile!FromStaticDataReport, Profile!Text, Profile!ShipType, Profile!Sides, Profile!Columns
<1>3. CASE r.type = "ShipStaticData"
  <2>1. Profile!Fields(r) = Profile!FromShipStaticData(r)
    BY <1>3 DEF Profile!Fields
  <2>2. QED
    BY <1>1, <2>1
    DEF Profile!FromShipStaticData, Profile!Text, Profile!ShipType, Profile!Imo, Profile!Sides,
        Profile!Texts, Profile!Columns
<1>4. QED
  BY <1>2, <1>3 DEF Profile!IsStatic

\* What a position says of the name, if anything, is in its metadata or in the report.
LEMMA PositionName ==
  ASSUME NEW r, ~Profile!IsStatic(r), Profile!Fields(r)["name"] # Null
  PROVE  Profile!Fields(r)["name"] = r.metaName \/ Profile!Fields(r)["name"] = r.says["name"]
<1>1. Profile!Fields(r) = Profile!FromPosition(r)
  BY DEF Profile!Fields, Profile!IsStatic
<1>2. "name" \in DOMAIN Profile!Nothing
  BY DEF Profile!Nothing, Profile!Columns, Profile!Texts
<1>3. QED
  BY <1>1, <1>2 DEF Profile!FromPosition, Profile!Text

\* The row has a value in every column.
RowWhole == profile = [c \in Profile!Columns |-> profile[c]]

\* A report never takes from the profile what it does not say, and a position never replaces
\* a name (upsertProfile, upsertVesselFromPosition, the normalizer).
THEOREM ProfileOnlyLearns == Spec => OnlyLearns
<1>1. Profile!Init => RowWhole
  BY DEF Profile!Init, RowWhole, Profile!Nothing
<1>2. ASSUME RowWhole, NEW r \in Reports, Profile!Handle(r)
      PROVE  RowWhole' /\ Profile!Learns
  <2>1. CASE profile' = profile
    BY <1>2, <2>1 DEF RowWhole, Profile!Learns
  <2>2. CASE profile' = Profile!Merged(Profile!Fields(r)) /\ Profile!IsStatic(r)
    BY <1>2, <2>2, StaticFields DEF RowWhole, Profile!Learns, Profile!Merged, Profile!Handle
  <2>3. CASE profile' = Profile!Named(Profile!Fields(r)) /\ ~Profile!IsStatic(r)
    <3>1. RowWhole'
      BY <1>2, <2>3 DEF RowWhole, Profile!Named
    <3>2. ASSUME NEW c \in Profile!Columns, profile'[c] # profile[c]
          PROVE  c = "name" /\ profile[c] = Null /\ profile'[c] = Profile!Fields(r)["name"]
      BY <1>2, <2>3, <3>2 DEF RowWhole, Profile!Named
    <3>3. "name" \notin Profile!Sides
      BY DEF Profile!Sides
    <3>4. ASSUME NEW c \in Profile!Columns, profile'[c] # profile[c]
          PROVE  /\ profile'[c] # Null
                 /\ c \notin Profile!Sides /\ profile[c] = Null
                 /\ profile'[c] = r.says[c] \/ (c = "name" /\ profile'[c] = r.metaName)
      BY <2>3, <3>2, <3>3, <3>4, PositionName
    <3>5. r \in flight
      BY <1>2 DEF Profile!Handle
    <3>6. Profile!Learns
      BY <3>4, <3>5 DEF Profile!Learns
    <3>7. QED
      BY <3>1, <3>6
  <2>4. QED
    BY <1>2, <2>1, <2>2, <2>3 DEF Profile!Handle
<1>3. RowWhole /\ [Profile!Next]_(Profile!vars) => RowWhole' /\ [Profile!Learns]_(Profile!vars)
  <2>1. ASSUME RowWhole, profile' = profile PROVE RowWhole' /\ Profile!Learns
    BY <2>1 DEF RowWhole, Profile!Learns
  <2>2. QED
    BY <1>2, <2>1 DEF Profile!Next, Profile!Change, Profile!Broadcast, Profile!vars
<1>4. QED
  BY <1>1, <1>3, ProfileSteps, PTL DEF Profile!Spec, OnlyLearns, Profile!OnlyLearns

-----------------------------------------------------------------------------
(* The geo checks.                                                         *)

CheckProofs == INSTANCE GeoValidationProofs WITH
  active <- activeNow, rows <- rowsNow, faults <- checkFaults

\* They take the steps GeoValidationProofs reasons about.
LEMMA CheckProofsSteps == Check!Spec => CheckProofs!Spec
<1>1. Check!Init => CheckProofs!Init
  BY DEF Check!Init, CheckProofs!Init, Check!DatasetsInit, CheckProofs!DatasetsInit,
         Check!Tables, CheckProofs!Tables, Check!NoLayers, CheckProofs!NoLayers,
         Check!Precisions, CheckProofs!Precisions, Check!Keys, CheckProofs!Keys,
         Check!Disabled, CheckProofs!Disabled, Check!Idle, CheckProofs!Idle
<1>2. Check!Next => CheckProofs!Next
  BY DEF Check!Tables, CheckProofs!Tables, Check!NoLayers, CheckProofs!NoLayers,
         Check!datasetVars, CheckProofs!datasetVars, Check!HasData, CheckProofs!HasData,
         Check!Activate, CheckProofs!Activate, Check!DatasetsNext, CheckProofs!DatasetsNext,
         Check!Covers, CheckProofs!Covers, Check!NearShore, CheckProofs!NearShore,
         Check!ReasonBy, CheckProofs!ReasonBy, Check!Precisions, CheckProofs!Precisions,
         Check!Keys, CheckProofs!Keys, Check!VerdictOf, CheckProofs!VerdictOf, Check!ToResult,
         CheckProofs!ToResult, Check!Disabled, CheckProofs!Disabled, Check!Failure,
         CheckProofs!Failure, Check!BuildKey, CheckProofs!BuildKey, Check!Idle,
         CheckProofs!Idle, Check!Running, CheckProofs!Running, Check!Fault, CheckProofs!Fault,
         Check!Goto, CheckProofs!Goto, Check!Answer, CheckProofs!Answer, Check!Begin,
         CheckProofs!Begin, Check!ReadVersion, CheckProofs!ReadVersion, Check!ReadCache,
         CheckProofs!ReadCache, Check!Evaluate, CheckProofs!Evaluate, Check!WriteCache,
         CheckProofs!WriteCache, Check!Fails, CheckProofs!Fails, Check!Expire,
         CheckProofs!Expire, Check!Restart, CheckProofs!Restart, Check!Import,
         CheckProofs!Import, Check!Step, CheckProofs!Step, Check!Next, CheckProofs!Next
<1>3. UNCHANGED Check!vars => UNCHANGED CheckProofs!vars
  BY DEF Check!vars, CheckProofs!vars, Check!datasetVars, CheckProofs!datasetVars
<1>4. QED
  BY <1>1, <1>2, <1>3, PTL DEF Check!Spec, CheckProofs!Spec

\* Their constants are what its theorems ask for.
LEMMA CheckConstants == CheckProofs!GeoValidationAssumption
BY ServicesAssumption
DEF Check!GeoValidationAssumption, CheckProofs!GeoValidationAssumption,
    Check!GeoDatasetsAssumption, CheckProofs!GeoDatasetsAssumption, Check!Tables,
    CheckProofs!Tables, Check!Spots, CheckProofs!Spots, Check!Layers, CheckProofs!Layers,
    Check!NoLayers, CheckProofs!NoLayers, Check!HasData, CheckProofs!HasData,
    Check!Precisions, CheckProofs!Precisions

\* A verdict is that of a version active during the call, cached or not.
THEOREM CheckAnswersFit == Spec => []AnswersFit
<1>1. CheckProofs!Spec => []CheckProofs!AnswersFit
  BY CheckConstants, CheckProofs!GeoAnswersFit
<1>2. CheckProofs!AnswersFit => AnswersFit
  BY DEF AnswersFit, Check!AnswersFit, CheckProofs!AnswersFit, Check!FitsBucket,
         CheckProofs!FitsBucket, Check!ToResult, CheckProofs!ToResult, Check!VerdictOf,
         CheckProofs!VerdictOf, Check!ReasonBy, CheckProofs!ReasonBy, Check!Covers,
         CheckProofs!Covers, Check!NearShore, CheckProofs!NearShore, Check!Tables,
         CheckProofs!Tables
<1>3. QED
  BY <1>1, <1>2, CheckSteps, CheckProofsSteps, PTL

-----------------------------------------------------------------------------
(* The geo imports.                                                        *)

\* The sources are a sequence, and what an import keeps of one are spots.
LEMMA SourceFacts ==
  ASSUME NEW i \in Imports
  PROVE  /\ Import!SourceCount(i) \in Nat
         /\ \A k \in 1..Import!SourceCount(i) :
              \A features \in SUBSET Import!SourcesOf(i)[k].features :
                Import!Processed(Import!SourcesOf(i)[k], features) \subseteq Import!Spots
         /\ Import!Accepted(Manifest[i]) =>
              \A k \in 1..Import!SourceCount(i) : Import!SourcesOf(i)[k].target \in Import!Tables
         /\ NoVersion \notin Imports /\ MaxFaults \in Nat
<1>0. /\ Manifest[i] \in Seq(Import!ToSet(Manifest[i]))
      /\ Overrides \in Seq(Import!ToSet(Overrides))
      /\ \A s \in Import!ToSet(Overrides) : s.target \in Import!Tables
  BY ServicesAssumption DEF Import!GeoImportAssumption, Import!Tables
<1>1. /\ Import!SourcesOf(i) \in Seq(Import!ToSet(Manifest[i]) \cup Import!ToSet(Overrides))
      /\ \A source \in Import!ToSet(Import!SourcesOf(i)) :
           \A f \in source.features : f.spots \subseteq Import!Spots
      /\ NoVersion \notin Imports /\ MaxFaults \in Nat
  BY <1>0, ServicesAssumption DEF Import!GeoImportAssumption, Import!SourcesOf
<1>2. \A k \in 1..Import!SourceCount(i) :
        Import!SourcesOf(i)[k] \in Import!ToSet(Import!SourcesOf(i))
  BY <1>1 DEF Import!SourceCount, Import!ToSet
<1>3. ASSUME Import!Accepted(Manifest[i]), NEW k \in 1..Import!SourceCount(i)
      PROVE  Import!SourcesOf(i)[k].target \in Import!Tables
  <2>1. Import!SourcesOf(i)[k] \in Import!ToSet(Manifest[i]) \cup Import!ToSet(Overrides)
    BY <1>1 DEF Import!SourceCount
  <2>2. QED
    BY <1>0, <1>3, <2>1 DEF Import!Accepted
<1>4. QED
  BY <1>1, <1>2, <1>3 DEF Import!SourceCount, Import!Processed

ImportArrays ==
  /\ pc \in [Imports -> Import!Phases] /\ next \in [Imports -> Nat]
  /\ staged = [i \in Imports |-> staged[i]]
  /\ written \in [Imports -> [Import!Tables -> SUBSET Import!Spots]]
  /\ locked \in [Imports -> SUBSET Import!Tables] /\ shared \in [Imports -> SUBSET Import!Tables]
  /\ off \in [Imports -> Imports \cup {NoVersion}] /\ active \in Imports \cup {NoVersion}
  /\ rows \in [Imports -> [Import!Tables -> SUBSET Import!Spots]]
  /\ ok \subseteq Imports /\ victims \subseteq Imports /\ importFaults \in 0..MaxFaults

Staging(i, k) == SUBSET Import!SourcesOf(i)[k].features

\* An import inserts from tables that are loaded, indexes and activates what has land and
\* water, has targets that are tables, holds nothing outside its transaction, and has no rows
\* before it is activated.
Orderly(i) ==
  /\ next[i] \in 1..(Import!SourceCount(i) + 1)
  /\ staged[i] = [k \in 1..Import!SourceCount(i) |-> staged[i][k]]
  /\ \A k \in 1..Import!SourceCount(i) : staged[i][k] \in Staging(i, k) \cup {NoTable}
  /\ pc[i] \in {"new", "preparing"} => next[i] = 1
  /\ pc[i] \notin {"new", "ended"} => Import!Accepted(Manifest[i])
  /\ pc[i] = "loading" =>
       \A k \in 1..Import!SourceCount(i) : k < next[i] => staged[i][k] \in Staging(i, k)
  /\ pc[i] = "inserting" =>
       \A k \in 1..Import!SourceCount(i) : staged[i][k] \in Staging(i, k)
  /\ pc[i] \in {"indexing", "deactivating", "activating"} => Import!Enough(i)
  /\ pc[i] \notin Import!InTransaction =>
       /\ written[i] = Import!NoRows /\ locked[i] = {} /\ shared[i] = {}
       /\ off[i] = NoVersion
  /\ pc[i] \notin {"dropping", "ended", "killed"} => rows[i] = Import!NoRows

ImportInv == ImportArrays /\ \A i \in Imports : Orderly(i)

\* A step of one import that stores nothing for another leaves the other as it is.
LEMMA OtherImportsStay ==
  ASSUME NEW j \in Imports, Orderly(j),
         pc'[j] = pc[j], next'[j] = next[j], staged'[j] = staged[j], written'[j] = written[j],
         locked'[j] = locked[j], shared'[j] = shared[j], off'[j] = off[j], rows'[j] = rows[j]
  PROVE  Orderly(j)'
BY DEF Orderly, Import!Enough, Staging

\* Before the transaction: the phase and the loop's source move.
LEMMA BeforeStep ==
  ASSUME ImportInv, NEW i \in Imports,
         Import!Start(i) \/ Import!Prepare(i) \/ Import!Begin(i)
  PROVE  ImportInv'
<1> USE DEF ImportInv, Import!Phases, Import!InTransaction
<1>1. PICK phase, n :
        /\ pc' = [pc EXCEPT ![i] = phase] /\ next' = [next EXCEPT ![i] = n]
        /\ \/ /\ pc[i] = "new" /\ phase \in {"preparing", "ended"} /\ n = next[i]
              /\ phase = "preparing" => Import!Accepted(Manifest[i])
           \/ pc[i] = "preparing" /\ phase \in {"loading", "dropping"} /\ n = next[i]
           \/ /\ pc[i] = "loading" /\ phase \in {"dropping", "inserting"} /\ n = 1
              /\ next[i] > Import!SourceCount(i)
        /\ UNCHANGED <<staged, written, locked, shared, off, active, rows, ok, victims,
                       importFaults>>
  <2>1. CASE Import!Start(i)
    <3>1. next' = [next EXCEPT ![i] = next[i]]
      BY <2>1 DEF Import!Start, ImportArrays
    <3>2. QED
      BY <2>1, <3>1 DEF Import!Start, Import!Goto, Import!txVars, Import!dbVars, Import!histVars
  <2>2. CASE Import!Prepare(i)
    <3>1. next' = [next EXCEPT ![i] = next[i]]
      BY <2>2 DEF Import!Prepare, ImportArrays
    <3>2. QED
      BY <2>2, <3>1 DEF Import!Prepare, Import!Goto, Import!txVars, Import!dbVars,
                        Import!histVars
  <2>3. CASE Import!Begin(i)
    BY <2>3 DEF Import!Begin, Import!Goto, Import!txVars, Import!dbVars, Import!histVars
  <2>4. QED
    BY <2>1, <2>2, <2>3
<1>2. n \in 1..(Import!SourceCount(i) + 1)
  <2>1. Import!SourceCount(i) \in Nat
    BY SourceFacts
  <2>2. next[i] \in 1..(Import!SourceCount(i) + 1)
    BY DEF Orderly
  <2>3. n = next[i] \/ n = 1
    BY <1>1
  <2>4. 1 \in 1..(Import!SourceCount(i) + 1)
    BY <2>1
  <2>5. QED
    BY <2>2, <2>3, <2>4
<1>3. ImportArrays'
  BY <1>1, <1>2, SourceFacts DEF ImportArrays
<1>4. pc'[i] = phase /\ next'[i] = n
  BY <1>1 DEF ImportArrays
<1>5. Orderly(i)'
  <2>1. /\ UNCHANGED <<staged[i], written[i], locked[i], shared[i], off[i], rows[i]>>
        /\ pc[i] \notin Import!InTransaction /\ pc'[i] \notin {"new", "indexing", "deactivating",
                                                               "activating"}
    BY <1>1, <1>4
  <2>2. pc[i] \notin {"dropping", "ended", "killed"}
    BY <1>1
  <2>3. pc'[i] = "preparing" => next'[i] = 1
    BY <1>1, <1>4 DEF Orderly
  <2>4. pc'[i] = "loading" => next'[i] = 1
    BY <1>1, <1>4 DEF Orderly
  <2>5. pc'[i] = "inserting" =>
          \A k \in 1..Import!SourceCount(i) : staged[i][k] \in Staging(i, k)
    <3>1. ASSUME pc'[i] = "inserting", NEW k \in 1..Import!SourceCount(i)
          PROVE  staged[i][k] \in Staging(i, k)
      <4>1. pc[i] = "loading" /\ next[i] > Import!SourceCount(i)
        BY <1>1, <1>4, <3>1
      <4>2. k < next[i]
        BY <4>1, SourceFacts DEF ImportArrays
      <4>3. QED
        BY <4>1, <4>2 DEF Orderly
    <3>2. QED
      BY <3>1
  <2>6. \A k \in 1..Import!SourceCount(i) : ~(k < 1)
    BY SourceFacts
  <2>7. pc'[i] \notin {"new", "ended"} => Import!Accepted(Manifest[i])
    BY <1>1, <1>4 DEF Orderly
  <2>8. QED
    BY <1>2, <1>4, <2>1, <2>2, <2>3, <2>4, <2>5, <2>6, <2>7 DEF Orderly, Staging
<1>6. ASSUME NEW j \in Imports \ {i} PROVE Orderly(j)'
  BY <1>1, OtherImportsStay DEF ImportArrays
<1>7. QED
  BY <1>3, <1>5, <1>6

\* A source is loaded, in full or in part.
LEMMA LoadStep ==
  ASSUME ImportInv, NEW i \in Imports, Import!Load(i)
  PROVE  ImportInv'
<1> USE DEF ImportInv, Import!Phases, Import!InTransaction
<1>1. /\ pc[i] = "loading" /\ next[i] <= Import!SourceCount(i)
      /\ next' = [next EXCEPT ![i] = @ + 1]
      /\ UNCHANGED <<pc, written, locked, shared, off, active, rows, ok, victims>>
  BY DEF Import!Load, Import!Stage, Import!txVars, Import!dbVars
<1>2. next[i] \in 1..Import!SourceCount(i)
  BY <1>1, SourceFacts DEF Orderly, ImportArrays
<1>3. PICK features \in Staging(i, next[i]) :
        staged' = [staged EXCEPT ![i][next[i]] = features]
  BY DEF Import!Load, Import!Stage, Staging
<1>4. importFaults' \in 0..MaxFaults
  BY SourceFacts DEF Import!Load, Import!Fault, ImportArrays
<1>5. next'[i] = next[i] + 1 /\ next' \in [Imports -> Nat]
  BY <1>1 DEF ImportArrays
<1>6. /\ staged' = [j \in Imports |-> staged'[j]]
      /\ staged'[i] = [staged[i] EXCEPT ![next[i]] = features]
      /\ \A j \in Imports \ {i} : staged'[j] = staged[j]
  BY <1>3 DEF ImportArrays
<1>7. ImportArrays'
  BY <1>1, <1>4, <1>5, <1>6 DEF ImportArrays
<1>8. /\ staged'[i] = [k \in 1..Import!SourceCount(i) |-> staged'[i][k]]
      /\ staged'[i][next[i]] = features
      /\ \A k \in 1..Import!SourceCount(i) : k # next[i] => staged'[i][k] = staged[i][k]
  BY <1>2, <1>6 DEF Orderly
<1>9. \A k \in 1..Import!SourceCount(i) : staged'[i][k] \in Staging(i, k) \cup {NoTable}
  BY <1>3, <1>8 DEF Orderly
<1>10. ASSUME NEW k \in 1..Import!SourceCount(i), k < next'[i]
       PROVE  staged'[i][k] \in Staging(i, k)
  <2>1. k = next[i] \/ k < next[i]
    BY <1>2, <1>5, <1>10, SourceFacts
  <2>2. QED
    BY <1>1, <1>3, <1>8, <2>1 DEF Orderly
<1>11. next'[i] \in 1..(Import!SourceCount(i) + 1)
  BY <1>2, <1>5, SourceFacts
<1>12. Orderly(i)'
  BY <1>1, <1>8, <1>9, <1>10, <1>11 DEF Orderly, Staging
<1>13. ASSUME NEW j \in Imports \ {i} PROVE Orderly(j)'
  BY <1>1, <1>6, OtherImportsStay DEF ImportArrays
<1>14. QED
  BY <1>7, <1>12, <1>13

\* A staging table is inserted: its features are spots of the target table.
LEMMA InsertStep ==
  ASSUME ImportInv, NEW i \in Imports, Import!Insert(i)
  PROVE  ImportInv'
<1> USE DEF ImportInv, Import!Phases, Import!InTransaction
<1> DEFINE source == Import!SourcesOf(i)[next[i]]
           t == source.target
           processed == Import!Processed(source, staged[i][next[i]])
<1>1. /\ pc[i] = "inserting" /\ next[i] <= Import!SourceCount(i)
      /\ locked' = [locked EXCEPT ![i] = @ \cup {t}]
      /\ written' = [written EXCEPT ![i][t] = @ \cup processed]
      /\ next' = [next EXCEPT ![i] = @ + 1]
      /\ UNCHANGED <<pc, staged, shared, off, active, rows, ok, victims, importFaults>>
  BY DEF Import!Insert, Import!dbVars, Import!histVars
<1>2. next[i] \in 1..Import!SourceCount(i)
  BY <1>1, SourceFacts DEF Orderly, ImportArrays
<1>3. processed \subseteq Import!Spots
  BY <1>1, <1>2, SourceFacts DEF Orderly, Staging
<1>4. t \in Import!Tables
  BY <1>1, <1>2, SourceFacts DEF Orderly
<1> HIDE DEF t, processed
<1>5. next'[i] = next[i] + 1 /\ next' \in [Imports -> Nat]
  BY <1>1 DEF ImportArrays
<1>6. locked' \in [Imports -> SUBSET Import!Tables]
  BY <1>1, <1>4 DEF ImportArrays
<1>7. written' \in [Imports -> [Import!Tables -> SUBSET Import!Spots]]
  BY <1>1, <1>3, <1>4 DEF ImportArrays
<1>8. ImportArrays'
  BY <1>1, <1>5, <1>6, <1>7 DEF ImportArrays
<1>9. next'[i] \in 1..(Import!SourceCount(i) + 1)
  BY <1>2, <1>5, SourceFacts
<1>10. Orderly(i)'
  BY <1>1, <1>9 DEF Orderly, Staging
<1>11. ASSUME NEW j \in Imports \ {i} PROVE Orderly(j)'
  BY <1>1, OtherImportsStay DEF ImportArrays
<1>12. QED
  BY <1>8, <1>10, <1>11

\* A transaction that ends without a COMMIT, and the finally block or the end of the process:
\* what is staged is kept, but for a table a failed load leaves empty.
LEMMA AbortStep ==
  ASSUME ImportInv, NEW i \in Imports, NEW phase \in {"dropping", "killed"},
         pc[i] \notin {"new", "ended"},
         pc' = [pc EXCEPT ![i] = phase], Import!EndTransaction(i),
         \/ staged' = staged
         \/ next[i] <= Import!SourceCount(i) /\ staged' = [staged EXCEPT ![i][next[i]] = {}],
         next' = next, active' = active, rows' = rows, ok' = ok, victims' \subseteq Imports,
         importFaults' \in 0..MaxFaults
  PROVE  ImportInv'
<1> USE DEF ImportInv, Import!Phases, Import!InTransaction
<1>1. /\ written' = [written EXCEPT ![i] = Import!NoRows]
      /\ locked' = [locked EXCEPT ![i] = {}] /\ shared' = [shared EXCEPT ![i] = {}]
      /\ off' = [off EXCEPT ![i] = NoVersion]
  BY DEF Import!EndTransaction
<1>2. Import!NoRows \in [Import!Tables -> SUBSET Import!Spots]
  BY DEF Import!NoRows
<1>3. /\ staged' = [j \in Imports |-> staged'[j]]
      /\ \A j \in Imports \ {i} : staged'[j] = staged[j]
  BY DEF ImportArrays
<1>4. ImportArrays'
  BY <1>1, <1>2, <1>3 DEF ImportArrays
<1>5. /\ staged'[i] = [k \in 1..Import!SourceCount(i) |-> staged'[i][k]]
      /\ \A k \in 1..Import!SourceCount(i) : staged'[i][k] \in Staging(i, k) \cup {NoTable}
  <2>1. CASE staged' = staged
    BY <2>1 DEF Orderly
  <2>2. CASE /\ next[i] <= Import!SourceCount(i)
             /\ staged' = [staged EXCEPT ![i][next[i]] = {}]
    <3>1. next[i] \in 1..Import!SourceCount(i)
      BY <2>2, SourceFacts DEF Orderly, ImportArrays
    <3>2. staged'[i] = [staged[i] EXCEPT ![next[i]] = {}]
      BY <2>2 DEF ImportArrays
    <3>3. QED
      BY <3>1, <3>2 DEF Orderly, Staging
  <2>3. QED
    BY <2>1, <2>2
<1>6. /\ pc'[i] = phase /\ next'[i] = next[i] /\ written'[i] = Import!NoRows /\ locked'[i] = {}
      /\ shared'[i] = {} /\ off'[i] = NoVersion
  BY <1>1 DEF ImportArrays
<1>7. Orderly(i)'
  BY <1>5, <1>6 DEF Orderly, Staging
<1>8. ASSUME NEW j \in Imports \ {i} PROVE Orderly(j)'
  BY <1>1, <1>3, OtherImportsStay DEF ImportArrays
<1>9. QED
  BY <1>4, <1>7, <1>8

\* The deadlock detector, a failed step and a kill end it so.
LEMMA FailureStep ==
  ASSUME ImportInv, NEW i \in Imports,
         \/ Import!Deadlocked(i) \/ Import!Fail(i) \/ Import!Kill(i)
         \/ Import!EnsureData(i) /\ ~Import!Enough(i)
  PROVE  ImportInv'
<1>1. importFaults \in 0..MaxFaults /\ MaxFaults \in Nat /\ victims \subseteq Imports
  BY SourceFacts DEF ImportInv, ImportArrays
<1>2. CASE Import!Deadlocked(i)
  <2>1. pc[i] \in {"inserting", "indexing"}
    BY <1>2 DEF Import!Deadlocked, Import!WaitsFor
  <2>2. QED
    BY <1>1, <1>2, <2>1, AbortStep
    DEF Import!Deadlocked, Import!Rollback, Import!Goto, Import!dbVars
<1>3. CASE Import!Fail(i)
  <2>1. importFaults' \in 0..MaxFaults
    BY <1>1, <1>3 DEF Import!Fail, Import!Fault
  <2>2. /\ pc' = [pc EXCEPT ![i] = "dropping"] /\ Import!EndTransaction(i)
        /\ UNCHANGED <<next, active, rows, ok, victims>>
        /\ \/ staged' = staged
           \/ next[i] <= Import!SourceCount(i) /\ staged' = [staged EXCEPT ![i][next[i]] = {}]
    BY <1>3 DEF Import!Fail, Import!Rollback, Import!Goto, Import!dbVars
  <2>3. pc[i] \notin {"new", "ended"}
    BY <1>3 DEF Import!Fail, Import!InTry, Import!InTransaction
  <2>4. QED
    BY <1>1, <2>1, <2>2, <2>3, AbortStep
<1>4. CASE Import!Kill(i)
  <2>1. importFaults' \in 0..MaxFaults
    BY <1>1, <1>4 DEF Import!Kill, Import!Fault
  <2>2. /\ pc' = [pc EXCEPT ![i] = "killed"] /\ Import!EndTransaction(i)
        /\ UNCHANGED <<next, staged, active, rows, ok, victims>>
    BY <1>4 DEF Import!Kill, Import!Goto, Import!dbVars
  <2>3. pc[i] \notin {"new", "ended"}
    BY <1>4 DEF Import!Kill, Import!Over
  <2>4. QED
    BY <1>1, <2>1, <2>2, <2>3, AbortStep
<1>5. CASE Import!EnsureData(i) /\ ~Import!Enough(i)
  BY <1>1, <1>5, AbortStep
  DEF Import!EnsureData, Import!Rollback, Import!Goto, Import!dbVars, Import!histVars
<1>6. QED
  BY <1>2, <1>3, <1>4, <1>5

\* As long as not all tables are indexed there is a next one.
LEMMA ToIndexTyped ==
  ASSUME NEW i, shared[i] \subseteq Import!Tables, shared[i] # Import!Tables
  PROVE  Import!ToIndex(i) \in Import!Tables
<1> DEFINE N(k) == /\ Import!IndexOrder[k] \notin shared[i]
                   /\ \A m \in 1..(k - 1) : Import!IndexOrder[m] \in shared[i]
<1>1. /\ Import!IndexOrder[1] = "land" /\ Import!IndexOrder[2] = "water"
      /\ Import!IndexOrder[3] = "overrides"
  BY DEF Import!IndexOrder
<1>2. Import!Tables = {"land", "water", "overrides"}
  BY DEF Import!Tables
<1>3. /\ 1..(1 - 1) = {} /\ 1..(2 - 1) = {1} /\ 1..(3 - 1) = {1, 2} /\ 1..3 = {1, 2, 3}
  OBVIOUS
<1>4. \E k \in 1..3 : N(k)
  <2>1. CASE "land" \notin shared[i]
    BY <1>1, <1>3, <2>1
  <2>2. CASE "land" \in shared[i] /\ "water" \notin shared[i]
    BY <1>1, <1>3, <2>2
  <2>3. CASE "land" \in shared[i] /\ "water" \in shared[i]
    <3>1. "overrides" \notin shared[i]
      BY <1>2, <2>3
    <3>2. N(3)
      BY <1>1, <1>3, <2>3, <3>1
    <3>3. QED
      BY <3>2
  <2>4. QED
    BY <2>1, <2>2, <2>3
<1>5. (CHOOSE k \in 1..3 : N(k)) \in 1..3
  BY <1>4
<1>6. QED
  BY <1>1, <1>2, <1>3, <1>5 DEF Import!ToIndex

\* The other statements of the transaction, and the end of the finally block.
LEMMA TransactionStep ==
  ASSUME ImportInv, NEW i \in Imports,
         \/ Import!EnsureData(i) /\ Import!Enough(i)
         \/ Import!Index(i) \/ Import!Deactivate(i) \/ Import!Drop(i)
  PROVE  ImportInv'
<1> USE DEF ImportInv, Import!Phases, Import!InTransaction
<1>1. CASE Import!EnsureData(i) /\ Import!Enough(i)
  <2>1. /\ pc[i] = "inserting" /\ Import!Enough(i) /\ pc' = [pc EXCEPT ![i] = "indexing"]
        /\ UNCHANGED <<next, staged, written, locked, shared, off, active, rows, ok, victims,
                       importFaults>>
    BY <1>1 DEF Import!EnsureData, Import!Goto, Import!txVars, Import!dbVars, Import!histVars
  <2>2. ImportArrays'
    BY <2>1 DEF ImportArrays
  <2>3. Orderly(i)'
    BY <2>1 DEF ImportArrays, Orderly, Import!Enough, Staging
  <2>4. ASSUME NEW j \in Imports \ {i} PROVE Orderly(j)'
    BY <2>1, OtherImportsStay DEF ImportArrays
  <2>5. QED
    BY <2>2, <2>3, <2>4
<1>2. CASE Import!Index(i)
  <2>1. PICK phase \in {"indexing", "deactivating"} :
          /\ pc[i] = "indexing" /\ shared[i] # Import!Tables
          /\ pc' = [pc EXCEPT ![i] = phase]
          /\ shared' = [shared EXCEPT ![i] = @ \cup {Import!ToIndex(i)}]
          /\ UNCHANGED <<next, staged, written, locked, off, active, rows, ok, victims,
                         importFaults>>
    BY <1>2 DEF Import!Index, Import!Goto, Import!dbVars, Import!histVars
  <2>2. Import!ToIndex(i) \in Import!Tables
    BY <2>1, ToIndexTyped DEF ImportArrays
  <2>3. ImportArrays'
    BY <2>1, <2>2 DEF ImportArrays
  <2>4. Orderly(i)'
    BY <2>1 DEF ImportArrays, Orderly, Import!Enough, Staging
  <2>5. ASSUME NEW j \in Imports \ {i} PROVE Orderly(j)'
    BY <2>1, OtherImportsStay DEF ImportArrays
  <2>6. QED
    BY <2>3, <2>4, <2>5
<1>3. CASE Import!Deactivate(i)
  <2>1. /\ pc[i] = "deactivating" /\ pc' = [pc EXCEPT ![i] = "activating"]
        /\ off' = [off EXCEPT ![i] = active]
        /\ UNCHANGED <<next, staged, written, locked, shared, active, rows, ok, victims,
                       importFaults>>
    BY <1>3 DEF Import!Deactivate, Import!Goto, Import!dbVars, Import!histVars
  <2>2. ImportArrays'
    BY <2>1 DEF ImportArrays
  <2>3. Orderly(i)'
    BY <2>1 DEF ImportArrays, Orderly, Import!Enough, Staging
  <2>4. ASSUME NEW j \in Imports \ {i} PROVE Orderly(j)'
    BY <2>1, OtherImportsStay DEF ImportArrays
  <2>5. QED
    BY <2>2, <2>3, <2>4
<1>4. CASE Import!Drop(i)
  <2> DEFINE none == [k \in 1..Import!SourceCount(i) |-> NoTable]
  <2>1. /\ pc[i] = "dropping" /\ pc' = [pc EXCEPT ![i] = "ended"]
        /\ UNCHANGED <<next, written, locked, shared, off, active, rows, ok, victims>>
        /\ staged' = [staged EXCEPT ![i] = none] \/ staged' = staged
    BY <1>4 DEF Import!Drop, Import!Goto, Import!txVars, Import!dbVars
  <2>2. importFaults' \in 0..MaxFaults
    BY <1>4, SourceFacts DEF Import!Drop, Import!Fault, ImportArrays
  <2>3. /\ staged' = [j \in Imports |-> staged'[j]]
        /\ \A j \in Imports \ {i} : staged'[j] = staged[j]
        /\ staged'[i] = none \/ staged'[i] = staged[i]
    BY <2>1 DEF ImportArrays
  <2>4. ImportArrays'
    BY <2>1, <2>2, <2>3 DEF ImportArrays
  <2>5. pc'[i] = "ended"
    BY <2>1 DEF ImportArrays
  <2>6. Orderly(i)'
    <3>1. /\ staged'[i] = [k \in 1..Import!SourceCount(i) |-> staged'[i][k]]
          /\ \A k \in 1..Import!SourceCount(i) :
               staged'[i][k] \in Staging(i, k) \cup {NoTable}
      <4>1. CASE staged'[i] = none
        BY <4>1
      <4>2. CASE staged'[i] = staged[i]
        BY <4>2 DEF Orderly
      <4>3. QED
        BY <2>3, <4>1, <4>2
    <3> HIDE DEF none
    <3>2. QED
      BY <2>1, <2>5, <3>1 DEF Orderly, Staging
  <2>7. ASSUME NEW j \in Imports \ {i} PROVE Orderly(j)'
    BY <2>1, <2>3, OtherImportsStay DEF ImportArrays
  <2>8. QED
    BY <2>4, <2>6, <2>7
<1>5. QED
  BY <1>1, <1>2, <1>3, <1>4

\* A transaction that comes to its COMMIT stores a version that is whole, has land and water,
\* and was not there before.
LEMMA CommitStep ==
  ASSUME ImportInv, NEW i \in Imports, Import!Commit(i)
  PROVE  /\ ImportInv'
         /\ \/ UNCHANGED <<active, rows>>
            \/ /\ active' = i /\ rows' = [rows EXCEPT ![i] = written[i]]
               /\ rows[i] = Import!NoRows /\ Import!Enough(i)
<1> USE DEF ImportInv, Import!Phases, Import!InTransaction
<1>1. /\ pc[i] = "activating" /\ pc' = [pc EXCEPT ![i] = "dropping"]
      /\ UNCHANGED <<next, staged, victims>>
      /\ written' = [written EXCEPT ![i] = Import!NoRows]
      /\ locked' = [locked EXCEPT ![i] = {}] /\ shared' = [shared EXCEPT ![i] = {}]
      /\ off' = [off EXCEPT ![i] = NoVersion]
  BY DEF Import!Commit, Import!Goto, Import!EndTransaction
<1>2. \/ active' = i /\ rows' = [rows EXCEPT ![i] = written[i]]
      \/ UNCHANGED <<active, rows>>
  BY DEF Import!Commit, Import!dbVars
<1>3. ok' \subseteq Imports /\ importFaults' \in 0..MaxFaults
  BY SourceFacts DEF Import!Commit, Import!Fault, ImportArrays
<1>4. Import!NoRows \in [Import!Tables -> SUBSET Import!Spots]
  BY DEF Import!NoRows
<1>5. ImportArrays'
  BY <1>1, <1>2, <1>3, <1>4 DEF ImportArrays
<1>6. Orderly(i)'
  BY <1>1 DEF ImportArrays, Orderly, Staging
<1>7. ASSUME NEW j \in Imports \ {i} PROVE Orderly(j)'
  BY <1>1, <1>2, OtherImportsStay DEF ImportArrays
<1>8. rows[i] = Import!NoRows /\ Import!Enough(i)
  BY <1>1 DEF Orderly
<1>9. QED
  BY <1>2, <1>5, <1>6, <1>7, <1>8

LEMMA ImportInvStep == ImportInv /\ [Import!Next]_(Import!vars) => ImportInv'
<1> SUFFICES ASSUME ImportInv, [Import!Next]_(Import!vars) PROVE ImportInv'
  OBVIOUS
<1>1. CASE UNCHANGED Import!vars
  <2>1. \A i \in Imports : Orderly(i)'
    BY <1>1 DEF ImportInv, Orderly, Staging, Import!Enough, Import!vars, Import!workVars,
                Import!txVars, Import!dbVars
  <2>2. ImportArrays'
    BY <1>1 DEF ImportInv, ImportArrays, Import!vars, Import!workVars, Import!txVars,
                Import!dbVars, Import!histVars
  <2>3. QED
    BY <2>1, <2>2 DEF ImportInv
<1>2. QED
  BY <1>1, BeforeStep, LoadStep, InsertStep, FailureStep, TransactionStep, CommitStep
  DEF Import!Next, Import!Proceed

LEMMA ImportInit == Import!Init => ImportInv
<1> SUFFICES ASSUME Import!Init PROVE ImportInv
  OBVIOUS
<1>1. Import!NoRows \in [Import!Tables -> SUBSET Import!Spots]
  BY DEF Import!NoRows
<1>2. pc \in [Imports -> Import!Phases]
  BY DEF Import!Init, Import!Phases
<1>3. ASSUME NEW i \in Imports PROVE Orderly(i)
  <2>1. 1 \in 1..(Import!SourceCount(i) + 1) /\ MaxFaults \in Nat
    BY SourceFacts
  <2>2. QED
    BY <2>1 DEF Import!Init, Orderly, Import!InTransaction
<1>4. importFaults \in 0..MaxFaults
  BY ServicesAssumption DEF Import!Init, Import!GeoImportAssumption
<1>5. ImportArrays
  BY <1>1, <1>2, <1>4 DEF Import!Init, ImportArrays
<1>6. QED
  BY <1>3, <1>5 DEF ImportInv

\* What the other actions leave alone.
LEMMA OnlyCommitStores ==
  ASSUME NEW i \in Imports,
         \/ Import!Start(i) \/ Import!Prepare(i) \/ Import!Load(i) \/ Import!Begin(i)
         \/ Import!Insert(i) \/ Import!EnsureData(i) \/ Import!Index(i) \/ Import!Deactivate(i)
         \/ Import!Deadlocked(i) \/ Import!Drop(i) \/ Import!Fail(i) \/ Import!Kill(i)
  PROVE  UNCHANGED <<active, rows>>
BY DEF Import!Start, Import!Prepare, Import!Load, Import!Begin, Import!Insert, Import!EnsureData,
       Import!Index, Import!Deactivate, Import!Deadlocked, Import!Drop, Import!Fail, Import!Kill,
       Import!dbVars

\* Every step of an import is none for the readers of the datasets, or stores and activates
\* one whole version (activateImportedVersion).
THEOREM ImportsShowWholeVersions == Spec => ImplementsDatasets
<1>1. Import!Init => Import!D!DatasetsInit
  BY DEF Import!Init, Import!D!DatasetsInit, Import!NoRows, Import!D!NoLayers, Import!Tables,
         Import!D!Tables
<1>2. ASSUME ImportInv, NEW i \in Imports, Import!Commit(i)
      PROVE  Import!D!DatasetsNext \/ UNCHANGED Import!D!datasetVars
  <2>1. CASE UNCHANGED <<active, rows>>
    BY <2>1 DEF Import!D!datasetVars
  <2>2. CASE /\ active' = i /\ rows' = [rows EXCEPT ![i] = written[i]]
             /\ rows[i] = Import!NoRows /\ Import!Enough(i)
    <3>1. Import!D!Activate(i, written[i])
      BY <2>2 DEF Import!D!Activate, Import!D!HasData, Import!Enough, Import!NoRows,
                  Import!D!NoLayers, Import!Tables, Import!D!Tables
    <3>2. <<i, written[i]>> \in Imports \X [Import!Tables -> SUBSET Import!Spots]
      BY <1>2 DEF ImportInv, ImportArrays
    <3>3. QED
      BY <3>1, <3>2 DEF Import!D!DatasetsNext
  <2>3. QED
    BY <1>2, <2>1, <2>2, CommitStep
<1>3. ImportInv /\ [Import!Next]_(Import!vars) => [Import!D!DatasetsNext]_(Import!D!datasetVars)
  <2> SUFFICES ASSUME ImportInv, [Import!Next]_(Import!vars)
               PROVE  Import!D!DatasetsNext \/ UNCHANGED Import!D!datasetVars
    OBVIOUS
  <2>1. CASE UNCHANGED Import!vars
    BY <2>1 DEF Import!vars, Import!dbVars, Import!D!datasetVars
  <2>2. ASSUME UNCHANGED <<active, rows>> PROVE UNCHANGED Import!D!datasetVars
    BY <2>2 DEF Import!D!datasetVars
  <2>3. QED
    BY <1>2, <2>1, <2>2, OnlyCommitStores DEF Import!Next, Import!Proceed
<1>4. QED
  BY <1>1, <1>3, ImportInit, ImportInvStep, ImportSteps, PTL
  DEF Import!Spec, ImplementsDatasets, Import!ImplementsDatasets, Import!D!Datasets

-----------------------------------------------------------------------------
(* The locks of the imports, and which import is lost.                     *)

\* An import that switches the active version has indexed every table, holds the lock of every
\* table it has written, and still has in off what is active.
Locks(i) ==
  /\ pc[i] \in {"deactivating", "activating"} => shared[i] = Import!Tables
  /\ \A t \in Import!Tables : written[i][t] # {} => t \in locked[i]
  /\ pc[i] = "activating" => off[i] = active

LockInv ==
  /\ \A i \in Imports : Locks(i)
  /\ \A i \in Imports : \A j \in Imports \ {i} : shared[i] \cap locked[j] = {}

\* A step that takes no lock and switches nothing.
LEMMA QuietStep ==
  ASSUME ImportInv, LockInv, NEW i \in Imports,
         NEW phase \in {"new", "preparing", "loading", "inserting", "indexing", "dropping",
                        "ended"},
         pc' = [pc EXCEPT ![i] = phase],
         UNCHANGED <<written, locked, shared, off, active>>
  PROVE  LockInv'
<1>1. /\ \A j \in Imports \ {i} : pc'[j] = pc[j]
      /\ pc'[i] \notin {"deactivating", "activating"}
  BY DEF ImportInv, ImportArrays
<1>2. \A j \in Imports : Locks(j)'
  BY <1>1 DEF LockInv, Locks
<1>3. QED
  BY <1>2 DEF LockInv

\* An import whose transaction ends lets go of its locks; what it commits was written under a
\* lock that no other import about to switch the version could have passed.
LEMMA LetGoStep ==
  ASSUME ImportInv, LockInv, NEW i \in Imports, NEW phase \in {"dropping", "killed"},
         pc' = [pc EXCEPT ![i] = phase], Import!EndTransaction(i),
         active' = active \/ (active' = i /\ pc[i] = "activating")
  PROVE  LockInv'
<1>1. /\ written' = [written EXCEPT ![i] = Import!NoRows]
      /\ locked' = [locked EXCEPT ![i] = {}] /\ shared' = [shared EXCEPT ![i] = {}]
      /\ off' = [off EXCEPT ![i] = NoVersion]
  BY DEF Import!EndTransaction
<1>2. /\ pc'[i] = phase /\ written'[i] = Import!NoRows /\ locked'[i] = {} /\ shared'[i] = {}
      /\ \A j \in Imports \ {i} :
           /\ pc'[j] = pc[j] /\ written'[j] = written[j] /\ locked'[j] = locked[j]
           /\ shared'[j] = shared[j] /\ off'[j] = off[j]
  BY <1>1 DEF ImportInv, ImportArrays
<1>3. Locks(i)'
  BY <1>2 DEF Locks, Import!NoRows
<1>4. ASSUME NEW j \in Imports \ {i} PROVE Locks(j)'
  <2>1. pc[j] = "activating" => active' = active
    <3>1. SUFFICES ASSUME pc[j] = "activating", pc[i] = "activating" PROVE FALSE
      OBVIOUS
    <3>2. "land" \in locked[i]
      BY <3>1 DEF ImportInv, Orderly, Import!Enough, LockInv, Locks, Import!Tables
    <3>3. "land" \in shared[j]
      BY <3>1 DEF LockInv, Locks, Import!Tables
    <3>4. QED
      BY <3>2, <3>3 DEF LockInv
  <2>2. QED
    BY <1>2, <2>1 DEF LockInv, Locks
<1>5. \A k \in Imports : \A j \in Imports \ {k} : shared'[k] \cap locked'[j] = {}
  BY <1>2 DEF LockInv
<1>6. QED
  BY <1>3, <1>4, <1>5 DEF LockInv

\* INSERT and CREATE INDEX wait for each other's lock.
LEMMA TakeStep ==
  ASSUME ImportInv, LockInv, NEW i \in Imports, Import!Insert(i) \/ Import!Index(i)
  PROVE  LockInv'
<1>1. CASE Import!Insert(i)
  <2> DEFINE t == Import!SourcesOf(i)[next[i]].target
             kept == Import!Processed(Import!SourcesOf(i)[next[i]], staged[i][next[i]])
  <2>1. /\ pc[i] = "inserting" /\ \A j \in Imports \ {i} : t \notin shared[j]
        /\ locked' = [locked EXCEPT ![i] = @ \cup {t}]
        /\ written' = [written EXCEPT ![i][t] = @ \cup kept]
        /\ UNCHANGED <<pc, shared, off, active>>
    BY <1>1 DEF Import!Insert, Import!dbVars
  <2> HIDE DEF t, kept
  <2>2. /\ locked'[i] = locked[i] \cup {t}
        /\ \A s \in Import!Tables : s # t => written'[i][s] = written[i][s]
        /\ \A j \in Imports \ {i} : locked'[j] = locked[j] /\ written'[j] = written[j]
    BY <2>1 DEF ImportInv, ImportArrays
  <2>3. Locks(i)'
    BY <2>1, <2>2 DEF LockInv, Locks
  <2>4. \A j \in Imports \ {i} : Locks(j)'
    BY <2>1, <2>2 DEF LockInv, Locks
  <2>5. \A k \in Imports : \A j \in Imports \ {k} : shared'[k] \cap locked'[j] = {}
    BY <2>1, <2>2 DEF LockInv
  <2>6. QED
    BY <2>3, <2>4, <2>5 DEF LockInv
<1>2. CASE Import!Index(i)
  <2> DEFINE t == Import!ToIndex(i)
  <2>1. /\ pc[i] = "indexing" /\ \A j \in Imports \ {i} : t \notin locked[j]
        /\ shared' = [shared EXCEPT ![i] = @ \cup {t}]
        /\ pc' = [pc EXCEPT ![i] = IF shared'[i] = Import!Tables THEN "deactivating"
                                                                  ELSE "indexing"]
        /\ UNCHANGED <<written, locked, off, active>>
    BY <1>2 DEF Import!Index, Import!Goto, Import!dbVars
  <2> HIDE DEF t
  <2>2. /\ shared'[i] = shared[i] \cup {t}
        /\ pc'[i] = IF shared'[i] = Import!Tables THEN "deactivating" ELSE "indexing"
        /\ \A j \in Imports \ {i} : shared'[j] = shared[j] /\ pc'[j] = pc[j]
    BY <2>1 DEF ImportInv, ImportArrays
  <2>3. Locks(i)'
    BY <2>1, <2>2 DEF LockInv, Locks
  <2>4. \A j \in Imports \ {i} : Locks(j)'
    BY <2>1, <2>2 DEF LockInv, Locks
  <2>5. \A k \in Imports : \A j \in Imports \ {k} : shared'[k] \cap locked'[j] = {}
    BY <2>1, <2>2 DEF LockInv
  <2>6. QED
    BY <2>3, <2>4, <2>5 DEF LockInv
<1>3. QED
  BY <1>1, <1>2

LEMMA LockInvStep == ImportInv /\ LockInv /\ [Import!Next]_(Import!vars) => LockInv'
<1> SUFFICES ASSUME ImportInv, LockInv, [Import!Next]_(Import!vars) PROVE LockInv'
  OBVIOUS
<1>1. CASE UNCHANGED Import!vars
  BY <1>1 DEF LockInv, Locks, Import!vars, Import!workVars, Import!txVars, Import!dbVars
<1>2. ASSUME NEW i \in Imports,
             \/ Import!Start(i) \/ Import!Prepare(i) \/ Import!Load(i) \/ Import!Begin(i)
             \/ Import!EnsureData(i) /\ Import!Enough(i)
             \/ Import!Drop(i)
      PROVE  LockInv'
  <2>1. PICK phase \in {"new", "preparing", "loading", "inserting", "indexing", "dropping",
                        "ended"} : pc' = [pc EXCEPT ![i] = phase]
    <3>1. CASE Import!Load(i)
      <4>1. pc' = [pc EXCEPT ![i] = "loading"]
        BY <3>1 DEF Import!Load, ImportInv, ImportArrays
      <4>2. QED
        BY <4>1
    <3>2. CASE ~Import!Load(i)
      BY <1>2, <3>2 DEF Import!Start, Import!Prepare, Import!Begin, Import!EnsureData, Import!Drop,
                        Import!Goto
    <3>3. QED
      BY <3>1, <3>2
  <2>2. UNCHANGED <<written, locked, shared, off, active>>
    BY <1>2 DEF Import!Start, Import!Prepare, Import!Load, Import!Begin, Import!EnsureData,
                Import!Drop, Import!txVars, Import!dbVars
  <2>3. QED
    BY <2>1, <2>2, QuietStep
<1>3. ASSUME NEW i \in Imports,
             \/ Import!EnsureData(i) /\ ~Import!Enough(i)
             \/ Import!Commit(i) \/ Import!Deadlocked(i) \/ Import!Fail(i) \/ Import!Kill(i)
      PROVE  LockInv'
  <2>1. /\ pc' = [pc EXCEPT ![i] = "dropping"] \/ pc' = [pc EXCEPT ![i] = "killed"]
        /\ Import!EndTransaction(i)
    BY <1>3 DEF Import!EnsureData, Import!Commit, Import!Deadlocked, Import!Fail, Import!Kill,
                Import!Rollback, Import!Goto
  <2>2. active' = active \/ (active' = i /\ pc[i] = "activating")
    <3>1. CASE Import!Commit(i)
      BY <3>1 DEF Import!Commit, Import!dbVars
    <3>2. CASE ~Import!Commit(i)
      <4>1. UNCHANGED <<active, rows>>
        BY <1>3, <3>2, OnlyCommitStores
      <4>2. QED
        BY <4>1
    <3>3. QED
      BY <3>1, <3>2
  <2>3. QED
    BY <2>1, <2>2, LetGoStep
<1>4. ASSUME NEW i \in Imports, Import!Deactivate(i) PROVE LockInv'
  <2>1. /\ pc[i] = "deactivating" /\ pc' = [pc EXCEPT ![i] = "activating"]
        /\ off' = [off EXCEPT ![i] = active]
        /\ UNCHANGED <<written, locked, shared, active>>
    BY <1>4 DEF Import!Deactivate, Import!Goto, Import!dbVars
  <2>2. /\ off'[i] = active
        /\ \A j \in Imports \ {i} : pc'[j] = pc[j] /\ off'[j] = off[j]
    BY <2>1 DEF ImportInv, ImportArrays
  <2>3. \A j \in Imports : Locks(j)'
    BY <2>1, <2>2 DEF LockInv, Locks
  <2>4. QED
    BY <2>1, <2>3 DEF LockInv
<1>5. QED
  BY <1>1, <1>2, <1>3, <1>4, TakeStep DEF Import!Next, Import!Proceed

LEMMA LockInit == Import!Init => LockInv
BY DEF Import!Init, LockInv, Locks, Import!NoRows

\* Without faults every table is loaded whole and all of it that counts is inserted, only imports
\* with a good manifest and intact files come to their transaction, and none leaves a table.
Inserted(i, k) ==
  LET source == Import!SourcesOf(i)[k]
  IN  Import!Processed(source, source.features) \subseteq written[i][source.target]

Careful(i) ==
  /\ pc[i] \in {"new", "preparing", "ended"} =>
       \A k \in 1..Import!SourceCount(i) : staged[i][k] = NoTable
  /\ pc[i] = "loading" =>
       /\ \A k \in 1..Import!SourceCount(i) :
            k < next[i] => staged[i][k] = Import!SourcesOf(i)[k].features
       /\ \A s \in Import!ToSet(Import!SourcesOf(i)) : s.intact
  /\ pc[i] = "inserting" =>
       \A k \in 1..Import!SourceCount(i) :
         /\ staged[i][k] = Import!SourcesOf(i)[k].features
         /\ k < next[i] => Inserted(i, k)
  /\ pc[i] \in Import!InTransaction => Import!Ready(i)

Lost(i) == pc[i] \in {"dropping", "ended"} /\ Import!Sound(i) /\ i \notin ok
Outdone(i) == i \in victims /\ \E j \in Imports \ {i} : Import!Prevails(j)

AllCareful == ImportInv /\ LockInv /\ importFaults = 0 /\ \A i \in Imports : Careful(i)

LEMMA OtherCareful ==
  ASSUME NEW j \in Imports, Careful(j), pc'[j] = pc[j], next'[j] = next[j],
         staged'[j] = staged[j], written'[j] = written[j]
  PROVE  Careful(j)'
BY DEF Careful, Inserted

\* A step without a fault is none of Fail and Kill.
LEMMA FaultFree ==
  ASSUME ImportInv, importFaults' = 0
  PROVE  ~Import!Fault
BY DEF ImportInv, ImportArrays, Import!Fault

\* An import that has inserted all its sources and lacks land or water was never to have them.
LEMMA LackingIsUnsound ==
  ASSUME AllCareful, NEW i \in Imports, Import!EnsureData(i), ~Import!Enough(i)
  PROVE  ~Import!Sound(i)
<1> SUFFICES ASSUME Import!Sound(i) PROVE Import!Enough(i)
  OBVIOUS
<1>1. pc[i] = "inserting" /\ next[i] > Import!SourceCount(i)
  BY DEF Import!EnsureData
<1>2. \A k \in 1..Import!SourceCount(i) : Inserted(i, k)
  <2>1. \A k \in 1..Import!SourceCount(i) : k < next[i]
    BY <1>1, SourceFacts DEF AllCareful, ImportInv, ImportArrays
  <2>2. QED
    BY <1>1, <2>1 DEF AllCareful, Careful
<1>3. ASSUME NEW t \in {"land", "water"} PROVE written[i][t] # {}
  <2>1. PICK s \in Import!ToSet(Import!SourcesOf(i)) :
          s.target = t /\ Import!Processed(s, s.features) # {}
    BY DEF Import!Sound
  <2>2. PICK k \in 1..Import!SourceCount(i) : Import!SourcesOf(i)[k] = s
    BY DEF Import!ToSet, Import!SourceCount
  <2>3. QED
    BY <1>2, <2>1, <2>2 DEF Inserted
<1>4. QED
  BY <1>3 DEF Import!Enough

\* Before the transaction.
LEMMA CarefulBefore ==
  ASSUME AllCareful, importFaults' = 0, NEW i \in Imports,
         \/ Import!Start(i) \/ Import!Prepare(i) \/ Import!Load(i) \/ Import!Begin(i)
  PROVE  \A j \in Imports : Careful(j)'
<1> USE DEF AllCareful, ImportInv, Import!InTransaction
<1>1. CASE Import!Start(i) \/ Import!Prepare(i)
  <2>1. PICK phase \in {"preparing", "ended", "loading", "dropping"} :
          /\ pc' = [pc EXCEPT ![i] = phase]
          /\ pc[i] \in {"new", "preparing"}
          /\ phase = "loading" => \A s \in Import!ToSet(Import!SourcesOf(i)) : s.intact
          /\ pc[i] = "preparing" => phase \in {"loading", "dropping"}
          /\ UNCHANGED <<next, staged, written>>
    BY <1>1 DEF Import!Start, Import!Prepare, Import!Goto, Import!txVars
  <2>2. pc'[i] = phase /\ \A j \in Imports \ {i} : pc'[j] = pc[j]
    BY <2>1 DEF ImportArrays
  <2>3. next[i] = 1
    BY <2>1 DEF Orderly
  <2>4. \A k \in 1..Import!SourceCount(i) : ~(k < 1)
    BY SourceFacts
  <2>5. Careful(i)'
    BY <2>1, <2>2, <2>3, <2>4 DEF Careful
  <2>6. QED
    BY <2>1, <2>2, <2>5, OtherCareful
<1>2. CASE Import!Load(i)
  <2>1. /\ pc[i] = "loading" /\ next[i] <= Import!SourceCount(i)
        /\ next' = [next EXCEPT ![i] = @ + 1]
        /\ staged' = [staged EXCEPT ![i][next[i]] = Import!SourcesOf(i)[next[i]].features]
        /\ UNCHANGED <<pc, written>>
    BY <1>2, FaultFree DEF Import!Load, Import!Stage, Import!txVars
  <2>2. next[i] \in 1..Import!SourceCount(i)
    BY <2>1, SourceFacts DEF Orderly, ImportArrays
  <2>3. /\ next'[i] = next[i] + 1
        /\ staged'[i] = [staged[i] EXCEPT ![next[i]] = Import!SourcesOf(i)[next[i]].features]
        /\ \A j \in Imports \ {i} : staged'[j] = staged[j] /\ next'[j] = next[j]
    BY <2>1 DEF ImportArrays
  <2>4. /\ staged'[i][next[i]] = Import!SourcesOf(i)[next[i]].features
        /\ \A k \in 1..Import!SourceCount(i) : k # next[i] => staged'[i][k] = staged[i][k]
    BY <2>2, <2>3 DEF Orderly
  <2>5. \A k \in 1..Import!SourceCount(i) :
          k < next'[i] => staged'[i][k] = Import!SourcesOf(i)[k].features
    <3>1. ASSUME NEW k \in 1..Import!SourceCount(i), k < next'[i]
          PROVE  staged'[i][k] = Import!SourcesOf(i)[k].features
      <4>1. k = next[i] \/ k < next[i]
        BY <2>2, <2>3, <3>1, SourceFacts
      <4>2. QED
        BY <2>1, <2>4, <4>1 DEF Careful
    <3>2. QED
      BY <3>1
  <2>6. Careful(i)'
    BY <2>1, <2>5 DEF Careful
  <2>7. QED
    BY <2>1, <2>3, <2>6, OtherCareful
<1>3. CASE Import!Begin(i)
  <2>1. /\ pc[i] = "loading" /\ next[i] > Import!SourceCount(i)
        /\ pc' = [pc EXCEPT ![i] = IF i \in FailAfterLoad THEN "dropping" ELSE "inserting"]
        /\ next' = [next EXCEPT ![i] = 1]
        /\ UNCHANGED <<staged, written>>
    BY <1>3 DEF Import!Begin, Import!Goto, Import!txVars
  <2>2. /\ pc'[i] = IF i \in FailAfterLoad THEN "dropping" ELSE "inserting"
        /\ next'[i] = 1
        /\ \A j \in Imports \ {i} : pc'[j] = pc[j] /\ next'[j] = next[j]
    BY <2>1 DEF ImportArrays
  <2>3. \A k \in 1..Import!SourceCount(i) : k < next[i] /\ ~(k < 1)
    BY <2>1, SourceFacts DEF ImportArrays
  <2>4. \A k \in 1..Import!SourceCount(i) : staged[i][k] = Import!SourcesOf(i)[k].features
    BY <2>1, <2>3 DEF Careful
  <2>5. pc'[i] = "inserting" => Import!Ready(i)
    <3>1. Import!Accepted(Manifest[i])
      BY <2>1 DEF Orderly
    <3>2. \A s \in Import!ToSet(Import!SourcesOf(i)) : s.intact
      BY <2>1 DEF Careful
    <3>3. QED
      BY <2>2, <3>1, <3>2 DEF Import!Ready
  <2>6. Careful(i)'
    BY <2>1, <2>2, <2>3, <2>4, <2>5 DEF Careful
  <2>7. QED
    BY <2>1, <2>2, <2>6, OtherCareful
<1>4. QED
  BY <1>1, <1>2, <1>3

\* In the transaction and after it.
LEMMA CarefulAfter ==
  ASSUME AllCareful, importFaults' = 0, NEW i \in Imports,
         \/ Import!Insert(i) \/ Import!EnsureData(i) \/ Import!Index(i) \/ Import!Deactivate(i)
         \/ Import!Commit(i) \/ Import!Deadlocked(i) \/ Import!Drop(i)
  PROVE  \A j \in Imports : Careful(j)'
<1> USE DEF AllCareful, ImportInv, Import!InTransaction
<1>1. CASE Import!Insert(i)
  <2> DEFINE source == Import!SourcesOf(i)[next[i]]
             t == source.target
             kept == Import!Processed(source, staged[i][next[i]])
  <2>1. /\ pc[i] = "inserting" /\ next[i] <= Import!SourceCount(i)
        /\ written' = [written EXCEPT ![i][t] = @ \cup kept]
        /\ next' = [next EXCEPT ![i] = @ + 1]
        /\ UNCHANGED <<pc, staged>>
    BY <1>1 DEF Import!Insert
  <2>2. next[i] \in 1..Import!SourceCount(i)
    BY <2>1, SourceFacts DEF Orderly, ImportArrays
  <2>3. t \in Import!Tables
    BY <2>1, <2>2, SourceFacts DEF Orderly
  <2>4. kept = Import!Processed(source, source.features)
    BY <2>1, <2>2 DEF Careful
  <2>5. /\ next'[i] = next[i] + 1 /\ kept \subseteq written'[i][t]
        /\ \A s \in Import!Tables : written[i][s] \subseteq written'[i][s]
        /\ \A j \in Imports \ {i} : written'[j] = written[j] /\ next'[j] = next[j]
    <3> HIDE DEF t, kept
    <3>1. QED
      BY <2>1, <2>3 DEF ImportArrays
  <2>6. ASSUME NEW k \in 1..Import!SourceCount(i), k < next'[i] PROVE Inserted(i, k)'
    <3>1. CASE k = next[i]
      BY <2>4, <2>5, <3>1 DEF Inserted
    <3>2. CASE k # next[i]
      <4>1. k < next[i]
        BY <2>2, <2>5, <2>6, <3>2, SourceFacts
      <4>2. Inserted(i, k)
        BY <2>1, <4>1 DEF Careful
      <4>3. Import!SourcesOf(i)[k].target \in Import!Tables
        BY <2>1, SourceFacts DEF Orderly
      <4>4. QED
        BY <2>5, <4>2, <4>3 DEF Inserted
    <3>3. QED
      BY <3>1, <3>2
  <2>7. Careful(i)'
    BY <2>1, <2>6 DEF Careful
  <2>8. QED
    BY <2>1, <2>5, <2>7, OtherCareful
<1>2. CASE \/ Import!EnsureData(i) \/ Import!Index(i) \/ Import!Deactivate(i)
           \/ Import!Commit(i) \/ Import!Deadlocked(i)
  <2>1. PICK phase \in {"indexing", "deactivating", "activating", "dropping"} :
          pc' = [pc EXCEPT ![i] = phase]
    BY <1>2 DEF Import!EnsureData, Import!Index, Import!Deactivate, Import!Commit,
                Import!Deadlocked, Import!Rollback, Import!Goto
  <2>2. /\ pc[i] \in Import!InTransaction /\ UNCHANGED <<next, staged>>
        /\ written' = written \/ written' = [written EXCEPT ![i] = Import!NoRows]
    BY <1>2 DEF Import!EnsureData, Import!Index, Import!Deactivate, Import!Commit,
                Import!Deadlocked, Import!WaitsFor, Import!Rollback, Import!EndTransaction,
                Import!txVars
  <2>3. pc'[i] = phase /\ \A j \in Imports \ {i} : pc'[j] = pc[j] /\ written'[j] = written[j]
    BY <2>1, <2>2 DEF ImportArrays
  <2>4. Careful(i)'
    BY <2>2, <2>3 DEF Careful
  <2>5. QED
    BY <2>2, <2>3, <2>4, OtherCareful
<1>3. CASE Import!Drop(i)
  <2>1. /\ pc' = [pc EXCEPT ![i] = "ended"] /\ UNCHANGED <<next, written>>
        /\ staged' = [staged EXCEPT ![i] = [k \in 1..Import!SourceCount(i) |-> NoTable]]
    BY <1>3, FaultFree DEF Import!Drop, Import!Goto, Import!txVars
  <2>2. /\ pc'[i] = "ended" /\ staged'[i] = [k \in 1..Import!SourceCount(i) |-> NoTable]
        /\ \A j \in Imports \ {i} : pc'[j] = pc[j] /\ staged'[j] = staged[j]
    BY <2>1 DEF ImportArrays
  <2>3. Careful(i)'
    BY <2>2 DEF Careful
  <2>4. QED
    BY <2>1, <2>2, <2>3, OtherCareful
<1>4. QED
  BY <1>1, <1>2, <1>3

\* Without faults an import leaves its transaction by its COMMIT, for lack of land or water, or as
\* the victim of another, and before the transaction only one that is not sound gives up.
LEMMA WaysOut ==
  ASSUME AllCareful, importFaults' = 0, NEW m \in Imports, Import!Start(m) \/ Import!Proceed(m)
  PROVE  /\ \A j \in Imports \ {m} : pc'[j] = pc[j]
         /\ ok' = ok \/ ok' = ok \cup {m}
         /\ victims \subseteq victims'
         /\ \/ /\ pc[m] \in {"new", "preparing", "loading"}
               /\ pc'[m] \in {"dropping", "ended"} => ~Import!Sound(m)
            \/ /\ pc[m] \in Import!InTransaction
               /\ \/ pc'[m] \in Import!InTransaction \/ m \in ok'
                  \/ pc'[m] = "dropping" /\ Import!Ready(m) /\ ~Import!Sound(m)
                  \/ m \in victims' /\ \E k \in Imports \ {m} : pc[k] \in Import!InTransaction
            \/ pc[m] = "dropping" /\ pc'[m] = "ended"
<1> USE DEF AllCareful, ImportInv, ImportArrays, Import!InTransaction
<1>1. CASE Import!Start(m) \/ Import!Prepare(m) \/ Import!Begin(m)
  BY <1>1 DEF Import!Start, Import!Prepare, Import!Begin, Import!Goto, Import!histVars,
              Import!Sound, Import!Ready
<1>2. CASE Import!Load(m)
  BY <1>2 DEF Import!Load
<1>3. CASE Import!Insert(m)
  BY <1>3 DEF Import!Insert, Import!histVars
<1>4. CASE Import!EnsureData(m)
  <2>1. pc[m] = "inserting" /\ UNCHANGED <<ok, victims>>
    BY <1>4 DEF Import!EnsureData, Import!histVars
  <2>2. CASE Import!Enough(m)
    BY <1>4, <2>1, <2>2 DEF Import!EnsureData, Import!Goto
  <2>3. CASE ~Import!Enough(m)
    <3>1. ~Import!Sound(m) /\ Import!Ready(m)
      BY <1>4, <2>1, <2>3, LackingIsUnsound DEF Careful
    <3>2. pc' = [pc EXCEPT ![m] = "dropping"]
      BY <1>4, <2>3 DEF Import!EnsureData, Import!Rollback, Import!Goto
    <3>3. QED
      BY <2>1, <3>1, <3>2
  <2>4. QED
    BY <2>2, <2>3
<1>5. CASE Import!Index(m) \/ Import!Deactivate(m)
  BY <1>5 DEF Import!Index, Import!Deactivate, Import!Goto, Import!histVars
<1>6. CASE Import!Commit(m)
  <2>1. pc[m] = "activating" /\ pc' = [pc EXCEPT ![m] = "dropping"] /\ UNCHANGED victims
    BY <1>6 DEF Import!Commit, Import!Goto
  <2>2. active = off[m]
    BY <2>1 DEF LockInv, Locks
  <2>3. ok' = ok \cup {m}
    BY <1>6, <2>2, FaultFree DEF Import!Commit
  <2>4. QED
    BY <2>1, <2>3
<1>7. CASE Import!Deadlocked(m)
  <2>1. PICK k \in Import!WaitsFor(m) : m \in Import!WaitsFor(k)
    BY <1>7 DEF Import!Deadlocked
  <2>2. k \in Imports \ {m} /\ pc[k] \in Import!InTransaction /\ pc[m] \in Import!InTransaction
    BY <2>1 DEF Import!WaitsFor
  <2>3. /\ pc' = [pc EXCEPT ![m] = "dropping"] /\ UNCHANGED ok /\ victims' = victims \cup {m}
    BY <1>7 DEF Import!Deadlocked, Import!Rollback, Import!Goto
  <2>4. QED
    BY <2>2, <2>3
<1>8. CASE Import!Drop(m)
  BY <1>8 DEF Import!Drop, Import!Goto
<1>9. QED
  BY <1>1, <1>2, <1>3, <1>4, <1>5, <1>6, <1>7, <1>8 DEF Import!Proceed

\* Whoever was to prevail over an import that is out of its transaction still is, or has been
\* aborted for one that is.
LEMMA WinnerStays ==
  ASSUME AllCareful, importFaults' = 0, NEW m \in Imports, Import!Start(m) \/ Import!Proceed(m),
         NEW i \in Imports, pc[i] \notin Import!InTransaction,
         NEW j \in Imports \ {i}, Import!Prevails(j)
  PROVE  \E k \in Imports \ {i} : Import!Prevails(k)'
<1>1. CASE m # j
  <2>1. Import!Prevails(j)'
    BY <1>1, WaysOut DEF Import!Prevails
  <2>2. QED
    BY <2>1
<1>2. CASE m = j
  <2>1. CASE \/ m \in ok' \/ pc'[m] \in Import!InTransaction
             \/ pc'[m] \in {"dropping", "ended"} /\ Import!Ready(m) /\ ~Import!Sound(m)
    BY <1>2, <2>1 DEF Import!Prevails
  <2>2. CASE \E k \in Imports \ {m} : pc[k] \in Import!InTransaction
    <3>1. PICK k \in Imports \ {m} : pc[k] \in Import!InTransaction
      BY <2>2
    <3>2. k \in Imports \ {i} /\ Import!Prevails(k)'
      BY <3>1, WaysOut DEF Import!Prevails
    <3>3. QED
      BY <3>2
  <2>3. QED
    BY <1>2, <2>1, <2>2, WaysOut DEF Import!Prevails, Import!InTransaction
<1>3. QED
  BY <1>1, <1>2

LEMMA OutdoneStep ==
  ASSUME AllCareful, importFaults' = 0, NEW m \in Imports, Import!Start(m) \/ Import!Proceed(m),
         \A i \in Imports : Lost(i) => Outdone(i)
  PROVE  \A i \in Imports : Lost(i)' => Outdone(i)'
<1> SUFFICES ASSUME NEW i \in Imports, Lost(i)' PROVE Outdone(i)'
  OBVIOUS
<1>1. pc'[i] \in {"dropping", "ended"} /\ Import!Sound(i) /\ i \notin ok'
  BY DEF Lost
<1>2. CASE Lost(i)
  <2>1. PICK j \in Imports \ {i} : Import!Prevails(j)
    BY <1>2 DEF Outdone
  <2>2. pc[i] \notin Import!InTransaction
    BY <1>2 DEF Lost, Import!InTransaction
  <2>3. \E k \in Imports \ {i} : Import!Prevails(k)'
    BY <2>1, <2>2, WinnerStays
  <2>4. QED
    BY <1>2, <2>3, WaysOut DEF Outdone
<1>3. CASE ~Lost(i)
  <2>1. i = m /\ pc[m] \notin {"dropping", "ended"}
    BY <1>1, <1>3, WaysOut DEF Lost
  <2>2. PICK k \in Imports \ {m} : m \in victims' /\ pc[k] \in Import!InTransaction
    BY <1>1, <2>1, WaysOut DEF Import!InTransaction
  <2>3. Import!Prevails(k)'
    BY <2>2, WaysOut DEF Import!Prevails
  <2>4. QED
    BY <2>1, <2>2, <2>3 DEF Outdone
<1>4. QED
  BY <1>2, <1>3

Unharmed ==
  importFaults = 0 => \A i \in Imports : Careful(i) /\ (Lost(i) => Outdone(i))

LEMMA UnharmedStep ==
  ImportInv /\ LockInv /\ Unharmed /\ [Import!Next]_(Import!vars) => Unharmed'
<1> SUFFICES ASSUME ImportInv, LockInv, Unharmed, [Import!Next]_(Import!vars), importFaults' = 0
             PROVE  \A i \in Imports : Careful(i)' /\ (Lost(i)' => Outdone(i)')
  BY DEF Unharmed
<1>1. CASE UNCHANGED Import!vars
  <2>1. importFaults = 0
    BY <1>1 DEF Import!vars, Import!histVars
  <2>2. QED
    BY <1>1, <2>1 DEF Unharmed, Careful, Inserted, Lost, Outdone, Import!Prevails, Import!vars,
                      Import!workVars, Import!txVars, Import!histVars
<1>2. ASSUME NEW m \in Imports, Import!Fail(m) \/ Import!Kill(m) PROVE FALSE
  BY <1>2, FaultFree DEF Import!Fail, Import!Kill
<1>3. ASSUME NEW m \in Imports, Import!Start(m) \/ Import!Proceed(m)
      PROVE  \A i \in Imports : Careful(i)' /\ (Lost(i)' => Outdone(i)')
  <2>1. importFaults = 0
    <3>1. ~Import!Fault
      BY FaultFree
    <3>2. importFaults' = importFaults
      BY <1>3, <3>1
      DEF Import!Start, Import!Proceed, Import!Prepare, Import!Load, Import!Begin, Import!Insert,
          Import!EnsureData, Import!Index, Import!Deactivate, Import!Commit, Import!Deadlocked,
          Import!Drop, Import!histVars
    <3>3. QED
      BY <3>2
  <2>2. AllCareful /\ \A i \in Imports : Lost(i) => Outdone(i)
    BY <2>1 DEF AllCareful, Unharmed
  <2>3. \A i \in Imports : Careful(i)'
    BY <1>3, <2>2, CarefulBefore, CarefulAfter DEF Import!Proceed
  <2>4. QED
    BY <1>3, <2>2, <2>3, OutdoneStep
<1>4. QED
  BY <1>1, <1>2, <1>3 DEF Import!Next

\* Without faults no import leaves a staging table behind, and a sound one is lost only as the
\* victim of a deadlock with one that gets through or lacks land or water (runGeoImport,
\* activateImportedVersion).
THEOREM LosersAlwaysHaveWinners == Spec => []LosersHaveWinners
<1>1. Import!Init => Unharmed
  <2> SUFFICES ASSUME Import!Init, NEW i \in Imports PROVE Careful(i) /\ ~Lost(i)
    BY DEF Unharmed
  <2>1. pc[i] = "new" /\ staged[i] = [k \in 1..Import!SourceCount(i) |-> NoTable]
    BY DEF Import!Init
  <2>2. QED
    BY <2>1 DEF Careful, Lost, Import!InTransaction
<1>2. ImportInv /\ Unharmed => LosersHaveWinners
  BY DEF Unharmed, Careful, Lost, Outdone, LosersHaveWinners, Import!LosersHaveWinners
<1>3. QED
  BY <1>1, <1>2, ImportInit, ImportInvStep, LockInit, LockInvStep, UnharmedStep, ImportSteps, PTL
  DEF Import!Spec

\* The unique index on is_active never has to refuse an activation: an import that has come to
\* its second UPDATE has itself deactivated whatever is active (activateImportedVersion).
SwitchesCleanly == \A i \in Imports : pc[i] = "activating" => off[i] = active

\* Under the locks the imports take, that holds whatever overlaps, fails or is killed.
THEOREM ActivationsNeverRefused == Spec => []SwitchesCleanly
<1>1. LockInv => SwitchesCleanly
  BY DEF LockInv, Locks, SwitchesCleanly
<1>2. QED
  BY <1>1, ImportInit, ImportInvStep, LockInit, LockInvStep, ImportSteps, PTL DEF Import!Spec

-----------------------------------------------------------------------------
(* The types of all six.                                                   *)

\* One job is taken out of a sequence of them.
LEMMA WithoutOne ==
  ASSUME NEW s \in Seq(MatchJobs), NEW i \in 1..Len(s)
  PROVE  /\ Matching!RemoveAt(s, i) \in Seq(MatchJobs)
         /\ Len(Matching!RemoveAt(s, i)) = Len(s) - 1
         /\ \A k \in 1..(Len(s) - 1) :
              Matching!RemoveAt(s, i)[k] = IF k < i THEN s[k] ELSE s[k + 1]
<1> DEFINE before == SubSeq(s, 1, i - 1)
           after == SubSeq(s, i + 1, Len(s))
<1>1. before \in Seq(MatchJobs) /\ Len(before) = i - 1 /\ \A k \in 1..(i - 1) : before[k] = s[k]
  OBVIOUS
<1>2. /\ after \in Seq(MatchJobs) /\ Len(after) = Len(s) - i
      /\ \A k \in 1..(Len(s) - i) : after[k] = s[k + i]
  OBVIOUS
<1>3. Matching!RemoveAt(s, i) = before \o after
  BY DEF Matching!RemoveAt
<1> HIDE DEF before, after
<1>4. /\ before \o after \in Seq(MatchJobs) /\ Len(before \o after) = Len(s) - 1
      /\ \A k \in 1..(Len(s) - 1) :
           (before \o after)[k] = IF k <= i - 1 THEN before[k] ELSE after[k - (i - 1)]
  BY <1>1, <1>2
<1>5. ASSUME NEW k \in 1..(Len(s) - 1)
      PROVE  (before \o after)[k] = IF k < i THEN s[k] ELSE s[k + 1]
  <2>1. CASE k < i
    BY <1>1, <1>4, <2>1
  <2>2. CASE ~(k < i)
    <3>1. k - (i - 1) \in 1..(Len(s) - i) /\ (k - (i - 1)) + i = k + 1
      BY <2>2
    <3>2. after[k - (i - 1)] = s[k + 1]
      BY <1>2, <3>1
    <3>3. QED
      BY <1>4, <2>2, <3>2
  <2>3. QED
    BY <2>1, <2>2
<1>6. QED
  BY <1>3, <1>4, <1>5

\* The jobs that have taken their checkedAt and not yet written, each once.
Deciding ==
  /\ decided \in Seq(MatchJobs)
  /\ \A k, m \in 1..Len(decided) : decided[k] = decided[m] => k = m
  /\ \A k \in 1..Len(decided) : job[decided[k]].pc = "apply"
  /\ row \in Matching!Results /\ jobFaults \in 0..MaxFaults

\* Taking a job out of those decided leaves the others, each once.
LEMMA UndecidedFits ==
  ASSUME MatchInv, Deciding, NEW j \in MatchJobs, job' = [job EXCEPT ![j] = Matching!Idle],
         decided' = Matching!Undecided(j)
  PROVE  /\ decided' \in Seq(MatchJobs)
         /\ \A k, m \in 1..Len(decided') : decided'[k] = decided'[m] => k = m
         /\ \A k \in 1..Len(decided') : job'[decided'[k]].pc = "apply"
<1> DEFINE i == Matching!Place(j)
<1>1. \A n \in MatchJobs \ {j} : job'[n] = job[n]
  BY DEF MatchInv, MatchTypes
<1>2. CASE j \notin Matching!ToSet(decided)
  <2>1. decided' = decided
    BY <1>2 DEF Matching!Undecided
  <2>2. \A k \in 1..Len(decided) : decided[k] \in MatchJobs \ {j}
    BY <1>2 DEF Deciding, Matching!ToSet
  <2>3. QED
    BY <1>1, <2>1, <2>2 DEF Deciding
<1>3. CASE j \in Matching!ToSet(decided)
  <2>1. i \in 1..Len(decided) /\ decided[i] = j
    <3>1. \E k \in 1..Len(decided) : decided[k] = j
      BY <1>3 DEF Matching!ToSet, Deciding
    <3>2. QED
      BY <3>1 DEF Matching!Place
  <2>2. decided' = Matching!RemoveAt(decided, i)
    BY <1>3 DEF Matching!Undecided
  <2> HIDE DEF i
  <2>3. /\ decided' \in Seq(MatchJobs) /\ Len(decided') = Len(decided) - 1
        /\ \A k \in 1..(Len(decided) - 1) :
             decided'[k] = IF k < i THEN decided[k] ELSE decided[k + 1]
    BY <2>1, <2>2, WithoutOne DEF Deciding
  <2>4. \A k, m \in 1..Len(decided') : decided'[k] = decided'[m] => k = m
    BY <2>1, <2>3 DEF Deciding
  <2>5. \A k \in 1..Len(decided') : decided'[k] # j /\ decided'[k] \in MatchJobs
    BY <2>1, <2>3 DEF Deciding
  <2>6. \A k \in 1..Len(decided') : job[decided'[k]].pc = "apply"
    BY <2>1, <2>3 DEF Deciding
  <2>7. QED
    BY <1>1, <2>3, <2>4, <2>5, <2>6
<1>4. QED
  BY <1>2, <1>3

LEMMA DecidingStep == MatchInv /\ Deciding /\ [Matching!Next]_(Matching!vars) => Deciding'
<1> SUFFICES ASSUME MatchInv, Deciding, [Matching!Next]_(Matching!vars) PROVE Deciding'
  OBVIOUS
<1>1. ASSUME NEW j \in MatchJobs,
             \/ Matching!Start(j) \/ Matching!ReadImo(j) \/ Matching!ReadMmsi(j)
             \/ Matching!MatchSanctions(j)
      PROVE  Deciding'
  <2>1. job[j].pc # "apply" /\ UNCHANGED <<decided, row, jobFaults>>
    BY <1>1 DEF Matching!Start, Matching!ReadImo, Matching!ReadMmsi, Matching!MatchSanctions
  <2>2. \A n \in MatchJobs \ {j} : job'[n] = job[n]
    BY <1>1 DEF Matching!Start, Matching!ReadImo, Matching!ReadMmsi, Matching!MatchSanctions,
                MatchInv, MatchTypes
  <2>3. \A k \in 1..Len(decided) : decided[k] \in MatchJobs \ {j}
    BY <2>1 DEF Deciding
  <2>4. QED
    BY <2>1, <2>2, <2>3 DEF Deciding
<1>2. ASSUME NEW j \in MatchJobs, Matching!Decide(j) PROVE Deciding'
  <2>1. /\ job[j].pc = "decide" /\ job' = [job EXCEPT ![j].pc = "apply"]
        /\ decided' = Append(decided, j) /\ UNCHANGED <<row, jobFaults>>
    BY <1>2 DEF Matching!Decide, Matching!Goto
  <2>2. job'[j].pc = "apply" /\ \A n \in MatchJobs \ {j} : job'[n] = job[n]
    BY <2>1 DEF MatchInv, MatchTypes, JobStates
  <2>3. \A k \in 1..Len(decided) : decided[k] \in MatchJobs \ {j}
    BY <2>1 DEF Deciding
  <2>4. /\ decided' \in Seq(MatchJobs) /\ Len(decided') = Len(decided) + 1
        /\ \A k \in 1..Len(decided) : decided'[k] = decided[k]
        /\ decided'[Len(decided) + 1] = j
    BY <2>1 DEF Deciding
  <2>5. \A k \in 1..Len(decided') : k \in 1..Len(decided) \/ k = Len(decided) + 1
    BY <2>4 DEF Deciding
  <2>6. \A k, m \in 1..Len(decided') : decided'[k] = decided'[m] => k = m
    BY <2>3, <2>4, <2>5 DEF Deciding
  <2>7. \A k \in 1..Len(decided') : job'[decided'[k]].pc = "apply"
    BY <2>2, <2>3, <2>4, <2>5 DEF Deciding
  <2>8. QED
    BY <2>1, <2>4, <2>6, <2>7 DEF Deciding
<1>3. ASSUME NEW j \in MatchJobs, Matching!Apply(j) PROVE Deciding'
  <2>1. /\ job' = [job EXCEPT ![j] = Matching!Idle] /\ UNCHANGED jobFaults
        /\ \/ /\ j \in Matching!ToSet(decided) /\ row' = job[j].result
              /\ decided' = SubSeq(decided, Matching!Place(j) + 1, Len(decided))
           \/ j \notin Matching!ToSet(decided) /\ UNCHANGED <<row, decided>>
    BY <1>3 DEF Matching!Apply
  <2>2. \A n \in MatchJobs \ {j} : job'[n] = job[n]
    BY <2>1 DEF MatchInv, MatchTypes
  <2>3. CASE j \notin Matching!ToSet(decided)
    <3>1. \A k \in 1..Len(decided) : decided[k] \in MatchJobs \ {j}
      BY <2>3 DEF Deciding, Matching!ToSet
    <3>2. QED
      BY <2>1, <2>2, <2>3, <3>1 DEF Deciding
  <2>4. CASE j \in Matching!ToSet(decided)
    <3> DEFINE i == Matching!Place(j)
    <3>1. i \in 1..Len(decided) /\ decided[i] = j
      <4>1. \E k \in 1..Len(decided) : decided[k] = j
        BY <2>4 DEF Matching!ToSet, Deciding
      <4>2. QED
        BY <4>1 DEF Matching!Place
    <3>2. decided' = SubSeq(decided, i + 1, Len(decided)) /\ row' = job[j].result
      BY <2>1, <2>4
    <3> HIDE DEF i
    <3>3. /\ decided' \in Seq(MatchJobs) /\ Len(decided') = Len(decided) - i
          /\ \A k \in 1..(Len(decided) - i) : decided'[k] = decided[k + i]
      BY <3>1, <3>2 DEF Deciding
    <3>4. ASSUME NEW k \in 1..Len(decided'), NEW m \in 1..Len(decided'),
                 decided'[k] = decided'[m]
          PROVE  k = m
      <4>1. Len(decided) \in Nat
        BY DEF Deciding
      <4>2. k + i \in 1..Len(decided) /\ m + i \in 1..Len(decided)
        BY <3>1, <3>3, <4>1
      <4>3. decided[k + i] = decided[m + i]
        BY <3>3, <3>4
      <4>4. k + i = m + i
        BY <4>2, <4>3 DEF Deciding
      <4>5. QED
        BY <4>1, <4>4, <3>1, <3>3
    <3>5. \A k \in 1..Len(decided') : decided'[k] # j /\ decided'[k] \in MatchJobs
      BY <3>1, <3>3 DEF Deciding
    <3>6. \A k \in 1..Len(decided') : job[decided'[k]].pc = "apply"
      BY <3>1, <3>3 DEF Deciding
    <3>7. row' \in Matching!Results
      BY <3>2 DEF MatchInv, MatchTypes, JobStates
    <3>8. QED
      BY <2>1, <2>2, <3>3, <3>4, <3>5, <3>6, <3>7 DEF Deciding
  <2>5. QED
    BY <2>3, <2>4
<1>4. ASSUME NEW j \in MatchJobs, Matching!Fail(j) PROVE Deciding'
  <2>1. /\ job' = [job EXCEPT ![j] = Matching!Idle] /\ decided' = Matching!Undecided(j)
        /\ jobFaults < MaxFaults /\ jobFaults' = jobFaults + 1 /\ UNCHANGED row
    BY <1>4 DEF Matching!Fail
  <2>2. jobFaults' \in 0..MaxFaults
    BY <2>1, ListsFacts DEF Deciding
  <2>3. QED
    BY <2>1, <2>2, UndecidedFits DEF Deciding
<1>5. ASSUME UNCHANGED <<job, decided, row, jobFaults>> PROVE Deciding'
  BY <1>5 DEF Deciding
<1>6. QED
  BY <1>1, <1>2, <1>3, <1>4, <1>5
  DEF Matching!Next, Matching!Step, Matching!Upsert, Matching!ChangeProfile, Matching!vars

\* Of the profile, the row has no column that says less than nothing: what is absent, padding or
\* refused is never stored, but for a side that is padding while another is not.
Stored ==
  /\ profile = [c \in Profile!Columns |-> profile[c]]
  /\ \A c \in Profile!Columns : profile[c] \notin {"absent", "illegal"}
  /\ \A c \in Profile!Columns \ Profile!Sides : profile[c] # "unknown"

LEMMA FieldsStorable ==
  ASSUME NEW r, Profile!Accepted(r), NEW c \in Profile!Columns
  PROVE  /\ Profile!Fields(r)[c] \notin {"absent", "illegal"}
         /\ c \notin Profile!Sides => Profile!Fields(r)[c] # "unknown"
<1>1. Null \notin {"absent", "unknown", "illegal"}
  BY ServicesAssumption DEF Profile!VesselProfileAssumption
<1>2. Profile!Fields(r)[c] # "illegal"
  BY DEF Profile!Accepted
<1>3. c \in Profile!Sides => Profile!Dimensions(r.says)[c] # "absent"
  BY <1>1 DEF Profile!Dimensions
<1>4. CASE r.type = "StaticDataReport"
  <2>1. Profile!Fields(r) = Profile!FromStaticDataReport(r)
    BY <1>4 DEF Profile!Fields
  <2>2. QED
    BY <1>1, <1>2, <1>3, <2>1
    DEF Profile!FromStaticDataReport, Profile!Text, Profile!ShipType, Profile!Sides, Profile!Columns
<1>5. CASE r.type = "ShipStaticData"
  <2>1. Profile!Fields(r) = Profile!FromShipStaticData(r)
    BY <1>5 DEF Profile!Fields
  <2>2. QED
    BY <1>1, <1>2, <1>3, <2>1
    DEF Profile!FromShipStaticData, Profile!Text, Profile!ShipType, Profile!Imo, Profile!Sides,
        Profile!Texts, Profile!Columns
<1>6. CASE r.type \notin {"StaticDataReport", "ShipStaticData"}
  <2>1. Profile!Fields(r) = Profile!FromPosition(r)
    BY <1>6 DEF Profile!Fields
  <2>2. CASE c # "name"
    BY <1>1, <2>1, <2>2 DEF Profile!FromPosition, Profile!Nothing
  <2>3. CASE c = "name"
    BY <1>1, <1>2, <2>1, <2>3 DEF Profile!FromPosition, Profile!Nothing, Profile!Text
  <2>4. QED
    BY <2>2, <2>3
<1>7. QED
  BY <1>4, <1>5, <1>6

ProfileTypes ==
  /\ life \in DOMAIN Lives /\ flight \subseteq Reports /\ repeats \in 0..MaxRepeats
  /\ Stored

LEMMA ProfileTypesStep == ProfileTypes /\ [Profile!Next]_(Profile!vars) => ProfileTypes'
<1> SUFFICES ASSUME ProfileTypes, [Profile!Next]_(Profile!vars) PROVE ProfileTypes'
  OBVIOUS
<1>1. Profile!VesselProfileAssumption
  BY ServicesAssumption
<1>2. ASSUME NEW r \in Reports, Profile!Handle(r) PROVE ProfileTypes'
  <2>1. CASE profile' = profile
    <3>1. Stored'
      BY <2>1 DEF ProfileTypes, Stored
    <3>2. QED
      BY <1>1, <1>2, <3>1 DEF Profile!Handle, ProfileTypes, Profile!VesselProfileAssumption
  <2>2. CASE profile' # profile
    <3>1. /\ Profile!Accepted(r)
          /\ \/ profile' = Profile!Merged(Profile!Fields(r))
             \/ profile' = Profile!Named(Profile!Fields(r))
      BY <1>2, <2>2 DEF Profile!Handle
    <3>2. \A c \in Profile!Columns :
            /\ Profile!Fields(r)[c] \notin {"absent", "illegal"}
            /\ c \notin Profile!Sides => Profile!Fields(r)[c] # "unknown"
      BY <3>1, FieldsStorable
    <3>3. "name" \in Profile!Columns \ Profile!Sides
      BY DEF Profile!Columns, Profile!Sides, Profile!Texts
    <3>4. Stored'
      BY <3>1, <3>2, <3>3 DEF ProfileTypes, Stored, Profile!Merged, Profile!Named
    <3>5. QED
      BY <1>1, <1>2, <3>4 DEF Profile!Handle, ProfileTypes, Profile!VesselProfileAssumption
  <2>3. QED
    BY <2>1, <2>2
<1>3. CASE Profile!Change
  BY <1>3 DEF Profile!Change, ProfileTypes, Stored
<1>4. ASSUME NEW r \in Reports, Profile!Broadcast(r) PROVE ProfileTypes'
  BY <1>4 DEF Profile!Broadcast, ProfileTypes, Stored
<1>5. CASE UNCHANGED Profile!vars
  BY <1>5 DEF Profile!vars, ProfileTypes, Stored
<1>6. QED
  BY <1>2, <1>3, <1>4, <1>5 DEF Profile!Next

\* Every variable of the six machines keeps its type, for every value of the constants.
THEOREM ServicesTypes == Spec => []TypeOK
<1>1. Spec => [](part \in Parts)
  <2>1. Init => part \in Parts
    BY DEF Init
  <2>2. part \in Parts /\ [Next]_vars => (part \in Parts)'
    BY DEF Next, vars, notImport, notCheck, notLists, notMatching, notFeed, notProfile
  <2>3. QED
    BY <2>1, <2>2, PTL DEF Spec
<1>2. Spec => []Import!TypeOK
  <2>1. ImportInv => Import!TypeOK
    BY DEF ImportInv, ImportArrays, Orderly, Staging, Import!TypeOK
  <2>2. QED
    BY <2>1, ImportInit, ImportInvStep, ImportSteps, PTL DEF Import!Spec
<1>3. Spec => []Check!TypeOK
  <2>1. CheckProofs!Spec => []CheckProofs!TypeOK
    BY CheckConstants, CheckProofs!GeoTypes
  <2>2. CheckProofs!TypeOK => Check!TypeOK
    BY DEF Check!TypeOK, CheckProofs!TypeOK, Check!NoLayers, CheckProofs!NoLayers,
           Check!Tables, CheckProofs!Tables, Check!CallStates, CheckProofs!CallStates,
           Check!Results, CheckProofs!Results, Check!Reasons, CheckProofs!Reasons,
           Check!Keys, CheckProofs!Keys, Check!Precisions, CheckProofs!Precisions
  <2>3. QED
    BY <2>1, <2>2, CheckSteps, CheckProofsSteps, PTL
<1>4. Spec => []Lists!TypeOK
  <2>1. ListsInv => Lists!TypeOK
    BY DEF ListsInv
  <2>2. QED
    BY <2>1, ListsInit, ListsInvStep, ListsSteps, PTL DEF Lists!Spec
<1>5. Spec => []Matching!TypeOK
  <2>1. Matching!Init => Deciding
    BY ListsFacts
    DEF Matching!Init, Deciding, Matching!Unchecked, Matching!Results
  <2>2. MatchInv /\ Deciding => Matching!TypeOK
    BY DEF MatchInv, MatchTypes, Deciding, JobStates, Phases, Matches, Matching!TypeOK
  <2>3. QED
    BY <2>1, <2>2, MatchInit, MatchInvStep, DecidingStep, MatchingSteps, PTL DEF Matching!Spec
<1>6. Spec => []Feed!TypeOK
  <2>1. FeedInv => Feed!TypeOK
    BY DEF FeedInv
  <2>2. QED
    BY <2>1, FeedInit, FeedInvStep, FeedSteps, PTL DEF Feed!Spec
<1>7. Spec => []Profile!TypeOK
  <2>1. Profile!Init => ProfileTypes
    BY ServicesAssumption
    DEF Profile!Init, ProfileTypes, Stored, Profile!Nothing, Profile!VesselProfileAssumption
  <2>2. ProfileTypes => Profile!TypeOK
    BY DEF ProfileTypes, Stored, Profile!TypeOK
  <2>3. QED
    BY <2>1, <2>2, ProfileTypesStep, ProfileSteps, PTL DEF Profile!Spec
<1>8. QED
  BY <1>1, <1>2, <1>3, <1>4, <1>5, <1>6, <1>7, PTL DEF TypeOK
=============================================================================
