------------------------------ MODULE StreamBus ------------------------------
(***************************************************************************)
(* The event bus: one Redis stream, its consumer groups, and the processes *)
(* that consume it (RedisStreamsEventBus with its FailureHandler).         *)
(*                                                                         *)
(* A subscription runs two activities of one Node process that interleave  *)
(* at every await: the read loop (XREADGROUP, then dispatch entry by       *)
(* entry) and the autoclaim tick (XAUTOCLAIM, then dispatch entry by       *)
(* entry).  Every Redis command of a dispatch is a step of its own, so     *)
(* that the other activity, another process of the group, a crash or a     *)
(* lost reply can fall between any two of them.                            *)
(*                                                                         *)
(* An entry is its stream id, 1, 2, 3, ... in XADD order.  A command whose *)
(* reply is lost was executed or not; the client either fails it or sends  *)
(* it again on the next connection, so that it may also be executed twice. *)
(***************************************************************************)
EXTENDS Integers, FiniteSets

CONSTANTS Groups,      \* consumer groups of the stream
          Consumers,   \* subscriptions, each in a process of its own
          GroupOf,     \* the group a subscription reads for
          Limit,       \* STREAM_RETRY_LIMIT
          MaxLen,      \* STREAM_MAXLEN
          ReadCount,   \* COUNT of XREADGROUP
          ClaimCount,  \* COUNT of XAUTOCLAIM
          MaxMsgs,     \* bound: entries ever added to the stream
          MaxFaults    \* bound: crashes, lost replies, repeated commands, expired counters

ASSUME BusAssumption ==
  /\ IsFiniteSet(Consumers)
  /\ GroupOf \in [Consumers -> Groups]
  /\ Limit \in Nat \ {0}
  /\ MaxLen \in Nat \ {0}
  /\ ReadCount \in Nat \ {0}
  /\ ClaimCount \in Nat \ {0}
  /\ MaxMsgs \in Nat
  /\ MaxFaults \in Nat

Ids == 1..MaxMsgs

\* What dispatch finds in an entry: JSON for the handler, a text JSON.parse
\* rejects, or no 'data' field at all.
Kinds == {"json", "malformed", "nodata"}

\* The two activities of a subscription.
Threads == Consumers \X {"read", "claim"}
Group(t) == GroupOf[t[1]]

\* Where an activity is: "down" and "dead" run nothing, "idle" waits for
\* entries, and the others name the await its current entry is at.
Phases == {"down", "dead", "idle",
           "handler",   \* loop.handler is running
           "ack",       \* XACK after the handler returned
           "count",     \* HINCRBY of the retry counter
           "bury",      \* XADD to ais.deadletter
           "reset",     \* DEL of the retry counter
           "buriedack", \* XACK after the dead letter was written
           "skipack",   \* XACK of an entry with no data
           "raw",       \* XADD of an entry that is not JSON
           "rawack"}    \* XACK after that

None == 0

VARIABLES
  kind,      \* what each entry holds
  first,     \* the oldest entry the stream retains
  last,      \* the newest entry of the stream
  cursor,    \* per group: last-delivered-id, -1 while the group does not exist
  joined,    \* per group: the newest entry when the group was created
  pel,       \* per group: the pending entries list
  idle,      \* per group: pending entries past STREAM_PENDING_CLAIM_IDLE_MS
  attempts,  \* per group and entry: the retry counter, 0 while the key is absent
  dlq,       \* per group and entry: its records in ais.deadletter
  scan,      \* per subscription: autoclaimCursor, 0 for '0-0'
  phase, cur, batch,  \* per activity: where it is, on which entry, with which next
  handled,   \* history: entries a handler of the group returned for
  thrown,    \* history: entries a handler of the group rejected
  failed,    \* history: per group and entry, dispatches that reached the catch
  recounted, \* history: per group and entry, HINCRBYs executed and sent again
  faults     \* history: faults so far

redisVars == <<kind, first, last, cursor, joined, pel, idle, attempts, dlq>>
procVars == <<scan, phase, cur, batch>>
histVars == <<handled, thrown, failed, recounted, faults>>
vars == <<redisVars, procVars, histVars>>

TypeOK ==
  /\ kind \in [Ids -> Kinds]
  /\ first \in 1..(MaxMsgs + 1)
  /\ last \in 0..MaxMsgs
  /\ cursor \in [Groups -> -1..MaxMsgs]
  /\ joined \in [Groups -> 0..MaxMsgs]
  /\ pel \in [Groups -> SUBSET Ids]
  /\ idle \in [Groups -> SUBSET Ids]
  /\ attempts \in [Groups -> [Ids -> Nat]]
  /\ dlq \in [Groups -> [Ids -> Nat]]
  /\ scan \in [Consumers -> 0..MaxMsgs]
  /\ phase \in [Threads -> Phases]
  /\ cur \in [Threads -> Ids \cup {None}]
  /\ batch \in [Threads -> SUBSET Ids]
  /\ handled \in [Groups -> SUBSET Ids]
  /\ thrown \in [Groups -> SUBSET Ids]
  /\ failed \in [Groups -> [Ids -> Nat]]
  /\ recounted \in [Groups -> [Ids -> Nat]]
  /\ faults \in 0..MaxFaults
  /\ \A t \in Threads : (cur[t] = None) <=> (phase[t] \in {"down", "dead", "idle"})
  /\ \A c \in Consumers : (phase[<<c, "read">>] = "down") <=> (phase[<<c, "claim">>] = "down")

Init ==
  /\ kind = [m \in Ids |-> "json"]
  /\ first = 1
  /\ last = 0
  /\ cursor = [g \in Groups |-> -1]
  /\ joined = [g \in Groups |-> 0]
  /\ pel = [g \in Groups |-> {}]
  /\ idle = [g \in Groups |-> {}]
  /\ attempts = [g \in Groups |-> [m \in Ids |-> 0]]
  /\ dlq = [g \in Groups |-> [m \in Ids |-> 0]]
  /\ scan = [c \in Consumers |-> 0]
  /\ phase = [t \in Threads |-> "down"]
  /\ cur = [t \in Threads |-> None]
  /\ batch = [t \in Threads |-> {}]
  /\ handled = [g \in Groups |-> {}]
  /\ thrown = [g \in Groups |-> {}]
  /\ failed = [g \in Groups |-> [m \in Ids |-> 0]]
  /\ recounted = [g \in Groups |-> [m \in Ids |-> 0]]
  /\ faults = 0

Fault == faults < MaxFaults /\ faults' = faults + 1

-----------------------------------------------------------------------------
(* The stream.                                                             *)

\* Mutant: trimming that may leave one entry fewer than MaxLen.
MayTrimToOneFewer(f) == f > first /\ f <= last + 3 - MaxLen

\* MAXLEN ~ drops entries from the old end, as long as MaxLen remain.
MayTrimTo(f) == f > first /\ f <= last + 2 - MaxLen

\* XADD: appends, then trims or not.
Append(k) ==
  /\ last < MaxMsgs
  /\ last' = last + 1
  /\ kind' = [kind EXCEPT ![last + 1] = k]
  /\ \E f \in 1..(MaxMsgs + 1) :
       /\ f = first \/ MayTrimTo(f)
       /\ first' = f
  /\ UNCHANGED <<cursor, joined, pel, idle, attempts, dlq, procVars, histVars>>

\* bus.publish, which always writes JSON.  One that is sent again is another.
Publish == Append("json")

\* An entry that another tool wrote to the stream.
AppendForeign == \E k \in {"malformed", "nodata"} : Append(k)

\* The admin replay: publishes the event of a dead letter again, under a new
\* id, for every group.  A malformed entry's record has no originalEvent: 422.
Replay ==
  /\ \E g \in Groups : \E m \in Ids : dlq[g][m] > 0 /\ kind[m] = "json"
  /\ Append("json")

\* A pending entry reaches the minimum idle time, even if a handler has it.
BecomesIdle(g, m) ==
  /\ m \in pel[g] \ idle[g]
  /\ idle' = [idle EXCEPT ![g] = @ \cup {m}]
  /\ UNCHANGED <<kind, first, last, cursor, joined, pel, attempts, dlq,
                 procVars, histVars>>

\* The retry counter's 24 h TTL ends.
CounterExpires(g, m) ==
  /\ attempts[g][m] > 0
  /\ Fault
  /\ attempts' = [attempts EXCEPT ![g][m] = 0]
  /\ UNCHANGED <<kind, first, last, cursor, joined, pel, idle, dlq, procVars,
                 handled, thrown, failed, recounted>>

-----------------------------------------------------------------------------
(* The process.                                                            *)

\* Mutant: ensureGroup that rethrows BUSYGROUP, so that only the first start of a
\* group succeeds.
SubscribeOnce(c) ==
  /\ cursor[GroupOf[c]] = -1
  /\ phase[<<c, "read">>] = "down"
  /\ cursor' = [cursor EXCEPT ![GroupOf[c]] = last]
  /\ joined' = [joined EXCEPT ![GroupOf[c]] = last]
  /\ phase' = [phase EXCEPT ![<<c, "read">>] = "idle", ![<<c, "claim">>] = "idle"]
  /\ UNCHANGED <<kind, first, last, pel, idle, attempts, dlq, scan, cur, batch, histVars>>

\* subscribe(): ensureGroup creates the group at '$' unless it exists
\* (BUSYGROUP), then both activities start.
Subscribe(c) ==
  LET g == GroupOf[c] IN
  /\ phase[<<c, "read">>] = "down"
  /\ cursor' = [cursor EXCEPT ![g] = IF @ = -1 THEN last ELSE @]
  /\ joined' = [joined EXCEPT ![g] = IF cursor[g] = -1 THEN last ELSE @]
  /\ scan' = [scan EXCEPT ![c] = 0]
  /\ phase' = [phase EXCEPT ![<<c, "read">>] = "idle", ![<<c, "claim">>] = "idle"]
  /\ UNCHANGED <<kind, first, last, pel, idle, attempts, dlq, cur, batch, histVars>>

\* The process dies: what its activities held in memory is gone.
Crash(c) ==
  /\ phase[<<c, "read">>] # "down"
  /\ Fault
  /\ phase' = [phase EXCEPT ![<<c, "read">>] = "down", ![<<c, "claim">>] = "down"]
  /\ cur' = [cur EXCEPT ![<<c, "read">>] = None, ![<<c, "claim">>] = None]
  /\ batch' = [batch EXCEPT ![<<c, "read">>] = {}, ![<<c, "claim">>] = {}]
  /\ UNCHANGED <<redisVars, scan, handled, thrown, failed, recounted>>

\* Dispatch of entry m begins, with rest still to come.
StartOn(t, m, rest) ==
  /\ phase' = [phase EXCEPT ![t] = CASE kind[m] = "json" -> "handler"
                                     [] kind[m] = "malformed" -> "raw"
                                     [] kind[m] = "nodata" -> "skipack"]
  /\ cur' = [cur EXCEPT ![t] = m]
  /\ batch' = [batch EXCEPT ![t] = rest]

\* Mutant: the entry that ended stays the current one.
RestKeepingEntry(t, p) ==
  /\ phase' = [phase EXCEPT ![t] = p]
  /\ batch' = [batch EXCEPT ![t] = {}]
  /\ UNCHANGED cur

\* The activity has nothing left to dispatch.
Rest(t, p) ==
  /\ phase' = [phase EXCEPT ![t] = p]
  /\ cur' = [cur EXCEPT ![t] = None]
  /\ batch' = [batch EXCEPT ![t] = {}]

\* Entries are dispatched one after the other, in id order.
DispatchAll(t, entries) ==
  \/ entries = {} /\ Rest(t, "idle")
  \/ \E m \in entries :
       /\ \A n \in entries : m <= n
       /\ StartOn(t, m, entries \ {m})

\* dispatch() returned: the activity goes on to the next entry.
DispatchNext(t) == DispatchAll(t, batch[t])

\* dispatch() rejected.  The read loop is over for the life of the process
\* ("consumer loop crashed"); a tick just ends ("autoclaim error").
Escape(t) == Rest(t, IF t[2] = "read" THEN "dead" ELSE "idle")

AtAwait(t, p) ==
  /\ phase' = [phase EXCEPT ![t] = p]
  /\ UNCHANGED <<cur, batch>>

\* What the stream retains beyond a group's cursor.
Fresh(g) == {m \in Ids : m > cursor[g] /\ m >= first /\ m <= last}

\* Idle entries a tick of c looks at.
Due(c) == {m \in idle[GroupOf[c]] : m >= scan[c]}

UpTo(S, hi) == {m \in S : m <= hi}

\* XREADGROUP COUNT ReadCount '>' hands out the entries after the cursor that
\* the stream still has.  The reply can be lost after Redis made them pending.
Fetch(c) ==
  LET g == GroupOf[c]
      t == <<c, "read">> IN
  /\ phase[t] = "idle"
  /\ \E hi \in Fresh(g) :
       LET got == UpTo(Fresh(g), hi) IN
       /\ Cardinality(got) <= ReadCount
       /\ hi = last \/ Cardinality(got) = ReadCount
       /\ cursor' = [cursor EXCEPT ![g] = hi]
       /\ pel' = [pel EXCEPT ![g] = @ \cup got]
       /\ \/ DispatchAll(t, got) /\ UNCHANGED faults
          \/ Fault /\ UNCHANGED <<phase, cur, batch>>
  /\ UNCHANGED <<kind, first, last, joined, idle, attempts, dlq, scan,
                 handled, thrown, failed, recounted>>

\* Mutant: a cursor that never starts over.
NextScanNoWrap(hi, more) == hi + 1

\* The cursor XAUTOCLAIM returns: where to go on, or '0-0' when it saw the end.
NextScan(hi, more) == IF more THEN hi + 1 ELSE 0

\* XAUTOCLAIM from the saved cursor: takes over idle entries, deletes from the
\* pending list those the stream has dropped, and returns the next cursor.
Claim(c) ==
  LET g == GroupOf[c]
      t == <<c, "claim">> IN
  /\ phase[t] = "idle"
  /\ Due(c) # {} \/ scan[c] # 0
  /\ \E hi \in Ids :
       LET got == UpTo(Due(c), hi)
           gone == {m \in got : m < first} IN
       /\ Cardinality(got) <= ClaimCount
       /\ hi = MaxMsgs \/ (hi \in got /\ Cardinality(got) = ClaimCount)
       /\ idle' = [idle EXCEPT ![g] = @ \ got]
       /\ pel' = [pel EXCEPT ![g] = @ \ gone]
       /\ \/ /\ scan' = [scan EXCEPT ![c] = NextScan(hi, \E m \in pel[g] : m > hi)]
             /\ DispatchAll(t, got \ gone)
             /\ UNCHANGED faults
          \/ Fault /\ UNCHANGED procVars
  /\ UNCHANGED <<kind, first, last, cursor, joined, attempts, dlq,
                 handled, thrown, failed, recounted>>

-----------------------------------------------------------------------------
(* dispatch(), await by await.  A command may fail, executed or not; one    *)
(* that is executed more than once is so by Resend.                        *)

Acked(g, m) ==
  /\ pel' = [pel EXCEPT ![g] = @ \ {m}]
  /\ idle' = [idle EXCEPT ![g] = @ \ {m}]

\* Redis either executed the command or did not, and the client cannot tell.
MaybeAcked(g, m) == Acked(g, m) \/ UNCHANGED <<pel, idle>>

streamVars == <<kind, first, last, cursor, joined>>

HandlerReturns(t) ==
  /\ phase[t] = "handler"
  /\ handled' = [handled EXCEPT ![Group(t)] = @ \cup {cur[t]}]
  /\ AtAwait(t, "ack")
  /\ UNCHANGED <<redisVars, scan, thrown, failed, recounted, faults>>

\* Mutant: the catch block goes on to the XACK.
HandlerRejectsAcked(t) ==
  /\ phase[t] = "handler"
  /\ thrown' = [thrown EXCEPT ![Group(t)] = @ \cup {cur[t]}]
  /\ AtAwait(t, "ack")
  /\ UNCHANGED <<redisVars, scan, handled, failed, recounted, faults>>

HandlerRejects(t) ==
  /\ phase[t] = "handler"
  /\ thrown' = [thrown EXCEPT ![Group(t)] = @ \cup {cur[t]}]
  /\ failed' = [failed EXCEPT ![Group(t)][cur[t]] = @ + 1]
  /\ AtAwait(t, "count")
  /\ UNCHANGED <<redisVars, scan, handled, recounted, faults>>

\* The XACK shares the handler's try block: its failure is a handler error.
AckHandled(t) ==
  /\ phase[t] = "ack"
  /\ \/ /\ Acked(Group(t), cur[t])
        /\ DispatchNext(t)
        /\ UNCHANGED <<failed, faults>>
     \/ /\ MaybeAcked(Group(t), cur[t])
        /\ failed' = [failed EXCEPT ![Group(t)][cur[t]] = @ + 1]
        /\ AtAwait(t, "count")
        /\ Fault
  /\ UNCHANGED <<streamVars, attempts, dlq, scan, handled, thrown, recounted>>

\* Mutant: an off-by-one in the comparison with STREAM_RETRY_LIMIT.
ExhaustedEarly(n) == n + 1 >= Limit

Exhausted(n) == n >= Limit

\* FailureHandler counts the attempt: below the limit the entry stays pending.
\* A failure of HINCRBY, or of the bookkeeping after it, leaves it pending too.
CountAttempt(t) ==
  LET g == Group(t)
      m == cur[t]
      counted == [attempts EXCEPT ![g][m] = @ + 1] IN
  /\ phase[t] = "count"
  /\ \/ /\ attempts' = counted
        /\ ~Exhausted(attempts[g][m] + 1)
        /\ DispatchNext(t)
        /\ UNCHANGED faults
     \/ /\ attempts' = counted
        /\ Exhausted(attempts[g][m] + 1)
        /\ AtAwait(t, "bury")
        /\ UNCHANGED faults
     \/ /\ attempts' \in {attempts, counted}
        /\ DispatchNext(t)
        /\ Fault
  /\ UNCHANGED <<streamVars, pel, idle, dlq, scan, handled, thrown, failed, recounted>>

\* The dead letter is written, then (Forget) the counter deleted, then
\* (AckBuried) the entry acknowledged.
Bury(t) ==
  LET written == [dlq EXCEPT ![Group(t)][cur[t]] = @ + 1] IN
  /\ phase[t] = "bury"
  /\ \/ dlq' = written /\ AtAwait(t, "reset") /\ UNCHANGED faults
     \/ dlq' \in {dlq, written} /\ DispatchNext(t) /\ Fault
  /\ UNCHANGED <<streamVars, pel, idle, attempts, scan, handled, thrown, failed, recounted>>

Forget(t) ==
  LET deleted == [attempts EXCEPT ![Group(t)][cur[t]] = 0] IN
  /\ phase[t] = "reset"
  /\ \/ attempts' = deleted /\ AtAwait(t, "buriedack") /\ UNCHANGED faults
     \/ attempts' \in {attempts, deleted} /\ DispatchNext(t) /\ Fault
  /\ UNCHANGED <<streamVars, pel, idle, dlq, scan, handled, thrown, failed, recounted>>

\* The XACK of a buried entry, and of one with no data, is outside any try.
AckUnguarded(t) ==
  /\ phase[t] \in {"buriedack", "skipack"}
  /\ \/ Acked(Group(t), cur[t]) /\ DispatchNext(t) /\ UNCHANGED faults
     \/ MaybeAcked(Group(t), cur[t]) /\ Escape(t) /\ Fault
  /\ UNCHANGED <<streamVars, attempts, dlq, scan, handled, thrown, failed, recounted>>

\* deadletterMalformed: XADD, then XACK, both in one try that only logs.
BuryRaw(t) ==
  LET written == [dlq EXCEPT ![Group(t)][cur[t]] = @ + 1] IN
  /\ phase[t] = "raw"
  /\ \/ dlq' = written /\ AtAwait(t, "rawack") /\ UNCHANGED faults
     \/ dlq' \in {dlq, written} /\ DispatchNext(t) /\ Fault
  /\ UNCHANGED <<streamVars, pel, idle, attempts, scan, handled, thrown, failed, recounted>>

AckRaw(t) ==
  /\ phase[t] = "rawack"
  /\ \/ Acked(Group(t), cur[t]) /\ UNCHANGED faults
     \/ MaybeAcked(Group(t), cur[t]) /\ Fault
  /\ DispatchNext(t)
  /\ UNCHANGED <<streamVars, attempts, dlq, scan, handled, thrown, failed, recounted>>

\* The connection breaks after Redis executed the command and before its reply.  The
\* client (RedisService, which leaves autoResendUnfulfilledCommands on) sends it again on
\* the next one: the activity is still at its await, with the command done once.
Resend(t) ==
  LET g == Group(t)
      m == cur[t] IN
  /\ \/ /\ phase[t] = "count"
        /\ attempts' = [attempts EXCEPT ![g][m] = @ + 1]
        /\ recounted' = [recounted EXCEPT ![g][m] = @ + 1]
        /\ UNCHANGED <<pel, idle, dlq>>
     \/ /\ phase[t] \in {"bury", "raw"}
        /\ dlq' = [dlq EXCEPT ![g][m] = @ + 1]
        /\ UNCHANGED <<pel, idle, attempts, recounted>>
     \/ /\ phase[t] = "reset"
        /\ attempts' = [attempts EXCEPT ![g][m] = 0]
        /\ UNCHANGED <<pel, idle, dlq, recounted>>
     \/ /\ phase[t] \in {"ack", "buriedack", "skipack", "rawack"}
        /\ Acked(g, m)
        /\ UNCHANGED <<attempts, dlq, recounted>>
  /\ Fault
  /\ UNCHANGED <<streamVars, procVars, handled, thrown, failed>>

Step(t) ==
  \/ HandlerReturns(t) \/ HandlerRejects(t) \/ AckHandled(t)
  \/ CountAttempt(t) \/ Bury(t) \/ Forget(t) \/ AckUnguarded(t)
  \/ BuryRaw(t) \/ AckRaw(t)

Next ==
  \/ Publish \/ AppendForeign \/ Replay
  \/ \E g \in Groups : \E m \in Ids : BecomesIdle(g, m) \/ CounterExpires(g, m)
  \/ \E c \in Consumers : Subscribe(c) \/ Crash(c) \/ Fetch(c) \/ Claim(c)
  \/ \E t \in Threads : Step(t) \/ Resend(t)

Spec == Init /\ [][Next]_vars

\* Node runs every activity that has something to do; handlers settle; time
\* passes; the container is restarted.  Nothing makes anyone publish.
FairSpec ==
  /\ Spec
  /\ \A t \in Threads : WF_vars(Step(t))
  /\ \A c \in Consumers :
       WF_vars(Subscribe(c)) /\ WF_vars(Fetch(c)) /\ WF_vars(Claim(c))
  /\ \A g \in Groups : \A m \in Ids : WF_vars(BecomesIdle(g, m))

-----------------------------------------------------------------------------
(* Correctness.                                                            *)

\* Why an entry that was delivered to a group may leave its pending list.
Answered(g, m) ==
  \/ m \in handled[g]
  \/ dlq[g][m] > 0
  \/ kind[m] = "nodata"
  \/ m < first

\* At-least-once: an entry delivered to a group is pending until a handler of the
\* group returned for it or a dead letter holds it, whatever crashes, lost replies
\* and concurrent dispatches of the same entry happen (dispatch, XACK sites).
NoSilentLoss ==
  \A g \in Groups : \A m \in Ids :
    joined[g] < m /\ m <= cursor[g] /\ m \notin pel[g] => Answered(g, m)

\* A JSON entry is dead-lettered for a group only after a dispatch failed in that group,
\* and only after Limit of them but for the HINCRBYs the client sent again: counters that
\* expire, are deleted before the XACK or are incremented by two activities at once never
\* count what did not happen (FailureHandler.onHandlerError).
DeadLetterOnlyAfterLimit ==
  \A g \in Groups : \A m \in Ids :
    kind[m] = "json" /\ dlq[g][m] > 0 =>
      failed[g][m] > 0 /\ failed[g][m] + recounted[g][m] >= Limit

\* architecture.md: "Handler failures on subscribed streams are retried [...] and
\* moved to DLQ after the configured retry limit".  Read as a promise, an entry
\* whose handler never failed is not dead-lettered.  The XACK is inside the
\* handler's try block, so it can be.
OnlyHandlerFailuresBuried ==
  \A g \in Groups : \A m \in Ids :
    kind[m] = "json" /\ dlq[g][m] > 0 => m \in thrown[g]

\* The bus implements AtLeastOnce: what a group is owed is what is pending plus
\* what the stream retains beyond its cursor.
Owed(g) ==
  pel[g] \cup {m \in Fresh(g) : cursor[g] >= 0}

Promise == INSTANCE AtLeastOnce WITH
  void <- {m \in Ids : m <= last /\ kind[m] = "nodata"},
  members <- {g \in Groups : cursor[g] >= 0},
  owed <- [g \in Groups |-> Owed(g)],
  dead <- [g \in Groups |-> {m \in Ids : dlq[g][m] > 0}]

ImplementsAtLeastOnce == Promise!Spec

\* Poison entries do not stay: every pending entry is eventually settled, because
\* it becomes idle, is claimed, and either is handled or uses up its attempts.
PendingSettles ==
  \A g \in Groups : \A m \in Ids : (m \in pel[g]) ~> (m \notin pel[g])

\* No failing handler, lost reply or crash stops a group from being given new
\* entries, except an XACK failure outside the try blocks, which ends the read loop.
ReadLoopProgress ==
  \A g \in Groups : \A m \in Ids :
    (cursor[g] >= 0 /\ m <= last)
      ~> \/ m <= cursor[g] \/ m < first
         \/ \A c \in Consumers : GroupOf[c] = g => phase[<<c, "read">>] = "dead"
=============================================================================
