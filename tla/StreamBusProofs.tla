--------------------------- MODULE StreamBusProofs ---------------------------
(***************************************************************************)
(* Safety of the event bus for every number of groups, subscriptions,      *)
(* entries and faults, and every retry limit and stream length.            *)
(***************************************************************************)
EXTENDS StreamBus, FiniteSetTheorems, TLAPS

(***************************************************************************)
(* The inductive invariant.                                                *)
(***************************************************************************)

\* No activity, list or dead letter mentions an entry that is not yet published.
Published ==
  /\ \A g \in Groups : cursor[g] <= last /\ pel[g] \subseteq 1..last /\ idle[g] \subseteq 1..last
  /\ \A t \in Threads : cur[t] <= last /\ batch[t] \subseteq 1..last
  /\ \A g \in Groups : \A m \in Ids : dlq[g][m] > 0 => m <= last

\* How far the retry counter of entry m may count: the dispatches that failed, and the
\* HINCRBYs that were sent again.
Countable(g, m) == failed[g][m] + recounted[g][m]

\* What an activity that is about to acknowledge or bury has already done.
Earned(t) ==
  /\ phase[t] = "ack" => cur[t] \in handled[Group(t)]
  /\ phase[t] \in {"reset", "buriedack", "rawack"} => dlq[Group(t)][cur[t]] > 0
  /\ phase[t] = "skipack" => kind[cur[t]] = "nodata"
  /\ phase[t] = "raw" => kind[cur[t]] = "malformed"
  /\ phase[t] \in {"count", "bury"} => failed[Group(t)][cur[t]] > 0
  /\ phase[t] = "bury" => Countable(Group(t), cur[t]) >= Limit

\* The activities whose failure of entry m the retry counter does not show yet.
Counting(g, m) == {t \in Threads : phase[t] = "count" /\ cur[t] = m /\ Group(t) = g}

\* The retry counter and the failures still to be counted never exceed the
\* failures that happened and the increments that were repeated.
CounterInv ==
  \A g \in Groups : \A m \in Ids :
    attempts[g][m] + Cardinality(Counting(g, m)) <= Countable(g, m)

IInv ==
  /\ TypeOK
  /\ Published
  /\ \A t \in Threads : Earned(t)
  /\ CounterInv
  /\ NoSilentLoss
  /\ DeadLetterOnlyAfterLimit

-----------------------------------------------------------------------------
(***************************************************************************)
(* What the movements of an activity leave behind.                         *)
(***************************************************************************)

\* The movement of activity t kept the types and left the others where they were.
Moved(t) ==
  /\ phase' \in [Threads -> Phases]
  /\ cur' \in [Threads -> Ids \cup {None}]
  /\ batch' \in [Threads -> SUBSET Ids]
  /\ \A u \in Threads : (cur'[u] = None) <=> (phase'[u] \in {"down", "dead", "idle"})
  /\ \A u \in Threads \ {t} :
       phase'[u] = phase[u] /\ cur'[u] = cur[u] /\ batch'[u] = batch[u]
  /\ phase[t] # "down" /\ phase'[t] # "down"

\* Activity t began one of entries, or rests.
Began(t, entries) ==
  /\ batch'[t] \subseteq entries
  /\ \/ phase'[t] \in {"idle", "dead"} /\ cur'[t] = None
     \/ /\ cur'[t] \in entries
        /\ phase'[t] \in {"handler", "raw", "skipack"}
        /\ phase'[t] = "raw" => kind[cur'[t]] = "malformed"
        /\ phase'[t] = "skipack" => kind[cur'[t]] = "nodata"

\* DispatchAll begins the lowest entry, in the phase its kind calls for.
LEMMA DispatchMoves ==
  ASSUME TypeOK, NEW t \in Threads, NEW entries \in SUBSET Ids, DispatchAll(t, entries),
         phase[t] # "down"
  PROVE  Moved(t) /\ Began(t, entries)
<1>1. CASE entries = {} /\ Rest(t, "idle")
  BY <1>1 DEF Rest, Moved, Began, TypeOK, Phases
<1>2. ASSUME NEW m \in entries, StartOn(t, m, entries \ {m})
      PROVE  Moved(t) /\ Began(t, entries)
  <2>1. m \in Ids /\ m # None /\ kind[m] \in Kinds
    BY BusAssumption DEF TypeOK, Ids, None
  <2>2. DEFINE p == CASE kind[m] = "json" -> "handler"
                      [] kind[m] = "malformed" -> "raw"
                      [] kind[m] = "nodata" -> "skipack"
  <2>3. /\ p \in {"handler", "raw", "skipack"}
        /\ p = "raw" => kind[m] = "malformed"
        /\ p = "skipack" => kind[m] = "nodata"
    BY <2>1 DEF Kinds
  <2>4. /\ phase' = [phase EXCEPT ![t] = p]
        /\ cur' = [cur EXCEPT ![t] = m]
        /\ batch' = [batch EXCEPT ![t] = entries \ {m}]
    BY <1>2 DEF StartOn
  <2>5. /\ phase'[t] = p /\ cur'[t] = m /\ batch'[t] = entries \ {m}
        /\ \A u \in Threads \ {t} :
             phase'[u] = phase[u] /\ cur'[u] = cur[u] /\ batch'[u] = batch[u]
    BY <2>4 DEF TypeOK
  <2>6. Began(t, entries)
    BY <2>3, <2>5 DEF Began
  <2>7. /\ phase' \in [Threads -> Phases]
        /\ cur' \in [Threads -> Ids \cup {None}]
        /\ batch' \in [Threads -> SUBSET Ids]
    <3> HIDE DEF p
    <3> QED BY <2>1, <2>3, <2>4 DEF TypeOK, Phases
  <2>8. \A u \in Threads : (cur'[u] = None) <=> (phase'[u] \in {"down", "dead", "idle"})
    <3> HIDE DEF p
    <3> QED BY <2>1, <2>3, <2>5 DEF TypeOK
  <2>9. QED
    BY <2>3, <2>5, <2>6, <2>7, <2>8 DEF Moved
<1>3. QED
  BY <1>1, <1>2 DEF DispatchAll

\* The next entry comes from the activity's own batch.
LEMMA NextMoves ==
  ASSUME TypeOK, NEW t \in Threads, DispatchNext(t), phase[t] # "down"
  PROVE  Moved(t) /\ Began(t, batch[t])
BY DispatchMoves DEF DispatchNext, TypeOK

\* An escaping error leaves nothing in hand.
LEMMA EscapeMoves ==
  ASSUME TypeOK, NEW t \in Threads, Escape(t), phase[t] # "down"
  PROVE  Moved(t) /\ Began(t, batch[t])
BY DEF Escape, Rest, Moved, Began, TypeOK, Phases

\* Going on to another await of the same entry.
LEMMA AwaitMoves ==
  ASSUME TypeOK, NEW t \in Threads, phase[t] \notin {"down", "dead", "idle"},
         NEW p \in Phases \ {"down", "dead", "idle"}, AtAwait(t, p)
  PROVE  Moved(t) /\ phase'[t] = p /\ cur' = cur /\ batch' = batch
BY DEF AtAwait, Moved, TypeOK

\* The two activities of a process stay down, or stay up, together.
LEMMA DownTogether ==
  ASSUME TypeOK, NEW t \in Threads, Moved(t)
  PROVE  \A c \in Consumers :
           (phase'[<<c, "read">>] = "down") <=> (phase'[<<c, "claim">>] = "down")
<1> TAKE c \in Consumers
<1>1. <<c, "read">> \in Threads /\ <<c, "claim">> \in Threads
  BY DEF Threads
<1>2. \A u \in Threads : (phase'[u] = "down") <=> (phase[u] = "down")
  BY DEF Moved
<1>3. QED
  BY <1>1, <1>2 DEF TypeOK

\* Incrementing or clearing one counter keeps a table of counters.
LEMMA CounterUpdate ==
  ASSUME NEW f \in [Groups -> [Ids -> Nat]], NEW g \in Groups, NEW m \in Ids
  PROVE  /\ [f EXCEPT ![g][m] = @ + 1] \in [Groups -> [Ids -> Nat]]
         /\ [f EXCEPT ![g][m] = 0] \in [Groups -> [Ids -> Nat]]
OBVIOUS

\* The other counters of the table keep their values.
LEMMA CounterPoint ==
  ASSUME NEW f \in [Groups -> [Ids -> Nat]], NEW g \in Groups, NEW m \in Ids
  PROVE  /\ \A h \in Groups : \A n \in Ids :
              [f EXCEPT ![g][m] = @ + 1][h][n] =
                IF h = g /\ n = m THEN f[h][n] + 1 ELSE f[h][n]
         /\ \A h \in Groups : \A n \in Ids :
              [f EXCEPT ![g][m] = 0][h][n] = IF h = g /\ n = m THEN 0 ELSE f[h][n]
OBVIOUS

\* The current entry of a busy activity.
LEMMA BusyEntry ==
  ASSUME TypeOK, NEW t \in Threads, phase[t] \notin {"down", "dead", "idle"}
  PROVE  cur[t] \in Ids /\ Group(t) \in Groups /\ cur[t] # None
BY BusAssumption DEF TypeOK, Threads, Group

-----------------------------------------------------------------------------
(***************************************************************************)
(* Type correctness.                                                       *)
(***************************************************************************)

LEMMA StepType ==
  ASSUME TypeOK, NEW t \in Threads, Step(t)
  PROVE  TypeOK'
<1>1. cur[t] \in Ids /\ Group(t) \in Groups
  BY BusyEntry DEF Step, HandlerReturns, HandlerRejects, AckHandled, CountAttempt, Bury,
                   Forget, AckUnguarded, BuryRaw, AckRaw
<1>2. phase[t] \notin {"down", "dead", "idle"}
  BY DEF Step, HandlerReturns, HandlerRejects, AckHandled, CountAttempt, Bury,
         Forget, AckUnguarded, BuryRaw, AckRaw
<1>3. /\ DispatchNext(t) => Moved(t)
      /\ Escape(t) => Moved(t)
  BY <1>2, NextMoves, EscapeMoves
<1>4. \A p \in {"ack", "count", "bury", "reset", "buriedack", "rawack"} :
        AtAwait(t, p) => Moved(t)
  BY <1>2, AwaitMoves DEF Phases
<1>5. Moved(t)
  <2>1. HandlerReturns(t) \/ HandlerRejects(t) => Moved(t)
    BY <1>4 DEF HandlerReturns, HandlerRejects
  <2>2. AckHandled(t) \/ CountAttempt(t) => Moved(t)
    BY <1>3, <1>4 DEF AckHandled, CountAttempt
  <2>3. Bury(t) \/ Forget(t) \/ BuryRaw(t) => Moved(t)
    BY <1>3, <1>4 DEF Bury, Forget, BuryRaw
  <2>4. AckUnguarded(t) \/ AckRaw(t) => Moved(t)
    BY <1>3 DEF AckUnguarded, AckRaw
  <2>5. QED
    BY <2>1, <2>2, <2>3, <2>4 DEF Step
<1>6. /\ pel' \in [Groups -> SUBSET Ids]
      /\ idle' \in [Groups -> SUBSET Ids]
  <2>1. Acked(Group(t), cur[t]) \/ UNCHANGED <<pel, idle>>
    BY DEF Step, HandlerReturns, HandlerRejects, AckHandled, CountAttempt, Bury,
           Forget, AckUnguarded, BuryRaw, AckRaw, MaybeAcked, redisVars
  <2>2. pel \in [Groups -> SUBSET Ids] /\ idle \in [Groups -> SUBSET Ids]
    BY DEF TypeOK
  <2>3. QED
    BY <2>1, <2>2 DEF Acked
<1>7. attempts' \in [Groups -> [Ids -> Nat]]
  <2>1. attempts' \in {attempts, [attempts EXCEPT ![Group(t)][cur[t]] = @ + 1],
                       [attempts EXCEPT ![Group(t)][cur[t]] = 0]}
    BY DEF Step, HandlerReturns, HandlerRejects, AckHandled, CountAttempt, Bury,
           Forget, AckUnguarded, BuryRaw, AckRaw, redisVars
  <2>2. attempts \in [Groups -> [Ids -> Nat]]
    BY DEF TypeOK
  <2>3. QED
    BY <1>1, <2>1, <2>2, CounterUpdate
<1>8. dlq' \in [Groups -> [Ids -> Nat]]
  <2>1. dlq' \in {dlq, [dlq EXCEPT ![Group(t)][cur[t]] = @ + 1]}
    BY DEF Step, HandlerReturns, HandlerRejects, AckHandled, CountAttempt, Bury,
           Forget, AckUnguarded, BuryRaw, AckRaw, redisVars
  <2>2. dlq \in [Groups -> [Ids -> Nat]]
    BY DEF TypeOK
  <2>3. QED
    BY <1>1, <2>1, <2>2, CounterUpdate
<1>9. failed' \in [Groups -> [Ids -> Nat]]
  <2>1. failed' \in {failed, [failed EXCEPT ![Group(t)][cur[t]] = @ + 1]}
    BY DEF Step, HandlerReturns, HandlerRejects, AckHandled, CountAttempt, Bury,
           Forget, AckUnguarded, BuryRaw, AckRaw
  <2>2. failed \in [Groups -> [Ids -> Nat]]
    BY DEF TypeOK
  <2>3. QED
    BY <1>1, <2>1, <2>2, CounterUpdate
<1>10. /\ handled' \in [Groups -> SUBSET Ids]
       /\ thrown' \in [Groups -> SUBSET Ids]
  <2>1. /\ handled' \in {handled, [handled EXCEPT ![Group(t)] = @ \cup {cur[t]}]}
        /\ thrown' \in {thrown, [thrown EXCEPT ![Group(t)] = @ \cup {cur[t]}]}
    BY DEF Step, HandlerReturns, HandlerRejects, AckHandled, CountAttempt, Bury,
           Forget, AckUnguarded, BuryRaw, AckRaw
  <2>2. handled \in [Groups -> SUBSET Ids] /\ thrown \in [Groups -> SUBSET Ids]
    BY DEF TypeOK
  <2>3. QED
    BY <1>1, <2>1, <2>2
<1>11. faults' \in 0..MaxFaults
  <2>1. Fault \/ UNCHANGED faults
    BY DEF Step, HandlerReturns, HandlerRejects, AckHandled, CountAttempt, Bury,
           Forget, AckUnguarded, BuryRaw, AckRaw
  <2>2. QED
    BY <2>1, BusAssumption DEF TypeOK, Fault
<1>12. UNCHANGED <<kind, first, last, cursor, joined, scan, recounted>>
  BY DEF Step, HandlerReturns, HandlerRejects, AckHandled, CountAttempt, Bury,
         Forget, AckUnguarded, BuryRaw, AckRaw, redisVars, streamVars
<1>13. QED
  BY <1>5, <1>6, <1>7, <1>8, <1>9, <1>10, <1>11, <1>12, DownTogether DEF Moved, TypeOK

\* So does a command that is sent again.
LEMMA ResendType ==
  ASSUME TypeOK, NEW t \in Threads, Resend(t)
  PROVE  TypeOK'
<1>1. cur[t] \in Ids /\ Group(t) \in Groups
  BY BusyEntry DEF Resend
<1>2. UNCHANGED <<kind, first, last, cursor, joined, scan, phase, cur, batch,
                  handled, thrown, failed>>
  BY DEF Resend, streamVars, procVars
<1>3. pel' \in [Groups -> SUBSET Ids] /\ idle' \in [Groups -> SUBSET Ids]
  <2>1. Acked(Group(t), cur[t]) \/ UNCHANGED <<pel, idle>>
    BY DEF Resend
  <2>2. pel \in [Groups -> SUBSET Ids] /\ idle \in [Groups -> SUBSET Ids]
    BY DEF TypeOK
  <2>3. QED
    BY <2>1, <2>2 DEF Acked
<1>4. attempts' \in [Groups -> [Ids -> Nat]]
  <2>1. attempts' \in {attempts, [attempts EXCEPT ![Group(t)][cur[t]] = @ + 1],
                       [attempts EXCEPT ![Group(t)][cur[t]] = 0]}
    BY DEF Resend
  <2>2. attempts \in [Groups -> [Ids -> Nat]]
    BY DEF TypeOK
  <2>3. QED
    BY <1>1, <2>1, <2>2, CounterUpdate
<1>5. dlq' \in [Groups -> [Ids -> Nat]]
  <2>1. dlq' \in {dlq, [dlq EXCEPT ![Group(t)][cur[t]] = @ + 1]}
    BY DEF Resend
  <2>2. dlq \in [Groups -> [Ids -> Nat]]
    BY DEF TypeOK
  <2>3. QED
    BY <1>1, <2>1, <2>2, CounterUpdate
<1>6. recounted' \in [Groups -> [Ids -> Nat]]
  <2>1. recounted' \in {recounted, [recounted EXCEPT ![Group(t)][cur[t]] = @ + 1]}
    BY DEF Resend
  <2>2. recounted \in [Groups -> [Ids -> Nat]]
    BY DEF TypeOK
  <2>3. QED
    BY <1>1, <2>1, <2>2, CounterUpdate
<1>7. faults' \in 0..MaxFaults
  BY BusAssumption DEF Resend, Fault, TypeOK
<1>8. QED
  BY <1>2, <1>3, <1>4, <1>5, <1>6, <1>7 DEF TypeOK

\* The type invariant survives every step of the bus.
LEMMA TypeStep == TypeOK /\ [Next]_vars => TypeOK'
<1> SUFFICES ASSUME TypeOK, [Next]_vars PROVE TypeOK'
  OBVIOUS
<1>1. ASSUME NEW k \in Kinds, Append(k)
      PROVE  TypeOK'
  <2>1. kind' \in [Ids -> Kinds] /\ first' \in 1..(MaxMsgs + 1) /\ last' \in 0..MaxMsgs
    BY <1>1, BusAssumption DEF Append, TypeOK, Ids
  <2>2. QED
    BY <1>1, <2>1 DEF Append, TypeOK, procVars, histVars
<1>2. CASE Publish \/ AppendForeign \/ Replay
  BY <1>1, <1>2 DEF Publish, AppendForeign, Replay, Kinds
<1>3. ASSUME NEW g \in Groups, NEW m \in Ids, BecomesIdle(g, m)
      PROVE  TypeOK'
  BY <1>3 DEF BecomesIdle, TypeOK, procVars, histVars
<1>4. ASSUME NEW g \in Groups, NEW m \in Ids, CounterExpires(g, m)
      PROVE  TypeOK'
  <2>1. attempts' \in [Groups -> [Ids -> Nat]] /\ faults' \in 0..MaxFaults
    BY <1>4, BusAssumption DEF CounterExpires, Fault, TypeOK
  <2>2. QED
    BY <1>4, <2>1 DEF CounterExpires, TypeOK, procVars
<1>5. ASSUME NEW c \in Consumers
      PROVE  /\ GroupOf[c] \in Groups
             /\ <<c, "read">> \in Threads /\ <<c, "claim">> \in Threads
  BY BusAssumption DEF Threads
<1>6. ASSUME NEW c \in Consumers, Subscribe(c)
      PROVE  TypeOK'
  <2>1. phase' \in [Threads -> Phases]
    BY <1>5, <1>6 DEF Subscribe, TypeOK, Phases
  <2>2. cursor' \in [Groups -> -1..MaxMsgs] /\ joined' \in [Groups -> 0..MaxMsgs]
    BY <1>5, <1>6, BusAssumption DEF Subscribe, TypeOK
  <2>3. scan' \in [Consumers -> 0..MaxMsgs]
    BY <1>6, BusAssumption DEF Subscribe, TypeOK
  <2>4. \A t \in Threads : (cur'[t] = None) <=> (phase'[t] \in {"down", "dead", "idle"})
    BY <1>5, <1>6, <2>1 DEF Subscribe, TypeOK
  <2>5. \A d \in Consumers :
          (phase'[<<d, "read">>] = "down") <=> (phase'[<<d, "claim">>] = "down")
    BY <1>5, <1>6 DEF Subscribe, TypeOK
  <2>6. QED
    BY <1>6, <2>1, <2>2, <2>3, <2>4, <2>5 DEF Subscribe, TypeOK, histVars
<1>7. ASSUME NEW c \in Consumers, Crash(c)
      PROVE  TypeOK'
  <2>1. /\ phase' \in [Threads -> Phases]
        /\ cur' \in [Threads -> Ids \cup {None}]
        /\ batch' \in [Threads -> SUBSET Ids]
        /\ \A t \in Threads : (cur'[t] = None) <=> (phase'[t] \in {"down", "dead", "idle"})
    BY <1>5, <1>7 DEF Crash, TypeOK, Phases
  <2>2. faults' \in 0..MaxFaults
    BY <1>7, BusAssumption DEF Crash, Fault, TypeOK
  <2>3. \A d \in Consumers :
          (phase'[<<d, "read">>] = "down") <=> (phase'[<<d, "claim">>] = "down")
    BY <1>5, <1>7 DEF Crash, TypeOK
  <2>4. QED
    BY <1>7, <2>1, <2>2, <2>3 DEF Crash, TypeOK, redisVars
<1>8. ASSUME NEW c \in Consumers, Fetch(c)
      PROVE  TypeOK'
  <2>1. PICK hi \in Fresh(GroupOf[c]) :
          /\ cursor' = [cursor EXCEPT ![GroupOf[c]] = hi]
          /\ pel' = [pel EXCEPT ![GroupOf[c]] = @ \cup UpTo(Fresh(GroupOf[c]), hi)]
          /\ \/ DispatchAll(<<c, "read">>, UpTo(Fresh(GroupOf[c]), hi)) /\ UNCHANGED faults
             \/ Fault /\ UNCHANGED <<phase, cur, batch>>
    BY <1>8 DEF Fetch
  <2>2. hi \in Ids /\ UpTo(Fresh(GroupOf[c]), hi) \in SUBSET Ids
    BY DEF Fresh, UpTo
  <2>3. Moved(<<c, "read">>) \/ UNCHANGED <<phase, cur, batch>>
    BY <1>5, <1>8, <2>1, <2>2, DispatchMoves DEF Fetch
  <2>4. faults' \in 0..MaxFaults
    BY <2>1, BusAssumption DEF Fault, TypeOK
  <2>5. cursor \in [Groups -> -1..MaxMsgs] /\ pel \in [Groups -> SUBSET Ids]
    BY DEF TypeOK
  <2>6. cursor' \in [Groups -> -1..MaxMsgs] /\ pel' \in [Groups -> SUBSET Ids]
    BY <2>1, <2>2, <2>5, BusAssumption DEF Ids
  <2>7. UNCHANGED <<kind, first, last, joined, idle, attempts, dlq, scan,
                    handled, thrown, failed, recounted>>
    BY <1>8 DEF Fetch
  <2>8. CASE Moved(<<c, "read">>)
    BY <1>5, <2>4, <2>6, <2>7, <2>8, DownTogether DEF Moved, TypeOK
  <2>9. CASE UNCHANGED <<phase, cur, batch>>
    BY <2>4, <2>6, <2>7, <2>9 DEF TypeOK
  <2>10. QED
    BY <2>3, <2>8, <2>9
<1>9. ASSUME NEW c \in Consumers, Claim(c)
      PROVE  TypeOK'
  <2> DEFINE more(hi) == \E m \in pel[GroupOf[c]] : m > hi
             got(hi) == UpTo(Due(c), hi)
             gone(hi) == {m \in got(hi) : m < first}
  <2>1. PICK hi \in Ids :
          /\ idle' = [idle EXCEPT ![GroupOf[c]] = @ \ got(hi)]
          /\ pel' = [pel EXCEPT ![GroupOf[c]] = @ \ gone(hi)]
          /\ \/ /\ scan' = [scan EXCEPT ![c] = NextScan(hi, more(hi))]
                /\ DispatchAll(<<c, "claim">>, got(hi) \ gone(hi))
                /\ UNCHANGED faults
             \/ Fault /\ UNCHANGED procVars
    BY <1>9 DEF Claim
  <2>2. pel \in [Groups -> SUBSET Ids] /\ idle \in [Groups -> SUBSET Ids]
    BY DEF TypeOK
  <2>3. got(hi) \in SUBSET Ids /\ got(hi) \ gone(hi) \in SUBSET Ids
    BY <1>5, <2>2 DEF UpTo, Due
  <2>4. Moved(<<c, "claim">>) \/ UNCHANGED <<phase, cur, batch>>
    BY <1>5, <1>9, <2>1, <2>3, DispatchMoves DEF Claim, procVars
  <2>5. NextScan(hi, more(hi)) \in 0..MaxMsgs
    BY <1>5, <2>2, BusAssumption DEF NextScan, Ids
  <2>6. scan' \in [Consumers -> 0..MaxMsgs]
    <3>1. scan \in [Consumers -> 0..MaxMsgs]
      BY DEF TypeOK
    <3>2. scan' \in {scan, [scan EXCEPT ![c] = NextScan(hi, more(hi))]}
      BY <2>1 DEF procVars
    <3>3. QED
      BY <2>5, <3>1, <3>2
  <2>7. faults' \in 0..MaxFaults
    <3>1. Fault \/ UNCHANGED faults
      BY <2>1
    <3>2. QED
      BY <3>1, BusAssumption DEF Fault, TypeOK
  <2>8. idle' \in [Groups -> SUBSET Ids] /\ pel' \in [Groups -> SUBSET Ids]
    BY <2>1, <2>2
  <2>9. UNCHANGED <<kind, first, last, cursor, joined, attempts, dlq,
                    handled, thrown, failed, recounted>>
    BY <1>9 DEF Claim
  <2>10. CASE Moved(<<c, "claim">>)
    BY <1>5, <2>6, <2>7, <2>8, <2>9, <2>10, DownTogether DEF Moved, TypeOK
  <2>11. CASE UNCHANGED <<phase, cur, batch>>
    BY <2>6, <2>7, <2>8, <2>9, <2>11 DEF TypeOK
  <2>12. QED
    BY <2>4, <2>10, <2>11
<1>10. CASE UNCHANGED vars
  BY <1>10 DEF vars, redisVars, procVars, histVars, TypeOK
<1>11. QED
  BY <1>2, <1>3, <1>4, <1>6, <1>7, <1>8, <1>9, <1>10, StepType, ResendType DEF Next

\* The initial state has the types.
LEMMA InitType == Init => TypeOK
<1> SUFFICES ASSUME Init PROVE TypeOK
  OBVIOUS
<1>1. /\ kind \in [Ids -> Kinds] /\ first \in 1..(MaxMsgs + 1) /\ last \in 0..MaxMsgs
      /\ faults \in 0..MaxFaults
  BY BusAssumption DEF Init, Kinds
<1>2. /\ cursor \in [Groups -> -1..MaxMsgs] /\ joined \in [Groups -> 0..MaxMsgs]
      /\ scan \in [Consumers -> 0..MaxMsgs]
  BY BusAssumption DEF Init
<1>3. /\ pel \in [Groups -> SUBSET Ids] /\ idle \in [Groups -> SUBSET Ids]
      /\ handled \in [Groups -> SUBSET Ids] /\ thrown \in [Groups -> SUBSET Ids]
      /\ batch \in [Threads -> SUBSET Ids]
  BY DEF Init
<1>4. /\ attempts \in [Groups -> [Ids -> Nat]] /\ dlq \in [Groups -> [Ids -> Nat]]
      /\ failed \in [Groups -> [Ids -> Nat]] /\ recounted \in [Groups -> [Ids -> Nat]]
  BY DEF Init
<1>5. phase \in [Threads -> Phases] /\ cur \in [Threads -> Ids \cup {None}]
  BY DEF Init, Phases
<1>6. /\ \A t \in Threads : (cur[t] = None) <=> (phase[t] \in {"down", "dead", "idle"})
      /\ \A c \in Consumers : (phase[<<c, "read">>] = "down") <=> (phase[<<c, "claim">>] = "down")
  BY DEF Init, Threads
<1>7. QED
  BY <1>1, <1>2, <1>3, <1>4, <1>5, <1>6 DEF TypeOK

\* StreamBus keeps its types: bounded cursors, phases with an entry exactly while
\* an entry is being dispatched, both activities of a process down together.
THEOREM TypeCorrect == Spec => []TypeOK
BY InitType, TypeStep, PTL DEF Spec

-----------------------------------------------------------------------------
(***************************************************************************)
(* Safety: what one dispatch step does to the lists and the histories.     *)
(***************************************************************************)

\* The pending list only loses the entry in hand, and only to a successful XACK.
LEMMA StepPending ==
  ASSUME TypeOK, NEW t \in Threads, Step(t), NEW g \in Groups
  PROVE  /\ pel'[g] \subseteq pel[g] /\ idle'[g] \subseteq idle[g]
         /\ \A m \in pel[g] \ pel'[g] :
              g = Group(t) /\ m = cur[t]
                /\ phase[t] \in {"ack", "buriedack", "skipack", "rawack"}
<1>1. \/ UNCHANGED <<pel, idle>>
      \/ /\ Acked(Group(t), cur[t])
         /\ phase[t] \in {"ack", "buriedack", "skipack", "rawack"}
  BY DEF Step, HandlerReturns, HandlerRejects, AckHandled, CountAttempt, Bury,
         Forget, AckUnguarded, BuryRaw, AckRaw, MaybeAcked, redisVars
<1>2. pel \in [Groups -> SUBSET Ids] /\ idle \in [Groups -> SUBSET Ids]
  BY DEF TypeOK
<1>3. QED
  BY <1>1, <1>2 DEF Acked

\* Histories and dead letters only grow; a dead letter is new only in Bury and BuryRaw.
LEMMA StepGrows ==
  ASSUME TypeOK, NEW t \in Threads, Step(t), NEW g \in Groups
  PROVE  /\ handled[g] \subseteq handled'[g]
         /\ \A m \in Ids : dlq[g][m] \in Nat /\ dlq'[g][m] \in Nat /\ dlq[g][m] <= dlq'[g][m]
         /\ \A m \in Ids : failed[g][m] \in Nat /\ failed'[g][m] \in Nat
                            /\ failed[g][m] <= failed'[g][m]
         /\ \A m \in Ids : Countable(g, m) \in Nat /\ Countable(g, m)' \in Nat
                            /\ Countable(g, m) <= Countable(g, m)'
         /\ \A m \in Ids : dlq'[g][m] # dlq[g][m] =>
              g = Group(t) /\ m = cur[t] /\ phase[t] \in {"bury", "raw"}
<1>1. cur[t] \in Ids /\ Group(t) \in Groups
  BY BusyEntry DEF Step, HandlerReturns, HandlerRejects, AckHandled, CountAttempt, Bury,
                   Forget, AckUnguarded, BuryRaw, AckRaw
<1>2. /\ handled \in [Groups -> SUBSET Ids]
      /\ dlq \in [Groups -> [Ids -> Nat]] /\ failed \in [Groups -> [Ids -> Nat]]
  BY DEF TypeOK
<1>3. handled' \in {handled, [handled EXCEPT ![Group(t)] = @ \cup {cur[t]}]}
  BY DEF Step, HandlerReturns, HandlerRejects, AckHandled, CountAttempt, Bury,
         Forget, AckUnguarded, BuryRaw, AckRaw
<1>4. \/ UNCHANGED dlq
      \/ /\ dlq' = [dlq EXCEPT ![Group(t)][cur[t]] = @ + 1]
         /\ phase[t] \in {"bury", "raw"}
  BY DEF Step, HandlerReturns, HandlerRejects, AckHandled, CountAttempt, Bury,
         Forget, AckUnguarded, BuryRaw, AckRaw, redisVars
<1>5. failed' \in {failed, [failed EXCEPT ![Group(t)][cur[t]] = @ + 1]}
  BY DEF Step, HandlerReturns, HandlerRejects, AckHandled, CountAttempt, Bury,
         Forget, AckUnguarded, BuryRaw, AckRaw
<1>6. handled[g] \subseteq handled'[g]
  BY <1>1, <1>2, <1>3
<1>7. \A m \in Ids : /\ dlq[g][m] \in Nat /\ dlq'[g][m] \in Nat /\ dlq[g][m] <= dlq'[g][m]
                     /\ dlq'[g][m] # dlq[g][m] =>
                          g = Group(t) /\ m = cur[t] /\ phase[t] \in {"bury", "raw"}
  <2>1. CASE UNCHANGED dlq
    BY <1>2, <2>1
  <2>2. CASE /\ dlq' = [dlq EXCEPT ![Group(t)][cur[t]] = @ + 1]
             /\ phase[t] \in {"bury", "raw"}
    BY <1>1, <1>2, <2>2, CounterPoint
  <2>3. QED
    BY <1>4, <2>1, <2>2
<1>8. \A m \in Ids : failed[g][m] \in Nat /\ failed'[g][m] \in Nat
                     /\ failed[g][m] <= failed'[g][m]
  <2>1. CASE failed' = failed
    BY <1>2, <2>1
  <2>2. CASE failed' = [failed EXCEPT ![Group(t)][cur[t]] = @ + 1]
    BY <1>1, <1>2, <2>2, CounterPoint
  <2>3. QED
    BY <1>5, <2>1, <2>2
<1>9. \A m \in Ids : Countable(g, m) \in Nat /\ Countable(g, m)' \in Nat
                     /\ Countable(g, m) <= Countable(g, m)'
  <2>1. recounted' = recounted
    BY DEF Step, HandlerReturns, HandlerRejects, AckHandled, CountAttempt, Bury,
           Forget, AckUnguarded, BuryRaw, AckRaw
  <2>2. \A m \in Ids : recounted[g][m] \in Nat
    BY DEF TypeOK
  <2>3. QED
    BY <1>8, <2>1, <2>2 DEF Countable
<1>10. QED
  BY <1>6, <1>7, <1>8, <1>9

\* Where the activity goes: to another entry, or to a later await of this one.
LEMMA StepGoes ==
  ASSUME TypeOK, NEW t \in Threads, Step(t)
  PROVE  /\ Moved(t)
         /\ UNCHANGED <<kind, first, last, cursor, joined, recounted>>
         /\ \/ Began(t, batch[t])
            \/ /\ cur' = cur /\ batch' = batch
               /\ \/ HandlerReturns(t) /\ phase'[t] = "ack"
                  \/ (HandlerRejects(t) \/ AckHandled(t)) /\ phase'[t] = "count"
                  \/ CountAttempt(t) /\ phase'[t] = "bury"
                       /\ Exhausted(attempts[Group(t)][cur[t]] + 1)
                  \/ Bury(t) /\ phase'[t] = "reset"
                       /\ dlq' = [dlq EXCEPT ![Group(t)][cur[t]] = @ + 1]
                  \/ Forget(t) /\ phase'[t] = "buriedack"
                  \/ BuryRaw(t) /\ phase'[t] = "rawack"
                       /\ dlq' = [dlq EXCEPT ![Group(t)][cur[t]] = @ + 1]
<1>1. phase[t] \notin {"down", "dead", "idle"}
  BY DEF Step, HandlerReturns, HandlerRejects, AckHandled, CountAttempt, Bury,
         Forget, AckUnguarded, BuryRaw, AckRaw
<1>2. DispatchNext(t) \/ Escape(t) => Moved(t) /\ Began(t, batch[t])
  BY <1>1, NextMoves, EscapeMoves
<1>3. \A p \in {"ack", "count", "bury", "reset", "buriedack", "rawack"} :
        AtAwait(t, p) => Moved(t) /\ phase'[t] = p /\ cur' = cur /\ batch' = batch
  BY <1>1, AwaitMoves DEF Phases
<1>4. UNCHANGED <<kind, first, last, cursor, joined, recounted>>
  BY DEF Step, HandlerReturns, HandlerRejects, AckHandled, CountAttempt, Bury,
         Forget, AckUnguarded, BuryRaw, AckRaw, redisVars, streamVars
<1>5. CASE HandlerReturns(t) \/ HandlerRejects(t)
  BY <1>3, <1>4, <1>5 DEF HandlerReturns, HandlerRejects
<1>6. CASE AckHandled(t)
  BY <1>2, <1>3, <1>4, <1>6 DEF AckHandled
<1>7. CASE CountAttempt(t)
  <2>1. \/ DispatchNext(t)
        \/ Exhausted(attempts[Group(t)][cur[t]] + 1) /\ AtAwait(t, "bury")
    BY <1>7 DEF CountAttempt
  <2>2. QED
    BY <1>2, <1>3, <1>4, <1>7, <2>1
<1>8. CASE Bury(t)
  BY <1>2, <1>3, <1>4, <1>8 DEF Bury
<1>9. CASE Forget(t)
  BY <1>2, <1>3, <1>4, <1>9 DEF Forget
<1>10. CASE BuryRaw(t)
  BY <1>2, <1>3, <1>4, <1>10 DEF BuryRaw
<1>11. CASE AckUnguarded(t) \/ AckRaw(t)
  BY <1>2, <1>4, <1>11 DEF AckUnguarded, AckRaw
<1>12. QED
  BY <1>5, <1>6, <1>7, <1>8, <1>9, <1>10, <1>11 DEF Step

-----------------------------------------------------------------------------
(***************************************************************************)
(* Safety: a dispatch step preserves the inductive invariant.              *)
(***************************************************************************)

\* Sets of counting activities are finite.
LEMMA CountingFinite ==
  ASSUME NEW g, NEW m
  PROVE  IsFiniteSet(Counting(g, m)) /\ Cardinality(Counting(g, m)) \in Nat
<1>1. IsFiniteSet({"read", "claim"})
  <2>1. IsFiniteSet({"read"})
    BY FS_Singleton
  <2>2. IsFiniteSet({"read"} \cup {"claim"})
    BY <2>1, FS_AddElement
  <2>3. {"read"} \cup {"claim"} = {"read", "claim"}
    OBVIOUS
  <2>4. QED
    BY <2>2, <2>3
<1>2. IsFiniteSet(Threads)
  BY <1>1, BusAssumption, FS_Product DEF Threads
<1>3. Counting(g, m) \in SUBSET Threads
  BY DEF Counting
<1>4. QED
  BY <1>2, <1>3, FS_Subset, FS_CardinalityType

\* The failure an activity is about to count is already in the history.
LEMMA CountingHere ==
  ASSUME TypeOK, CounterInv, NEW t \in Threads, phase[t] = "count"
  PROVE  attempts[Group(t)][cur[t]] + 1 <= Countable(Group(t), cur[t])
<1>1. cur[t] \in Ids /\ Group(t) \in Groups
  BY BusyEntry
<1>2. t \in Counting(Group(t), cur[t])
  BY DEF Counting
<1>3. Cardinality(Counting(Group(t), cur[t])) # 0
  BY <1>2, CountingFinite, FS_EmptySet
<1>4. /\ attempts[Group(t)][cur[t]] \in Nat /\ Countable(Group(t), cur[t]) \in Nat
      /\ attempts[Group(t)][cur[t]] + Cardinality(Counting(Group(t), cur[t]))
           <= Countable(Group(t), cur[t])
  BY <1>1 DEF CounterInv, Countable, TypeOK
<1>5. QED
  BY <1>3, <1>4, CountingFinite

\* A step of one activity keeps Published and what every activity has earned.
LEMMA StepEarned ==
  ASSUME IInv, NEW t \in Threads, Step(t)
  PROVE  Published' /\ \A u \in Threads : Earned(u)'
<1>1. TypeOK /\ Published /\ \A u \in Threads : Earned(u)
  BY DEF IInv
<1>2. cur[t] \in Ids /\ Group(t) \in Groups /\ cur[t] # None /\ cur[t] <= last
  BY <1>1, BusyEntry DEF Published, Step, HandlerReturns, HandlerRejects, AckHandled,
     CountAttempt, Bury, Forget, AckUnguarded, BuryRaw, AckRaw
<1>3. /\ Moved(t) /\ UNCHANGED <<kind, last, cursor, recounted>>
      /\ Began(t, batch[t]) \/ (cur' = cur /\ batch' = batch)
  BY <1>1, StepGoes
<1>4. Published'
  <2>1. \A g \in Groups : cursor'[g] <= last' /\ pel'[g] \subseteq 1..last'
                           /\ idle'[g] \subseteq 1..last'
    BY <1>1, <1>3, StepPending DEF Published
  <2>2. \A u \in Threads : cur'[u] <= last' /\ batch'[u] \subseteq 1..last'
    <3>1. last \in Nat /\ batch[t] \subseteq 1..last
      BY <1>1 DEF Published, TypeOK
    <3>2. \A u \in Threads \ {t} : cur'[u] <= last' /\ batch'[u] \subseteq 1..last'
      BY <1>1, <1>3 DEF Published, Moved
    <3>3. cur'[t] <= last' /\ batch'[t] \subseteq 1..last'
      BY <1>2, <1>3, <3>1 DEF Began, None
    <3>4. QED
      BY <3>2, <3>3
  <2>3. \A g \in Groups : \A m \in Ids : dlq'[g][m] > 0 => m <= last'
    BY <1>1, <1>2, <1>3, StepGrows DEF Published
  <2>4. QED
    BY <2>1, <2>2, <2>3 DEF Published
<1>5. ASSUME NEW u \in Threads, u # t
      PROVE  Earned(u)'
  <2>1. phase'[u] = phase[u] /\ cur'[u] = cur[u] /\ kind' = kind
    BY <1>3, <1>5 DEF Moved
  <2>2. phase[u] \in {"ack", "reset", "buriedack", "rawack", "skipack", "raw", "count", "bury"} =>
          cur[u] \in Ids /\ Group(u) \in Groups
    BY <1>1, BusyEntry
  <2>3. Earned(u)
    BY <1>1
  <2>4. phase[u] = "ack" => cur[u] \in handled'[Group(u)]
    BY <1>1, <2>2, <2>3, StepGrows DEF Earned
  <2>5. phase[u] \in {"reset", "buriedack", "rawack"} => dlq'[Group(u)][cur[u]] > 0
    BY <1>1, <2>2, <2>3, StepGrows DEF Earned
  <2>6. /\ phase[u] \in {"count", "bury"} => failed'[Group(u)][cur[u]] > 0
        /\ phase[u] = "bury" => Countable(Group(u), cur[u])' >= Limit
    <3>1. ASSUME phase[u] \in {"count", "bury"}
          PROVE  /\ failed'[Group(u)][cur[u]] > 0
                 /\ Countable(Group(u), cur[u]) >= Limit =>
                      failed'[Group(u)][cur[u]] + recounted'[Group(u)][cur[u]] >= Limit
      <4>1. cur[u] \in Ids /\ Group(u) \in Groups
        BY <2>2, <3>1
      <4>2. /\ failed[Group(u)][cur[u]] \in Nat /\ failed'[Group(u)][cur[u]] \in Nat
            /\ failed[Group(u)][cur[u]] <= failed'[Group(u)][cur[u]]
        BY <1>1, <4>1, StepGrows
      <4>3. recounted' = recounted /\ recounted[Group(u)][cur[u]] \in Nat
        BY <1>1, <1>3, <4>1 DEF TypeOK
      <4>4. QED
        BY <2>3, <3>1, <4>2, <4>3, BusAssumption DEF Earned, Countable
    <3>2. Countable(Group(u), cur[u])' =
            failed'[Group(u)][cur[u]] + recounted'[Group(u)][cur[u]]
      BY <2>1 DEF Countable, Group
    <3>3. phase[u] = "bury" => Countable(Group(u), cur[u]) >= Limit
      BY <2>3 DEF Earned
    <3>4. QED
      BY <3>1, <3>2, <3>3
  <2>7. QED
    BY <2>1, <2>3, <2>4, <2>5, <2>6 DEF Earned, Countable, Group
<1>6. Earned(t)'
  <2>1. CASE Began(t, batch[t])
    BY <1>3, <2>1 DEF Began, Earned
  <2>2. CASE HandlerReturns(t) /\ phase'[t] = "ack" /\ cur' = cur
    BY <1>1, <1>2, <2>2 DEF HandlerReturns, Earned, TypeOK, Group
  <2>3. CASE /\ HandlerRejects(t) \/ AckHandled(t)
             /\ phase'[t] = "count" /\ cur' = cur
    <3>1. failed' = [failed EXCEPT ![Group(t)][cur[t]] = @ + 1]
      <4>1. DispatchNext(t) => phase'[t] # "count"
        <5>1. AckHandled(t) \/ HandlerRejects(t) => phase[t] # "down"
          BY DEF AckHandled, HandlerRejects
        <5>2. DispatchNext(t) => Began(t, batch[t])
          BY <1>1, <2>3, <5>1, NextMoves
        <5>3. QED
          BY <5>2 DEF Began
      <4>2. QED
        BY <2>3, <4>1 DEF HandlerRejects, AckHandled
    <3>2. failed \in [Groups -> [Ids -> Nat]]
      BY <1>1 DEF TypeOK
    <3>3. failed'[Group(t)][cur[t]] > 0
      BY <1>2, <3>1, <3>2
    <3>4. QED
      BY <2>3, <3>3 DEF Earned, Countable, Group
  <2>4. CASE CountAttempt(t) /\ phase'[t] = "bury" /\ cur' = cur
             /\ Exhausted(attempts[Group(t)][cur[t]] + 1)
    <3>1. attempts[Group(t)][cur[t]] + 1 <= Countable(Group(t), cur[t])
      BY <1>1, <1>2, <2>4, CountingHere DEF IInv, CountAttempt
    <3>2. failed' = failed /\ failed[Group(t)][cur[t]] > 0
      BY <1>1, <2>4 DEF CountAttempt, Earned
    <3>3. attempts[Group(t)][cur[t]] \in Nat /\ Countable(Group(t), cur[t]) \in Nat
      BY <1>1, <1>2 DEF TypeOK, Countable
    <3>4. Countable(Group(t), cur[t]) >= Limit
      BY <2>4, <3>1, <3>3, BusAssumption DEF Exhausted
    <3>5. Countable(Group(t), cur[t])' = Countable(Group(t), cur[t])
      BY <1>3, <2>4, <3>2 DEF Countable, Group
    <3>6. QED
      BY <2>4, <3>2, <3>4, <3>5 DEF Earned, Countable, Group
  <2>5. CASE /\ phase'[t] \in {"reset", "rawack"} /\ cur' = cur
             /\ dlq' = [dlq EXCEPT ![Group(t)][cur[t]] = @ + 1]
    <3>1. dlq \in [Groups -> [Ids -> Nat]]
      BY <1>1 DEF TypeOK
    <3>2. dlq'[Group(t)][cur[t]] > 0
      BY <1>2, <2>5, <3>1
    <3>3. QED
      BY <2>5, <3>2 DEF Earned, Countable, Group
  <2>6. CASE Forget(t) /\ phase'[t] = "buriedack" /\ cur' = cur
    BY <1>1, <2>6 DEF Forget, Earned, Group
  <2>7. QED
    BY <1>1, StepGoes, <2>1, <2>2, <2>3, <2>4, <2>5, <2>6
<1>7. QED
  BY <1>4, <1>5, <1>6

\* A movement takes the activity out of every counting set, unless it goes to "count".
LEMMA CountingMoves ==
  ASSUME NEW t \in Threads, Moved(t), NEW g, NEW m
  PROVE  /\ Cardinality(Counting(g, m)') \in Nat
         /\ Cardinality(Counting(g, m)') <= Cardinality(Counting(g, m)) + 1
         /\ phase'[t] # "count" \/ cur'[t] # m \/ Group(t) # g =>
              Cardinality(Counting(g, m)') <= Cardinality(Counting(g, m))
         /\ phase'[t] # "count" /\ t \in Counting(g, m) =>
              Cardinality(Counting(g, m)') <= Cardinality(Counting(g, m)) - 1
<1> DEFINE S == Counting(g, m)
<1>1. IsFiniteSet(S) /\ Cardinality(S) \in Nat
  BY CountingFinite
<1>2. /\ IsFiniteSet(S \cup {t})
      /\ Cardinality(S \cup {t}) \in Nat /\ Cardinality(S \cup {t}) <= Cardinality(S) + 1
  <2>1. /\ IsFiniteSet(S \cup {t})
        /\ Cardinality(S \cup {t}) = IF t \in S THEN Cardinality(S) ELSE Cardinality(S) + 1
    BY <1>1, FS_AddElement
  <2>2. Cardinality(S \cup {t}) \in Nat
    BY <2>1, FS_CardinalityType
  <2>3. QED
    BY <1>1, <2>1, <2>2
<1>3. /\ IsFiniteSet(S \ {t})
      /\ Cardinality(S \ {t}) \in Nat
      /\ t \in S => Cardinality(S \ {t}) = Cardinality(S) - 1
  <2>1. /\ IsFiniteSet(S \ {t})
        /\ Cardinality(S \ {t}) = IF t \in S THEN Cardinality(S) - 1 ELSE Cardinality(S)
    BY <1>1, FS_RemoveElement
  <2>2. Cardinality(S \ {t}) \in Nat
    BY <2>1, FS_CardinalityType
  <2>3. QED
    BY <2>1, <2>2
<1>4. Counting(g, m)' \in SUBSET (S \cup {t})
  BY DEF Counting, Moved, Group
<1>5. phase'[t] # "count" \/ cur'[t] # m \/ Group(t) # g => Counting(g, m)' \in SUBSET S
  BY DEF Counting, Moved, Group
<1>6. phase'[t] # "count" => Counting(g, m)' \in SUBSET (S \ {t})
  BY DEF Counting, Moved, Group
<1>7. /\ Cardinality(Counting(g, m)') \in Nat
      /\ Cardinality(Counting(g, m)') <= Cardinality(S) + 1
  BY <1>1, <1>2, <1>4, FS_Subset, FS_CardinalityType
<1>8. phase'[t] # "count" \/ cur'[t] # m \/ Group(t) # g =>
        Cardinality(Counting(g, m)') <= Cardinality(S)
  BY <1>1, <1>5, FS_Subset
<1>9. phase'[t] # "count" /\ t \in S => Cardinality(Counting(g, m)') <= Cardinality(S) - 1
  BY <1>1, <1>3, <1>6, FS_Subset
<1>10. QED
  BY <1>7, <1>8, <1>9

\* The retry counter never runs ahead of the failures.
LEMMA StepCounter ==
  ASSUME IInv, NEW t \in Threads, Step(t)
  PROVE  CounterInv'
<1>1. TypeOK /\ CounterInv
  BY DEF IInv
<1>2. cur[t] \in Ids /\ Group(t) \in Groups
  BY <1>1, BusyEntry DEF Step, HandlerReturns, HandlerRejects, AckHandled,
     CountAttempt, Bury, Forget, AckUnguarded, BuryRaw, AckRaw
<1>3. Moved(t)
  BY <1>1, StepGoes
<1>4. /\ attempts \in [Groups -> [Ids -> Nat]] /\ failed \in [Groups -> [Ids -> Nat]]
      /\ recounted \in [Groups -> [Ids -> Nat]] /\ recounted' = recounted
  BY <1>1, StepGoes DEF TypeOK
<1>5. attempts' \in [Groups -> [Ids -> Nat]] /\ failed' \in [Groups -> [Ids -> Nat]]
  BY <1>1, StepType DEF TypeOK
<1> SUFFICES ASSUME NEW g \in Groups, NEW m \in Ids
             PROVE  attempts'[g][m] + Cardinality(Counting(g, m)')
                      <= failed'[g][m] + recounted[g][m]
  BY <1>4 DEF CounterInv, Countable
<1>6. /\ attempts[g][m] \in Nat /\ attempts'[g][m] \in Nat
      /\ failed[g][m] \in Nat /\ failed'[g][m] \in Nat /\ recounted[g][m] \in Nat
      /\ Cardinality(Counting(g, m)) \in Nat /\ Cardinality(Counting(g, m)') \in Nat
      /\ attempts[g][m] + Cardinality(Counting(g, m)) <= failed[g][m] + recounted[g][m]
  BY <1>1, <1>3, <1>4, <1>5, CountingFinite, CountingMoves DEF CounterInv, Countable
<1>7. CASE phase'[t] = "count"
  <2>1. /\ cur' = cur
        /\ HandlerRejects(t) \/ AckHandled(t)
    BY <1>1, <1>7, StepGoes DEF Began
  <2>2. ~DispatchNext(t)
    <3>1. phase[t] # "down"
      BY <2>1 DEF HandlerRejects, AckHandled
    <3>2. DispatchNext(t) => Began(t, batch[t])
      BY <1>1, <3>1, NextMoves
    <3>3. QED
      BY <1>7, <3>2 DEF Began
  <2>3. /\ failed' = [failed EXCEPT ![Group(t)][cur[t]] = @ + 1]
        /\ attempts' = attempts
    BY <2>1, <2>2 DEF HandlerRejects, AckHandled, redisVars
  <2>4. failed'[g][m] = IF g = Group(t) /\ m = cur[t] THEN failed[g][m] + 1 ELSE failed[g][m]
    BY <1>2, <1>4, <2>3, CounterPoint
  <2>5. CASE g = Group(t) /\ m = cur[t]
    <3>1. Cardinality(Counting(g, m)') <= Cardinality(Counting(g, m)) + 1
      BY <1>3, CountingMoves
    <3>2. QED
      BY <1>6, <2>3, <2>4, <2>5, <3>1
  <2>6. CASE ~(g = Group(t) /\ m = cur[t])
    <3>1. Cardinality(Counting(g, m)') <= Cardinality(Counting(g, m))
      BY <1>3, <2>1, <2>6, CountingMoves
    <3>2. QED
      BY <1>6, <2>3, <2>4, <2>6, <3>1
  <2>7. QED
    BY <2>5, <2>6
<1>8. CASE phase'[t] # "count"
  <2>1. failed[g][m] <= failed'[g][m]
    BY <1>1, StepGrows
  <2>2. Cardinality(Counting(g, m)') <= Cardinality(Counting(g, m))
    BY <1>3, <1>8, CountingMoves
  <2>3. \/ attempts' = attempts
        \/ attempts' = [attempts EXCEPT ![Group(t)][cur[t]] = 0]
        \/ attempts' = [attempts EXCEPT ![Group(t)][cur[t]] = @ + 1] /\ phase[t] = "count"
    BY DEF Step, HandlerReturns, HandlerRejects, AckHandled, CountAttempt, Bury,
           Forget, AckUnguarded, BuryRaw, AckRaw, redisVars
  <2>4. CASE attempts'[g][m] <= attempts[g][m]
    BY <1>6, <2>1, <2>2, <2>4
  <2>5. CASE ~(attempts'[g][m] <= attempts[g][m])
    <3>1. /\ attempts' = [attempts EXCEPT ![Group(t)][cur[t]] = @ + 1]
          /\ phase[t] = "count"
      <4>1. CASE attempts' = attempts
        BY <1>6, <2>5, <4>1
      <4>2. CASE attempts' = [attempts EXCEPT ![Group(t)][cur[t]] = 0]
        BY <1>2, <1>4, <1>6, <2>5, <4>2, CounterPoint
      <4>3. QED
        BY <2>3, <4>1, <4>2
    <3>2. attempts'[g][m] = IF g = Group(t) /\ m = cur[t] THEN attempts[g][m] + 1
                                                           ELSE attempts[g][m]
      BY <1>2, <1>4, <3>1, CounterPoint
    <3>3. g = Group(t) /\ m = cur[t] /\ attempts'[g][m] = attempts[g][m] + 1
      BY <1>6, <2>5, <3>2
    <3>4. t \in Counting(g, m)
      BY <3>1, <3>3 DEF Counting
    <3>5. Cardinality(Counting(g, m)') <= Cardinality(Counting(g, m)) - 1
      BY <1>3, <1>8, <3>4, CountingMoves
    <3>6. QED
      BY <1>6, <2>1, <3>3, <3>5
  <2>6. QED
    BY <2>4, <2>5
<1>9. QED
  BY <1>7, <1>8

\* At-least-once survives a dispatch step: the only entries a step takes off the
\* pending list are those whose handler returned, that are buried, or that are empty.
LEMMA StepNoLoss ==
  ASSUME IInv, NEW t \in Threads, Step(t)
  PROVE  NoSilentLoss' /\ DeadLetterOnlyAfterLimit'
<1>1. TypeOK /\ Earned(t) /\ NoSilentLoss /\ DeadLetterOnlyAfterLimit
  BY DEF IInv
<1>2. UNCHANGED <<kind, first, cursor, joined>>
  BY <1>1, StepGoes
<1>3. ASSUME NEW g \in Groups, NEW m \in Ids, Answered(g, m)
      PROVE  Answered(g, m)'
  <2>1. handled[g] \subseteq handled'[g]
    BY <1>1, StepGrows
  <2>2. dlq[g][m] > 0 => dlq'[g][m] > 0
    BY <1>1, StepGrows
  <2>3. QED
    BY <1>2, <1>3, <2>1, <2>2 DEF Answered
<1>4. ASSUME NEW g \in Groups, NEW m \in pel[g] \ pel'[g]
      PROVE  Answered(g, m)
  <2>1. g = Group(t) /\ m = cur[t] /\ phase[t] \in {"ack", "buriedack", "skipack", "rawack"}
    BY <1>1, StepPending
  <2>2. QED
    BY <1>1, <2>1 DEF Earned, Answered
<1>5. NoSilentLoss'
  <2> SUFFICES ASSUME NEW g \in Groups, NEW m \in Ids,
                      joined'[g] < m /\ m <= cursor'[g] /\ m \notin pel'[g]
               PROVE  Answered(g, m)'
    BY DEF NoSilentLoss
  <2>1. Answered(g, m)
    BY <1>1, <1>2, <1>4 DEF NoSilentLoss
  <2>2. QED
    BY <1>3, <2>1
<1>6. DeadLetterOnlyAfterLimit'
  <2> SUFFICES ASSUME NEW g \in Groups, NEW m \in Ids, kind'[m] = "json", dlq'[g][m] > 0
               PROVE  failed'[g][m] > 0 /\ Countable(g, m)' >= Limit
    BY DEF DeadLetterOnlyAfterLimit, Countable
  <2>1. /\ failed[g][m] \in Nat /\ failed'[g][m] \in Nat /\ failed[g][m] <= failed'[g][m]
        /\ Countable(g, m) \in Nat /\ Countable(g, m)' \in Nat
        /\ Countable(g, m) <= Countable(g, m)'
    BY <1>1, StepGrows
  <2>2. failed[g][m] > 0 /\ Countable(g, m) >= Limit
    <3>1. CASE dlq'[g][m] = dlq[g][m]
      BY <1>1, <1>2, <3>1 DEF DeadLetterOnlyAfterLimit, Countable
    <3>2. CASE dlq'[g][m] # dlq[g][m]
      <4>1. g = Group(t) /\ m = cur[t] /\ phase[t] \in {"bury", "raw"}
        BY <1>1, <3>2, StepGrows
      <4>2. QED
        BY <1>1, <1>2, <4>1 DEF Earned
    <3>3. QED
      BY <3>1, <3>2
  <2>3. QED
    BY <2>1, <2>2, BusAssumption
<1>7. QED
  BY <1>5, <1>6

-----------------------------------------------------------------------------
(***************************************************************************)
(* Safety: the other actions preserve the inductive invariant.             *)
(***************************************************************************)

\* Counters and failures yet to count may shrink while the history stands still.
LEMMA CounterShrinks ==
  ASSUME IInv, TypeOK', UNCHANGED <<failed, recounted>>,
         \A g \in Groups : \A m \in Ids : attempts'[g][m] <= attempts[g][m],
         \A t \in Threads : phase'[t] = "count" => phase[t] = "count" /\ cur'[t] = cur[t]
  PROVE  CounterInv'
<1> SUFFICES ASSUME NEW g \in Groups, NEW m \in Ids
             PROVE  attempts'[g][m] + Cardinality(Counting(g, m)') <= Countable(g, m)'
  BY DEF CounterInv
<1>1. Counting(g, m)' \in SUBSET Counting(g, m)
  BY DEF Counting, Group
<1>2. /\ IsFiniteSet(Counting(g, m)) /\ Cardinality(Counting(g, m)) \in Nat
      /\ IsFiniteSet(Counting(g, m)')
  BY <1>1, CountingFinite, FS_Subset
<1>3. /\ Cardinality(Counting(g, m)') <= Cardinality(Counting(g, m))
      /\ Cardinality(Counting(g, m)') \in Nat
  BY <1>1, <1>2, FS_Subset, FS_CardinalityType
<1>4. /\ attempts[g][m] \in Nat /\ attempts'[g][m] \in Nat
      /\ Countable(g, m) \in Nat /\ Countable(g, m)' = Countable(g, m)
  BY DEF IInv, TypeOK, Countable
<1>5. attempts[g][m] + Cardinality(Counting(g, m)) <= Countable(g, m)
  BY DEF IInv, CounterInv
<1>6. attempts'[g][m] <= attempts[g][m]
  OBVIOUS
<1>7. QED
  BY <1>2, <1>3, <1>4, <1>5, <1>6

\* An entry of the stream keeps its answer while the stream and the histories grow.
LEMMA AnswerStays ==
  ASSUME NEW g \in Groups, NEW m \in Ids, Answered(g, m), kind'[m] = kind[m],
         UNCHANGED <<handled, dlq>>, first \in Int, first' \in Int, first <= first'
  PROVE  Answered(g, m)'
BY DEF Answered, Ids

LEMMA AppendKeeps ==
  ASSUME IInv, TypeOK', NEW k \in Kinds, Append(k)
  PROVE  IInv'
<1>1. TypeOK /\ Published /\ (\A t \in Threads : Earned(t)) /\ NoSilentLoss
        /\ DeadLetterOnlyAfterLimit
  BY DEF IInv
<1>2. UNCHANGED <<cursor, joined, pel, idle, attempts, dlq, phase, cur, batch,
                  handled, failed, recounted>>
  BY DEF Append, procVars, histVars
<1>3. last' = last + 1 /\ last \in Nat
  BY <1>1 DEF Append, TypeOK
<1>4. \A m \in Ids : m <= last => kind'[m] = kind[m]
  BY <1>1, <1>3 DEF Append, TypeOK, Ids
<1>5. first \in Int /\ first' \in Int /\ first <= first'
  BY <1>1 DEF Append, MayTrimTo, TypeOK
<1>6. Published'
  <2>1. \A g \in Groups : cursor'[g] <= last' /\ pel'[g] \subseteq 1..last'
                           /\ idle'[g] \subseteq 1..last'
    <3>1. cursor \in [Groups -> -1..MaxMsgs] /\ -1..MaxMsgs \subseteq Int
      BY <1>1, BusAssumption DEF TypeOK
    <3>2. QED
      BY <1>1, <1>2, <1>3, <3>1 DEF Published
  <2>2. \A t \in Threads : cur'[t] <= last' /\ batch'[t] \subseteq 1..last'
    <3>1. \A t \in Threads : cur[t] \in Int
      BY <1>1, BusAssumption DEF TypeOK, Ids, None
    <3>2. QED
      BY <1>1, <1>2, <1>3, <3>1 DEF Published
  <2>3. \A g \in Groups : \A m \in Ids : dlq'[g][m] > 0 => m <= last'
    BY <1>1, <1>2, <1>3 DEF Published, Ids
  <2>4. QED
    BY <2>1, <2>2, <2>3 DEF Published
<1>7. ASSUME NEW t \in Threads
      PROVE  Earned(t)'
  <2>1. phase[t] \in {"skipack", "raw"} => kind'[cur[t]] = kind[cur[t]]
    BY <1>1, <1>4, BusyEntry DEF Published
  <2>2. QED
    BY <1>1, <1>2, <2>1 DEF Earned, Countable, Group
<1>8. CounterInv'
  <2>1. attempts \in [Groups -> [Ids -> Nat]]
    BY <1>1 DEF TypeOK
  <2>2. \A g \in Groups : \A m \in Ids : attempts'[g][m] <= attempts[g][m]
    BY <1>2, <2>1
  <2>3. QED
    BY <1>2, <2>2, CounterShrinks
<1>9. NoSilentLoss'
  <2> SUFFICES ASSUME NEW g \in Groups, NEW m \in Ids,
                      joined'[g] < m /\ m <= cursor'[g] /\ m \notin pel'[g]
               PROVE  Answered(g, m)'
    BY DEF NoSilentLoss
  <2>1. Answered(g, m)
    BY <1>1, <1>2 DEF NoSilentLoss
  <2>2. cursor[g] \in Int /\ cursor[g] <= last /\ m <= cursor[g]
    BY <1>1, <1>2, BusAssumption DEF TypeOK, Published
  <2>3. m <= last
    BY <1>3, <2>2 DEF Ids
  <2>4. kind'[m] = kind[m]
    BY <1>4, <2>3
  <2>5. QED
    BY <1>2, <1>5, <2>1, <2>4, AnswerStays
<1>10. DeadLetterOnlyAfterLimit'
  <2>1. \A g \in Groups : \A m \in Ids : dlq[g][m] > 0 => kind'[m] = kind[m]
    BY <1>1, <1>4 DEF Published
  <2>2. QED
    BY <1>1, <1>2, <2>1 DEF DeadLetterOnlyAfterLimit
<1>11. QED
  BY <1>6, <1>7, <1>8, <1>9, <1>10 DEF IInv

\* A delivery may start an activity on the entries it got, and changes no history.
LEMMA DeliveryKeeps ==
  ASSUME IInv, NEW t \in Threads, NEW entries \in SUBSET (1..last),
         (Moved(t) /\ Began(t, entries)) \/ UNCHANGED <<phase, cur, batch>>,
         UNCHANGED <<kind, last, dlq, handled, failed, recounted>>
  PROVE  /\ \A u \in Threads : Earned(u)'
         /\ \A u \in Threads : cur'[u] <= last' /\ batch'[u] \subseteq 1..last'
         /\ \A u \in Threads : phase'[u] = "count" => phase[u] = "count" /\ cur'[u] = cur[u]
         /\ DeadLetterOnlyAfterLimit'
<1>1. TypeOK /\ Published /\ (\A u \in Threads : Earned(u)) /\ DeadLetterOnlyAfterLimit
  BY DEF IInv
<1>2. last \in Nat
  BY <1>1 DEF TypeOK
<1>3. DeadLetterOnlyAfterLimit'
  BY <1>1 DEF DeadLetterOnlyAfterLimit
<1>4. CASE UNCHANGED <<phase, cur, batch>>
  BY <1>1, <1>3, <1>4 DEF Earned, Countable, Published, Group
<1>5. CASE Moved(t) /\ Began(t, entries)
  <2>1. ASSUME NEW u \in Threads, u # t
        PROVE  phase'[u] = phase[u] /\ cur'[u] = cur[u] /\ batch'[u] = batch[u]
    BY <1>5, <2>1 DEF Moved
  <2>2. \A u \in Threads \ {t} : Earned(u)' /\ cur'[u] <= last' /\ batch'[u] \subseteq 1..last'
    BY <1>1, <2>1 DEF Earned, Countable, Published, Group
  <2>3. /\ phase'[t] \in {"idle", "dead", "handler", "raw", "skipack"}
        /\ phase'[t] = "raw" => kind[cur'[t]] = "malformed"
        /\ phase'[t] = "skipack" => kind[cur'[t]] = "nodata"
    BY <1>5 DEF Began
  <2>4. Earned(t)'
    BY <2>3 DEF Earned
  <2>5. cur'[t] <= last' /\ batch'[t] \subseteq 1..last'
    <3>1. last' = last /\ entries \subseteq 1..last
      OBVIOUS
    <3>2. batch'[t] \subseteq entries /\ (cur'[t] = 0 \/ cur'[t] \in entries)
      BY <1>5 DEF Began, None
    <3>3. cur'[t] = 0 \/ cur'[t] \in 1..last
      BY <3>1, <3>2
    <3>4. cur'[t] <= last'
      BY <1>2, <3>1, <3>3
    <3>5. QED
      BY <3>1, <3>2, <3>4
  <2>6. QED
    BY <1>3, <2>1, <2>2, <2>3, <2>4, <2>5
<1>6. QED
  BY <1>4, <1>5

\* A group is created at the newest entry, so it is owed nothing older.
LEMMA SubscribeKeeps ==
  ASSUME IInv, TypeOK', NEW c \in Consumers, Subscribe(c)
  PROVE  IInv'
<1> DEFINE r == <<c, "read">>
           l == <<c, "claim">>
<1>1. TypeOK /\ Published /\ (\A t \in Threads : Earned(t)) /\ NoSilentLoss
        /\ DeadLetterOnlyAfterLimit
  BY DEF IInv
<1>2. r \in Threads /\ l \in Threads /\ GroupOf[c] \in Groups
  BY BusAssumption DEF Threads
<1>3. UNCHANGED <<kind, first, last, pel, idle, attempts, dlq, cur, batch,
                  handled, failed, recounted>>
  BY DEF Subscribe, histVars
<1>4. phase' = [phase EXCEPT ![r] = "idle", ![l] = "idle"] /\ phase \in [Threads -> Phases]
  BY <1>1 DEF Subscribe, TypeOK
<1>5. \A t \in Threads : phase'[t] = "idle" \/ phase'[t] = phase[t]
  BY <1>2, <1>4
<1>6. \A t \in Threads : Earned(t)'
  BY <1>1, <1>3, <1>5 DEF Earned, Countable, Group
<1>7. \A g \in Groups : \/ cursor'[g] = cursor[g] /\ joined'[g] = joined[g]
                        \/ cursor'[g] = last /\ joined'[g] = last
  BY <1>1, <1>2 DEF Subscribe, TypeOK
<1>8. Published'
  <2>1. last \in Nat
    BY <1>1 DEF TypeOK
  <2>2. \A g \in Groups : cursor'[g] <= last'
    BY <1>1, <1>3, <1>7, <2>1 DEF Published
  <2>3. QED
    BY <1>1, <1>3, <2>2 DEF Published
<1>9. CounterInv'
  <2>1. attempts \in [Groups -> [Ids -> Nat]]
    BY <1>1 DEF TypeOK
  <2>2. \A g \in Groups : \A m \in Ids : attempts'[g][m] <= attempts[g][m]
    BY <1>3, <2>1
  <2>3. QED
    BY <1>3, <1>5, <2>2, CounterShrinks
<1>10. NoSilentLoss'
  <2> SUFFICES ASSUME NEW g \in Groups, NEW m \in Ids,
                      joined'[g] < m /\ m <= cursor'[g] /\ m \notin pel'[g]
               PROVE  Answered(g, m)'
    BY DEF NoSilentLoss
  <2>1. last \in Nat
    BY <1>1 DEF TypeOK
  <2>2. ~(cursor'[g] = last /\ joined'[g] = last)
    BY <2>1 DEF Ids
  <2>3. cursor'[g] = cursor[g] /\ joined'[g] = joined[g]
    BY <1>7, <2>2
  <2>4. Answered(g, m)
    BY <1>1, <1>3, <2>3 DEF NoSilentLoss
  <2>5. QED
    BY <1>3, <2>4 DEF Answered
<1>11. DeadLetterOnlyAfterLimit'
  BY <1>1, <1>3 DEF DeadLetterOnlyAfterLimit
<1>12. QED
  BY <1>6, <1>8, <1>9, <1>10, <1>11 DEF IInv

\* A crash forgets what the process held, and Redis nothing.
LEMMA CrashKeeps ==
  ASSUME IInv, TypeOK', NEW c \in Consumers, Crash(c)
  PROVE  IInv'
<1> DEFINE r == <<c, "read">>
           l == <<c, "claim">>
<1>1. TypeOK /\ Published /\ (\A t \in Threads : Earned(t)) /\ NoSilentLoss
        /\ DeadLetterOnlyAfterLimit
  BY DEF IInv
<1>2. r \in Threads /\ l \in Threads
  BY DEF Threads
<1>3. UNCHANGED <<kind, first, last, cursor, joined, pel, idle, attempts, dlq,
                  handled, failed, recounted>>
  BY DEF Crash, redisVars
<1>4. /\ phase' = [phase EXCEPT ![r] = "down", ![l] = "down"]
      /\ cur' = [cur EXCEPT ![r] = None, ![l] = None]
      /\ batch' = [batch EXCEPT ![r] = {}, ![l] = {}]
  BY DEF Crash
<1>5. /\ phase \in [Threads -> Phases]
      /\ cur \in [Threads -> Ids \cup {None}]
      /\ batch \in [Threads -> SUBSET Ids]
  BY <1>1 DEF TypeOK
<1>6. \A t \in Threads : \/ phase'[t] = "down" /\ cur'[t] = None /\ batch'[t] = {}
                         \/ phase'[t] = phase[t] /\ cur'[t] = cur[t] /\ batch'[t] = batch[t]
  BY <1>2, <1>4, <1>5
<1>7. \A t \in Threads : Earned(t)'
  BY <1>1, <1>3, <1>6 DEF Earned, Countable, Group
<1>8. Published'
  <2>1. last \in Nat
    BY <1>1 DEF TypeOK
  <2>2. \A t \in Threads : cur'[t] <= last' /\ batch'[t] \subseteq 1..last'
    BY <1>1, <1>3, <1>6, <2>1 DEF Published, None
  <2>3. QED
    BY <1>1, <1>3, <2>2 DEF Published
<1>9. CounterInv'
  <2>1. attempts \in [Groups -> [Ids -> Nat]]
    BY <1>1 DEF TypeOK
  <2>2. \A g \in Groups : \A m \in Ids : attempts'[g][m] <= attempts[g][m]
    BY <1>3, <2>1
  <2>3. QED
    BY <1>3, <1>6, <2>2, CounterShrinks
<1>10. NoSilentLoss' /\ DeadLetterOnlyAfterLimit'
  BY <1>1, <1>3 DEF NoSilentLoss, DeadLetterOnlyAfterLimit, Answered
<1>11. QED
  BY <1>7, <1>8, <1>9, <1>10 DEF IInv

\* Idle time and the counter's TTL touch only what they name.
LEMMA ClockKeeps ==
  ASSUME IInv, TypeOK', NEW g \in Groups, NEW m \in Ids,
         BecomesIdle(g, m) \/ CounterExpires(g, m)
  PROVE  IInv'
<1>1. TypeOK /\ Published /\ (\A t \in Threads : Earned(t)) /\ NoSilentLoss
        /\ DeadLetterOnlyAfterLimit
  BY DEF IInv
<1>2. UNCHANGED <<kind, first, last, cursor, joined, pel, dlq, phase, cur, batch,
                  handled, failed, recounted>>
  BY DEF BecomesIdle, CounterExpires, procVars, histVars
<1>3. /\ attempts \in [Groups -> [Ids -> Nat]]
      /\ attempts' \in {attempts, [attempts EXCEPT ![g][m] = 0]}
  BY <1>1 DEF BecomesIdle, CounterExpires, TypeOK
<1>4. \A h \in Groups : \A n \in Ids : attempts'[h][n] <= attempts[h][n]
  <2>1. CASE attempts' = attempts
    BY <1>3, <2>1
  <2>2. CASE attempts' = [attempts EXCEPT ![g][m] = 0]
    BY <1>3, <2>2, CounterPoint
  <2>3. QED
    BY <1>3, <2>1, <2>2
<1>5. CounterInv'
  BY <1>2, <1>4, CounterShrinks
<1>6. Published'
  <2>1. /\ idle \in [Groups -> SUBSET Ids]
        /\ idle' \in {idle, [idle EXCEPT ![g] = @ \cup {m}]}
        /\ idle' # idle => m \in pel[g]
    BY <1>1 DEF BecomesIdle, CounterExpires, TypeOK
  <2>2. \A h \in Groups : idle'[h] \subseteq 1..last
    BY <1>1, <2>1 DEF Published
  <2>3. QED
    BY <1>1, <1>2, <2>2 DEF Published
<1>7. NoSilentLoss' /\ DeadLetterOnlyAfterLimit' /\ \A t \in Threads : Earned(t)'
  BY <1>1, <1>2 DEF NoSilentLoss, DeadLetterOnlyAfterLimit, Answered, Earned, Countable,
     Group
<1>8. QED
  BY <1>5, <1>6, <1>7 DEF IInv

\* XREADGROUP moves the cursor over entries it made pending or the stream had dropped.
LEMMA FetchKeeps ==
  ASSUME IInv, TypeOK', NEW c \in Consumers, Fetch(c)
  PROVE  IInv'
<1> DEFINE t == <<c, "read">>
           g == GroupOf[c]
<1>1. TypeOK /\ Published /\ NoSilentLoss
  BY DEF IInv
<1>2. t \in Threads /\ g \in Groups
  BY BusAssumption DEF Threads
<1>3. PICK hi \in Fresh(g) :
        /\ cursor' = [cursor EXCEPT ![g] = hi]
        /\ pel' = [pel EXCEPT ![g] = @ \cup UpTo(Fresh(g), hi)]
        /\ DispatchAll(t, UpTo(Fresh(g), hi)) \/ UNCHANGED <<phase, cur, batch>>
  BY DEF Fetch
<1>4. phase[t] # "down"
        /\ UNCHANGED <<kind, first, last, joined, idle, attempts, dlq,
                       handled, failed, recounted>>
  BY DEF Fetch
<1>5. /\ hi \in Ids /\ hi <= last /\ UpTo(Fresh(g), hi) \in SUBSET Ids
      /\ UpTo(Fresh(g), hi) \in SUBSET (1..last)
  BY <1>1 DEF Fresh, UpTo, Ids, TypeOK
<1>6. (Moved(t) /\ Began(t, UpTo(Fresh(g), hi))) \/ UNCHANGED <<phase, cur, batch>>
  BY <1>1, <1>2, <1>3, <1>4, <1>5, DispatchMoves
<1>7. /\ \A u \in Threads : Earned(u)'
      /\ \A u \in Threads : cur'[u] <= last' /\ batch'[u] \subseteq 1..last'
      /\ \A u \in Threads : phase'[u] = "count" => phase[u] = "count" /\ cur'[u] = cur[u]
      /\ DeadLetterOnlyAfterLimit'
  BY <1>2, <1>4, <1>5, <1>6, DeliveryKeeps
<1>8. /\ \A h \in Groups : h # g => cursor'[h] = cursor[h] /\ pel'[h] = pel[h]
      /\ cursor'[g] = hi /\ pel'[g] = pel[g] \cup UpTo(Fresh(g), hi)
  BY <1>1, <1>2, <1>3 DEF TypeOK
<1>9. Published'
  <2>1. \A h \in Groups : cursor'[h] <= last' /\ pel'[h] \subseteq 1..last'
                           /\ idle'[h] \subseteq 1..last'
    BY <1>1, <1>4, <1>5, <1>8 DEF Published
  <2>2. QED
    BY <1>1, <1>4, <1>7, <2>1 DEF Published
<1>10. CounterInv'
  <2>1. attempts \in [Groups -> [Ids -> Nat]]
    BY <1>1 DEF TypeOK
  <2>2. \A h \in Groups : \A m \in Ids : attempts'[h][m] <= attempts[h][m]
    BY <1>4, <2>1
  <2>3. QED
    BY <1>4, <1>7, <2>2, CounterShrinks
<1>11. NoSilentLoss'
  <2> SUFFICES ASSUME NEW h \in Groups, NEW m \in Ids,
                      joined'[h] < m /\ m <= cursor'[h] /\ m \notin pel'[h]
               PROVE  Answered(h, m)'
    BY DEF NoSilentLoss
  <2>1. Answered(h, m)
    <3>1. CASE m <= cursor[h] /\ m \notin pel[h]
      BY <1>1, <1>4, <3>1 DEF NoSilentLoss
    <3>2. CASE ~(m <= cursor[h] /\ m \notin pel[h])
      <4>1. h = g /\ m \notin pel[g] /\ m \notin UpTo(Fresh(g), hi) /\ m <= hi
        BY <1>8, <3>2
      <4>2. m > cursor[g] /\ m \in Int /\ first \in Int
        <5>1. cursor[g] \in -1..MaxMsgs /\ first \in 1..(MaxMsgs + 1)
          BY <1>1, <1>2 DEF TypeOK
        <5>2. ~(m <= cursor[g])
          BY <3>2, <4>1
        <5>3. QED
          BY <5>1, <5>2, BusAssumption DEF Ids
      <4>3. m <= last
        <5>1. last \in Int /\ hi \in Int /\ hi <= last
          BY <1>1, <1>5 DEF TypeOK, Ids
        <5>2. QED
          BY <4>1, <4>2, <5>1
      <4>4. m < first
        BY <4>1, <4>2, <4>3 DEF UpTo, Fresh
      <4>5. QED
        BY <4>4 DEF Answered
    <3>3. QED
      BY <3>1, <3>2
  <2>2. QED
    BY <1>4, <2>1 DEF Answered
<1>12. QED
  BY <1>7, <1>9, <1>10, <1>11 DEF IInv

\* XAUTOCLAIM takes off the pending list only what the stream has dropped.
LEMMA ClaimKeeps ==
  ASSUME IInv, TypeOK', NEW c \in Consumers, Claim(c)
  PROVE  IInv'
<1> DEFINE t == <<c, "claim">>
           g == GroupOf[c]
           got(hi) == UpTo(Due(c), hi)
           gone(hi) == {m \in got(hi) : m < first}
<1>1. TypeOK /\ Published /\ NoSilentLoss
  BY DEF IInv
<1>2. t \in Threads /\ g \in Groups
  BY BusAssumption DEF Threads
<1>3. PICK hi \in Ids :
        /\ idle' = [idle EXCEPT ![g] = @ \ got(hi)]
        /\ pel' = [pel EXCEPT ![g] = @ \ gone(hi)]
        /\ DispatchAll(t, got(hi) \ gone(hi)) \/ UNCHANGED <<phase, cur, batch>>
  BY DEF Claim, procVars
<1>4. phase[t] # "down"
        /\ UNCHANGED <<kind, first, last, cursor, joined, attempts, dlq,
                       handled, failed, recounted>>
  BY DEF Claim
<1>5. got(hi) \ gone(hi) \in SUBSET Ids /\ got(hi) \ gone(hi) \in SUBSET (1..last)
  <2>1. idle[g] \in SUBSET Ids /\ idle[g] \in SUBSET (1..last)
    BY <1>1, <1>2 DEF TypeOK, Published
  <2>2. QED
    BY <2>1 DEF UpTo, Due
<1>6. (Moved(t) /\ Began(t, got(hi) \ gone(hi))) \/ UNCHANGED <<phase, cur, batch>>
  BY <1>1, <1>2, <1>3, <1>4, <1>5, DispatchMoves
<1>7. /\ \A u \in Threads : Earned(u)'
      /\ \A u \in Threads : cur'[u] <= last' /\ batch'[u] \subseteq 1..last'
      /\ \A u \in Threads : phase'[u] = "count" => phase[u] = "count" /\ cur'[u] = cur[u]
      /\ DeadLetterOnlyAfterLimit'
  BY <1>2, <1>4, <1>5, <1>6, DeliveryKeeps
<1>8. /\ \A h \in Groups : pel'[h] \subseteq pel[h] /\ idle'[h] \subseteq idle[h]
      /\ \A h \in Groups : \A m \in pel[h] \ pel'[h] : m < first
  BY <1>1, <1>2, <1>3 DEF TypeOK
<1>9. Published'
  BY <1>1, <1>4, <1>7, <1>8 DEF Published
<1>10. CounterInv'
  <2>1. attempts \in [Groups -> [Ids -> Nat]]
    BY <1>1 DEF TypeOK
  <2>2. \A h \in Groups : \A m \in Ids : attempts'[h][m] <= attempts[h][m]
    BY <1>4, <2>1
  <2>3. QED
    BY <1>4, <1>7, <2>2, CounterShrinks
<1>11. NoSilentLoss'
  BY <1>1, <1>4, <1>8 DEF NoSilentLoss, Answered
<1>12. QED
  BY <1>7, <1>9, <1>10, <1>11 DEF IInv

\* A command sent again repeats its effect on the entry in hand and moves no activity.
LEMMA ResendKeeps ==
  ASSUME IInv, TypeOK', NEW t \in Threads, Resend(t)
  PROVE  IInv'
<1> DEFINE h == Group(t)
           n == cur[t]
<1>1. TypeOK /\ Published /\ (\A u \in Threads : Earned(u)) /\ CounterInv /\ NoSilentLoss
        /\ DeadLetterOnlyAfterLimit
  BY DEF IInv
<1>2. h \in Groups /\ n \in Ids /\ n <= last
  BY <1>1, BusyEntry DEF Resend, Published
<1>3. UNCHANGED <<kind, first, last, cursor, joined, phase, cur, batch, handled, failed>>
  BY DEF Resend, streamVars, procVars
<1>4. /\ \A g \in Groups : pel'[g] \subseteq pel[g] /\ idle'[g] \subseteq idle[g]
      /\ \A g \in Groups : \A m \in pel[g] \ pel'[g] :
           g = h /\ m = n /\ phase[t] \in {"ack", "buriedack", "skipack", "rawack"}
  <2>1. \/ UNCHANGED <<pel, idle>>
        \/ Acked(h, n) /\ phase[t] \in {"ack", "buriedack", "skipack", "rawack"}
    BY DEF Resend
  <2>2. pel \in [Groups -> SUBSET Ids] /\ idle \in [Groups -> SUBSET Ids]
    BY <1>1 DEF TypeOK
  <2>3. QED
    BY <2>1, <2>2 DEF Acked
<1>5. \A g \in Groups : \A m \in Ids :
        /\ dlq[g][m] \in Nat /\ dlq'[g][m] \in Nat /\ dlq[g][m] <= dlq'[g][m]
        /\ dlq'[g][m] # dlq[g][m] => g = h /\ m = n /\ phase[t] \in {"bury", "raw"}
  <2>1. dlq \in [Groups -> [Ids -> Nat]]
    BY <1>1 DEF TypeOK
  <2>2. CASE UNCHANGED dlq
    BY <2>1, <2>2
  <2>3. CASE dlq' = [dlq EXCEPT ![h][n] = @ + 1] /\ phase[t] \in {"bury", "raw"}
    BY <1>2, <2>1, <2>3, CounterPoint
  <2>4. QED
    BY <2>2, <2>3 DEF Resend
<1>6. \A g \in Groups : \A m \in Ids :
        /\ attempts[g][m] \in Nat /\ attempts'[g][m] \in Nat
        /\ Countable(g, m) \in Nat /\ Countable(g, m)' \in Nat
        /\ Countable(g, m) <= Countable(g, m)'
        /\ Countable(g, m) + attempts'[g][m] <= Countable(g, m)' + attempts[g][m]
  <2> SUFFICES ASSUME NEW g \in Groups, NEW m \in Ids
               PROVE  /\ attempts[g][m] \in Nat /\ attempts'[g][m] \in Nat
                      /\ failed[g][m] \in Nat /\ failed'[g][m] = failed[g][m]
                      /\ recounted[g][m] \in Nat /\ recounted'[g][m] \in Nat
                      /\ recounted[g][m] <= recounted'[g][m]
                      /\ recounted[g][m] + attempts'[g][m] <= recounted'[g][m] + attempts[g][m]
    BY DEF Countable
  <2>1. /\ attempts \in [Groups -> [Ids -> Nat]] /\ failed \in [Groups -> [Ids -> Nat]]
        /\ recounted \in [Groups -> [Ids -> Nat]]
    BY <1>1 DEF TypeOK
  <2>2. CASE UNCHANGED <<attempts, recounted>>
    BY <1>3, <2>1, <2>2
  <2>3. CASE /\ attempts' = [attempts EXCEPT ![h][n] = @ + 1]
             /\ recounted' = [recounted EXCEPT ![h][n] = @ + 1]
    BY <1>2, <1>3, <2>1, <2>3, CounterPoint
  <2>4. CASE attempts' = [attempts EXCEPT ![h][n] = 0] /\ UNCHANGED recounted
    BY <1>2, <1>3, <2>1, <2>4, CounterPoint
  <2>5. QED
    BY <2>2, <2>3, <2>4 DEF Resend
<1>7. Published'
  <2>1. \A g \in Groups : \A m \in Ids : dlq'[g][m] > 0 => m <= last'
    BY <1>1, <1>2, <1>3, <1>5 DEF Published
  <2>2. QED
    BY <1>1, <1>3, <1>4, <2>1 DEF Published
<1>8. ASSUME NEW u \in Threads
      PROVE  Earned(u)'
  <2>1. Earned(u)
    BY <1>1
  <2>2. phase[u] \notin {"down", "dead", "idle"} => cur[u] \in Ids /\ Group(u) \in Groups
    BY <1>1, BusyEntry
  <2>3. phase[u] \in {"reset", "buriedack", "rawack"} => dlq'[Group(u)][cur[u]] > 0
    BY <1>5, <2>1, <2>2 DEF Earned
  <2>4. phase[u] = "bury" => Countable(Group(u), cur[u])' >= Limit
    <3>1. ASSUME phase[u] = "bury"
          PROVE  failed'[Group(u)][cur[u]] + recounted'[Group(u)][cur[u]] >= Limit
      <4>1. /\ Countable(Group(u), cur[u]) \in Nat
            /\ failed'[Group(u)][cur[u]] + recounted'[Group(u)][cur[u]] \in Nat
            /\ Countable(Group(u), cur[u])
                 <= failed'[Group(u)][cur[u]] + recounted'[Group(u)][cur[u]]
        BY <1>6, <2>2, <3>1 DEF Countable
      <4>2. Countable(Group(u), cur[u]) >= Limit
        BY <2>1, <3>1 DEF Earned
      <4>3. QED
        BY <4>1, <4>2, BusAssumption
    <3>2. QED
      BY <1>3, <3>1 DEF Countable, Group
  <2>5. QED
    BY <1>3, <2>1, <2>3, <2>4 DEF Earned, Group
<1>9. CounterInv'
  <2> SUFFICES ASSUME NEW g \in Groups, NEW m \in Ids
               PROVE  attempts'[g][m] + Cardinality(Counting(g, m)') <= Countable(g, m)'
    BY DEF CounterInv
  <2>1. Counting(g, m)' = Counting(g, m)
    BY <1>3 DEF Counting, Group
  <2>2. Cardinality(Counting(g, m)) \in Nat
    BY CountingFinite
  <2>3. attempts[g][m] + Cardinality(Counting(g, m)) <= Countable(g, m)
    BY <1>1 DEF CounterInv
  <2>4. QED
    BY <1>6, <2>1, <2>2, <2>3
<1>10. NoSilentLoss'
  <2> SUFFICES ASSUME NEW g \in Groups, NEW m \in Ids,
                      joined'[g] < m /\ m <= cursor'[g] /\ m \notin pel'[g]
               PROVE  Answered(g, m)'
    BY DEF NoSilentLoss
  <2>1. Answered(g, m)
    <3>1. CASE m \notin pel[g]
      BY <1>1, <1>3, <3>1 DEF NoSilentLoss
    <3>2. CASE m \in pel[g]
      BY <1>1, <1>4, <3>2 DEF Earned, Answered
    <3>3. QED
      BY <3>1, <3>2
  <2>2. dlq[g][m] > 0 => dlq'[g][m] > 0
    BY <1>5
  <2>3. QED
    BY <1>3, <2>1, <2>2 DEF Answered
<1>11. DeadLetterOnlyAfterLimit'
  <2> SUFFICES ASSUME NEW g \in Groups, NEW m \in Ids, kind'[m] = "json", dlq'[g][m] > 0
               PROVE  failed[g][m] > 0 /\ Countable(g, m)' >= Limit
    BY <1>3 DEF DeadLetterOnlyAfterLimit, Countable
  <2>1. failed[g][m] > 0 /\ Countable(g, m) >= Limit
    <3>1. CASE dlq'[g][m] = dlq[g][m]
      BY <1>1, <1>3, <3>1 DEF DeadLetterOnlyAfterLimit, Countable
    <3>2. CASE dlq'[g][m] # dlq[g][m]
      BY <1>1, <1>3, <1>5, <3>2 DEF Earned
    <3>3. QED
      BY <3>1, <3>2
  <2>2. QED
    BY <1>6, <2>1, BusAssumption
<1>12. QED
  BY <1>7, <1>8, <1>9, <1>10, <1>11 DEF IInv

\* The invariant holds when the first subscription has yet to start.
LEMMA IInvInit == Init => IInv
<1> SUFFICES ASSUME Init PROVE IInv
  OBVIOUS
<1>1. TypeOK
  BY InitType
<1>2. Published
  BY DEF Init, Published, None
<1>3. \A t \in Threads : Earned(t)
  BY DEF Init, Earned
<1>4. CounterInv
  <2> SUFFICES ASSUME NEW g \in Groups, NEW m \in Ids
               PROVE  attempts[g][m] + Cardinality(Counting(g, m)) <= Countable(g, m)
    BY DEF CounterInv
  <2>1. Counting(g, m) = {}
    BY DEF Counting, Init
  <2>2. Cardinality(Counting(g, m)) = 0
    BY <2>1, FS_EmptySet
  <2>3. attempts[g][m] = 0 /\ Countable(g, m) = 0
    BY DEF Init, Countable
  <2>4. QED
    BY <2>2, <2>3
<1>5. NoSilentLoss /\ DeadLetterOnlyAfterLimit
  BY DEF Init, NoSilentLoss, DeadLetterOnlyAfterLimit, Ids
<1>6. QED
  BY <1>1, <1>2, <1>3, <1>4, <1>5 DEF IInv

\* The invariant survives every step of the bus.
LEMMA IInvStep == IInv /\ [Next]_vars => IInv'
<1> SUFFICES ASSUME IInv, [Next]_vars PROVE IInv'
  OBVIOUS
<1>1. TypeOK'
  BY TypeStep DEF IInv
<1>2. CASE Publish \/ AppendForeign \/ Replay
  BY <1>1, <1>2, AppendKeeps DEF Publish, AppendForeign, Replay, Kinds
<1>3. ASSUME NEW g \in Groups, NEW m \in Ids, BecomesIdle(g, m) \/ CounterExpires(g, m)
      PROVE  IInv'
  BY <1>1, <1>3, ClockKeeps
<1>4. ASSUME NEW c \in Consumers, Subscribe(c) \/ Crash(c) \/ Fetch(c) \/ Claim(c)
      PROVE  IInv'
  BY <1>1, <1>4, SubscribeKeeps, CrashKeeps, FetchKeeps, ClaimKeeps
<1>5. ASSUME NEW t \in Threads, Step(t)
      PROVE  IInv'
  <2>1. Published' /\ \A u \in Threads : Earned(u)'
    BY <1>5, StepEarned
  <2>2. CounterInv' /\ NoSilentLoss' /\ DeadLetterOnlyAfterLimit'
    BY <1>5, StepCounter, StepNoLoss
  <2>3. QED
    BY <1>1, <2>1, <2>2 DEF IInv
<1>6. ASSUME NEW t \in Threads, Resend(t)
      PROVE  IInv'
  BY <1>1, <1>6, ResendKeeps
<1>7. CASE UNCHANGED vars
  <2>1. UNCHANGED <<kind, first, last, cursor, joined, pel, idle, attempts, dlq, phase,
                    cur, batch, handled, failed, recounted>>
    BY <1>7 DEF vars, redisVars, procVars, histVars
  <2>2. \A g, m : Counting(g, m)' = Counting(g, m)
    BY <2>1 DEF Counting, Group
  <2>3. CounterInv'
    BY <2>1, <2>2 DEF IInv, CounterInv, Countable
  <2>4. QED
    BY <1>1, <2>1, <2>3 DEF IInv, Published, Earned, Countable, Group, NoSilentLoss,
       DeadLetterOnlyAfterLimit, Answered
<1>8. QED
  BY <1>2, <1>3, <1>4, <1>5, <1>6, <1>7 DEF Next

\* The bus loses nothing it delivered: for every number of groups, subscriptions,
\* entries and faults, an entry is pending until it is handled, buried, empty or
\* trimmed.
THEOREM AtLeastOnceSafety == Spec => []NoSilentLoss
<1>1. IInv => NoSilentLoss
  BY DEF IInv
<1>2. QED
  BY <1>1, IInvInit, IInvStep, PTL DEF Spec

\* For every retry limit and however often HINCRBY is sent again, a JSON entry is buried
\* only after a dispatch failed, and after as many failures and repeated increments as the
\* limit says (FailureHandler.onHandlerError).
THEOREM BuriedAfterLimit == Spec => []DeadLetterOnlyAfterLimit
<1>1. IInv => DeadLetterOnlyAfterLimit
  BY DEF IInv
<1>2. QED
  BY <1>1, IInvInit, IInvStep, PTL DEF Spec

-----------------------------------------------------------------------------
(***************************************************************************)
(* The bus keeps its promise (AtLeastOnce).                                *)
(***************************************************************************)

\* What is pending, idle or in hand was delivered, so that nothing of it is also owed as
\* not yet delivered; a group with a running process exists; the stream keeps its newest
\* MaxLen entries.
Behind ==
  /\ \A g \in Groups : pel[g] \subseteq 1..cursor[g] /\ idle[g] \subseteq 1..cursor[g]
  /\ \A t \in Threads :
       /\ phase[t] # "down" => cursor[Group(t)] >= 0
       /\ cur[t] # None => cur[t] <= cursor[Group(t)]
       /\ batch[t] \subseteq 1..cursor[Group(t)]
  /\ first = 1 \/ first <= (last + 1) - MaxLen

\* Where the groups stand is a number.
LEMMA CursorTyped ==
  ASSUME TypeOK, NEW g \in Groups
  PROVE  cursor[g] \in Int /\ cursor[g] >= -1 /\ cursor[g] <= MaxMsgs
BY BusAssumption DEF TypeOK

\* A movement of an activity within what its group was given stays behind the cursors,
\* which only grow.
LEMMA BehindMoves ==
  ASSUME TypeOK, TypeOK', Behind, NEW t \in Threads, NEW entries \in SUBSET Ids,
         \/ UNCHANGED <<phase, cur, batch>>
         \/ Moved(t) /\ Began(t, entries)
         \/ Moved(t) /\ cur' = cur /\ batch' = batch,
         entries \subseteq 1..cursor'[Group(t)],
         \A g \in Groups : cursor[g] <= cursor'[g]
  PROVE  \A u \in Threads :
           /\ phase'[u] # "down" => cursor'[Group(u)] >= 0
           /\ cur'[u] # None => cur'[u] <= cursor'[Group(u)]
           /\ batch'[u] \subseteq 1..cursor'[Group(u)]
<1> TAKE u \in Threads
<1>1. Group(u) \in Groups
  BY BusAssumption DEF Threads, Group
<1>2. /\ cursor[Group(u)] \in Int /\ cursor'[Group(u)] \in Int
      /\ cursor[Group(u)] <= cursor'[Group(u)]
  BY <1>1 DEF TypeOK
<1>3. cur[u] \in Int /\ cur'[u] \in Int
  BY DEF TypeOK, Ids, None
<1>4. CASE phase'[u] = phase[u] /\ cur'[u] = cur[u] /\ batch'[u] = batch[u]
  <2>1. /\ phase[u] # "down" => cursor[Group(u)] >= 0
        /\ cur[u] # None => cur[u] <= cursor[Group(u)]
        /\ batch[u] \subseteq 1..cursor[Group(u)]
    BY DEF Behind
  <2>2. 1..cursor[Group(u)] \subseteq 1..cursor'[Group(u)]
    BY <1>2
  <2>3. QED
    BY <1>2, <1>3, <1>4, <2>1, <2>2
<1>5. CASE u = t /\ Moved(t)
  <2>1. phase[t] # "down" /\ cursor'[Group(t)] >= 0
    BY <1>2, <1>5 DEF Moved, Behind
  <2>2. CASE Began(t, entries)
    <3>1. batch'[t] \subseteq 1..cursor'[Group(t)]
      BY <2>2 DEF Began
    <3>2. cur'[t] = None \/ cur'[t] \in 1..cursor'[Group(t)]
      BY <2>2 DEF Began
    <3>3. QED
      BY <1>2, <1>3, <1>5, <2>1, <3>1, <3>2
  <2>3. CASE cur' = cur /\ batch' = batch
    <3>1. /\ cur[u] # None => cur[u] <= cursor[Group(u)]
          /\ batch[u] \subseteq 1..cursor[Group(u)]
      BY DEF Behind
    <3>2. 1..cursor[Group(u)] \subseteq 1..cursor'[Group(u)]
      BY <1>2
    <3>3. QED
      BY <1>2, <1>3, <1>5, <2>1, <2>3, <3>1, <3>2
  <2>4. CASE UNCHANGED <<phase, cur, batch>>
    BY <1>4, <2>4
  <2>5. QED
    BY <2>2, <2>3, <2>4
<1>6. QED
  BY <1>4, <1>5 DEF Moved

\* Behind depends on nothing else.
LEMMA BehindStays ==
  ASSUME Behind, UNCHANGED <<cursor, pel, idle, phase, cur, batch>>,
         first' = 1 \/ first' <= (last' + 1) - MaxLen
  PROVE  Behind'
BY DEF Behind, Group

\* XADD trims to MaxLen at most.
LEMMA BehindAppend ==
  ASSUME TypeOK, TypeOK', Behind, NEW k \in Kinds, Append(k)
  PROVE  Behind'
<1>1. /\ UNCHANGED <<cursor, pel, idle, phase, cur, batch>>
      /\ last' = last + 1
      /\ first' = first \/ MayTrimTo(first')
  BY DEF Append, procVars
<1>2. first \in Int /\ last \in Int /\ MaxLen \in Int /\ first' \in Int
  BY BusAssumption DEF TypeOK
<1>3. first' = 1 \/ first' <= (last' + 1) - MaxLen
  BY <1>1, <1>2 DEF Behind, MayTrimTo
<1>4. QED
  BY <1>1, <1>3, BehindStays

\* An entry is idle only while it is pending.
LEMMA BehindClock ==
  ASSUME TypeOK, TypeOK', Behind, NEW g \in Groups, NEW m \in Ids,
         BecomesIdle(g, m) \/ CounterExpires(g, m)
  PROVE  Behind'
<1>1. UNCHANGED <<first, last, cursor, pel, phase, cur, batch>>
  BY DEF BecomesIdle, CounterExpires, procVars
<1>2. \A h \in Groups : idle'[h] \subseteq 1..cursor[h]
  <2>1. \A h \in Groups : idle'[h] = idle[h]
                          \/ (h = g /\ m \in pel[g] /\ idle'[h] = idle[h] \cup {m})
    BY DEF BecomesIdle, CounterExpires, TypeOK
  <2>2. QED
    BY <2>1 DEF Behind
<1>3. QED
  BY <1>1, <1>2 DEF Behind, Group

\* A process that starts creates its group if it is missing.
LEMMA BehindSubscribe ==
  ASSUME TypeOK, TypeOK', Behind, NEW c \in Consumers, Subscribe(c)
  PROVE  Behind'
<1> DEFINE g == GroupOf[c]
<1>1. g \in Groups /\ (\A u \in Threads : Group(u) \in Groups) /\ last \in Nat
  BY BusAssumption DEF TypeOK, Threads, Group
<1>2. /\ cursor' = [cursor EXCEPT ![g] = IF @ = -1 THEN last ELSE @]
      /\ phase' = [phase EXCEPT ![<<c, "read">>] = "idle", ![<<c, "claim">>] = "idle"]
      /\ UNCHANGED <<first, last, pel, idle, cur, batch>>
  BY DEF Subscribe
<1>3. /\ \A h \in Groups : cursor[h] <= cursor'[h] /\ cursor[h] \in Int /\ cursor'[h] \in Int
      /\ cursor'[g] >= 0
  BY <1>1, <1>2, CursorTyped DEF TypeOK
<1>4. \A h \in Groups : 1..cursor[h] \subseteq 1..cursor'[h]
  BY <1>3
<1>5. \A h \in Groups : pel'[h] \subseteq 1..cursor'[h] /\ idle'[h] \subseteq 1..cursor'[h]
  BY <1>2, <1>4 DEF Behind
<1>6. ASSUME NEW u \in Threads
      PROVE  /\ phase'[u] # "down" => cursor'[Group(u)] >= 0
             /\ cur'[u] # None => cur'[u] <= cursor'[Group(u)]
             /\ batch'[u] \subseteq 1..cursor'[Group(u)]
  <2>1. /\ phase[u] # "down" => cursor[Group(u)] >= 0
        /\ cur[u] # None => cur[u] <= cursor[Group(u)]
        /\ batch[u] \subseteq 1..cursor[Group(u)]
    BY DEF Behind
  <2>2. Group(u) \in Groups /\ cur[u] \in Int
    BY <1>1 DEF TypeOK, Ids, None
  <2>3. Group(u) = g \/ phase'[u] = phase[u]
    <3>1. CASE u \in {<<c, "read">>, <<c, "claim">>}
      BY <3>1 DEF Group
    <3>2. CASE u \notin {<<c, "read">>, <<c, "claim">>}
      BY <1>2, <3>2 DEF TypeOK
    <3>3. QED
      BY <3>1, <3>2
  <2>4. phase'[u] # "down" => cursor'[Group(u)] >= 0
    BY <1>3, <2>1, <2>2, <2>3
  <2>5. cur'[u] # None => cur'[u] <= cursor'[Group(u)]
    BY <1>2, <1>3, <2>1, <2>2
  <2>6. batch'[u] \subseteq 1..cursor'[Group(u)]
    BY <1>2, <1>4, <2>1, <2>2
  <2>7. QED
    BY <2>4, <2>5, <2>6
<1>7. first' = 1 \/ first' <= (last' + 1) - MaxLen
  BY <1>2 DEF Behind
<1>8. QED
  BY <1>5, <1>6, <1>7 DEF Behind, Group

\* A crash leaves the process nothing in hand.
LEMMA BehindCrash ==
  ASSUME TypeOK, TypeOK', Behind, NEW c \in Consumers, Crash(c)
  PROVE  Behind'
<1>1. UNCHANGED <<first, last, cursor, pel, idle>>
  BY DEF Crash, redisVars
<1>2. \A u \in Threads : \/ phase'[u] = "down" /\ cur'[u] = None /\ batch'[u] = {}
                         \/ phase'[u] = phase[u] /\ cur'[u] = cur[u] /\ batch'[u] = batch[u]
  BY DEF Crash, TypeOK
<1>3. \A u \in Threads : /\ phase'[u] # "down" => cursor'[Group(u)] >= 0
                         /\ cur'[u] # None => cur'[u] <= cursor'[Group(u)]
                         /\ batch'[u] \subseteq 1..cursor'[Group(u)]
  BY <1>1, <1>2 DEF Behind
<1>4. QED
  BY <1>1, <1>3 DEF Behind, Group

\* XREADGROUP hands out what lies up to the new cursor.
LEMMA BehindFetch ==
  ASSUME TypeOK, TypeOK', Behind, NEW c \in Consumers, Fetch(c)
  PROVE  Behind'
<1> DEFINE t == <<c, "read">>
           g == GroupOf[c]
<1>1. t \in Threads /\ g \in Groups /\ Group(t) = g
  BY BusAssumption DEF Threads, Group
<1>2. PICK hi \in Fresh(g) :
        /\ cursor' = [cursor EXCEPT ![g] = hi]
        /\ pel' = [pel EXCEPT ![g] = @ \cup UpTo(Fresh(g), hi)]
        /\ DispatchAll(t, UpTo(Fresh(g), hi)) \/ UNCHANGED <<phase, cur, batch>>
  BY DEF Fetch
<1>3. phase[t] # "down" /\ UNCHANGED <<first, last, idle>>
  BY DEF Fetch
<1>4. hi \in Ids /\ hi > cursor[g] /\ UpTo(Fresh(g), hi) \in SUBSET Ids
  BY DEF Fresh, UpTo
<1>5. /\ \A h \in Groups : h # g => cursor'[h] = cursor[h] /\ pel'[h] = pel[h]
      /\ cursor'[g] = hi /\ pel'[g] = pel[g] \cup UpTo(Fresh(g), hi)
  BY <1>1, <1>2 DEF TypeOK
<1>6. /\ \A h \in Groups : cursor[h] <= cursor'[h] /\ cursor[h] \in Int /\ cursor'[h] \in Int
      /\ \A h \in Groups : 1..cursor[h] \subseteq 1..cursor'[h]
  BY <1>1, <1>4, <1>5, CursorTyped DEF Ids
<1>7. UpTo(Fresh(g), hi) \subseteq 1..cursor'[g]
  BY <1>5 DEF UpTo, Fresh, Ids
<1>8. \A h \in Groups : pel'[h] \subseteq 1..cursor'[h] /\ idle'[h] \subseteq 1..cursor'[h]
  BY <1>3, <1>5, <1>6, <1>7 DEF Behind
<1>9. UNCHANGED <<phase, cur, batch>> \/ (Moved(t) /\ Began(t, UpTo(Fresh(g), hi)))
  BY <1>1, <1>2, <1>3, <1>4, DispatchMoves
<1>10. \A u \in Threads : /\ phase'[u] # "down" => cursor'[Group(u)] >= 0
                          /\ cur'[u] # None => cur'[u] <= cursor'[Group(u)]
                          /\ batch'[u] \subseteq 1..cursor'[Group(u)]
  BY <1>1, <1>4, <1>6, <1>7, <1>9, BehindMoves
<1>11. first' = 1 \/ first' <= (last' + 1) - MaxLen
  BY <1>3 DEF Behind
<1>12. QED
  BY <1>8, <1>10, <1>11 DEF Behind, Group

\* XAUTOCLAIM hands out what was pending.
LEMMA BehindClaim ==
  ASSUME TypeOK, TypeOK', Behind, NEW c \in Consumers, Claim(c)
  PROVE  Behind'
<1> DEFINE t == <<c, "claim">>
           g == GroupOf[c]
           got(hi) == UpTo(Due(c), hi)
           gone(hi) == {m \in got(hi) : m < first}
<1>1. t \in Threads /\ g \in Groups /\ Group(t) = g
  BY BusAssumption DEF Threads, Group
<1>2. PICK hi \in Ids :
        /\ idle' = [idle EXCEPT ![g] = @ \ got(hi)]
        /\ pel' = [pel EXCEPT ![g] = @ \ gone(hi)]
        /\ DispatchAll(t, got(hi) \ gone(hi)) \/ UNCHANGED <<phase, cur, batch>>
  BY DEF Claim, procVars
<1>3. phase[t] # "down" /\ UNCHANGED <<first, last, cursor>>
  BY DEF Claim
<1>4. /\ got(hi) \ gone(hi) \in SUBSET Ids
      /\ got(hi) \ gone(hi) \subseteq 1..cursor'[g]
  <2>1. idle[g] \in SUBSET Ids /\ idle[g] \subseteq 1..cursor[g]
    BY <1>1 DEF TypeOK, Behind
  <2>2. QED
    BY <1>3, <2>1 DEF UpTo, Due
<1>5. \A h \in Groups : pel'[h] \subseteq 1..cursor'[h] /\ idle'[h] \subseteq 1..cursor'[h]
  <2>1. \A h \in Groups : pel'[h] \subseteq pel[h] /\ idle'[h] \subseteq idle[h]
    BY <1>1, <1>2 DEF TypeOK
  <2>2. QED
    BY <1>3, <2>1 DEF Behind
<1>6. UNCHANGED <<phase, cur, batch>> \/ (Moved(t) /\ Began(t, got(hi) \ gone(hi)))
  BY <1>1, <1>2, <1>3, <1>4, DispatchMoves
<1>7. \A h \in Groups : cursor[h] <= cursor'[h]
  BY <1>3, CursorTyped
<1>8. \A u \in Threads : /\ phase'[u] # "down" => cursor'[Group(u)] >= 0
                         /\ cur'[u] # None => cur'[u] <= cursor'[Group(u)]
                         /\ batch'[u] \subseteq 1..cursor'[Group(u)]
  <2> HIDE DEF got, gone
  <2> QED BY <1>1, <1>4, <1>6, <1>7, BehindMoves
<1>9. first' = 1 \/ first' <= (last' + 1) - MaxLen
  BY <1>3 DEF Behind
<1>10. QED
  BY <1>5, <1>8, <1>9 DEF Behind, Group

\* A dispatch step keeps to the batch, and the lists only shrink.
LEMMA BehindStep ==
  ASSUME TypeOK, TypeOK', Behind, NEW t \in Threads, Step(t)
  PROVE  Behind'
<1>1. Group(t) \in Groups
  BY BusAssumption DEF Threads, Group
<1>2. /\ Moved(t)
      /\ UNCHANGED <<first, last, cursor>>
      /\ Began(t, batch[t]) \/ (cur' = cur /\ batch' = batch)
  BY StepGoes
<1>3. batch[t] \in SUBSET Ids /\ batch[t] \subseteq 1..cursor'[Group(t)]
  BY <1>1, <1>2 DEF TypeOK, Behind
<1>4. \A h \in Groups : cursor[h] <= cursor'[h]
  BY <1>2, CursorTyped
<1>5. \A u \in Threads : /\ phase'[u] # "down" => cursor'[Group(u)] >= 0
                         /\ cur'[u] # None => cur'[u] <= cursor'[Group(u)]
                         /\ batch'[u] \subseteq 1..cursor'[Group(u)]
  BY <1>2, <1>3, <1>4, BehindMoves
<1>6. \A h \in Groups : pel'[h] \subseteq 1..cursor'[h] /\ idle'[h] \subseteq 1..cursor'[h]
  <2>1. \A h \in Groups : pel'[h] \subseteq pel[h] /\ idle'[h] \subseteq idle[h]
    BY StepPending
  <2>2. QED
    BY <1>2, <2>1 DEF Behind
<1>7. first' = 1 \/ first' <= (last' + 1) - MaxLen
  BY <1>2 DEF Behind
<1>8. QED
  BY <1>5, <1>6, <1>7 DEF Behind, Group

\* A command sent again moves no cursor and no activity.
LEMMA BehindResend ==
  ASSUME TypeOK, Behind, NEW t \in Threads, Resend(t)
  PROVE  Behind'
<1>1. UNCHANGED <<first, last, cursor, phase, cur, batch>>
  BY DEF Resend, streamVars, procVars
<1>2. \A g \in Groups : pel'[g] \subseteq pel[g] /\ idle'[g] \subseteq idle[g]
  <2>1. UNCHANGED <<pel, idle>> \/ Acked(Group(t), cur[t])
    BY DEF Resend
  <2>2. pel \in [Groups -> SUBSET Ids] /\ idle \in [Groups -> SUBSET Ids]
    BY DEF TypeOK
  <2>3. QED
    BY <2>1, <2>2 DEF Acked
<1>3. QED
  BY <1>1, <1>2 DEF Behind, Group

\* What was delivered stays behind the cursors.
LEMMA BehindNext == TypeOK /\ TypeOK' /\ Behind /\ [Next]_vars => Behind'
<1> SUFFICES ASSUME TypeOK, TypeOK', Behind, [Next]_vars PROVE Behind'
  OBVIOUS
<1>1. CASE Publish \/ AppendForeign \/ Replay
  BY <1>1, BehindAppend DEF Publish, AppendForeign, Replay, Kinds
<1>2. ASSUME NEW g \in Groups, NEW m \in Ids, BecomesIdle(g, m) \/ CounterExpires(g, m)
      PROVE  Behind'
  BY <1>2, BehindClock
<1>3. ASSUME NEW c \in Consumers, Subscribe(c) \/ Crash(c) \/ Fetch(c) \/ Claim(c)
      PROVE  Behind'
  BY <1>3, BehindSubscribe, BehindCrash, BehindFetch, BehindClaim
<1>4. ASSUME NEW t \in Threads, Step(t) \/ Resend(t)
      PROVE  Behind'
  BY <1>4, BehindStep, BehindResend
<1>5. CASE UNCHANGED vars
  <2>1. UNCHANGED <<first, last, cursor, pel, idle, phase, cur, batch>>
    BY <1>5 DEF vars, redisVars, procVars
  <2>2. QED
    BY <2>1, BehindStays DEF Behind
<1>6. QED
  BY <1>1, <1>2, <1>3, <1>4, <1>5 DEF Next

\* Nothing is delivered before the first group.
LEMMA BehindInit == Init => Behind
BY BusAssumption DEF Init, Behind, None

\* What a group is owed, entry by entry.
LEMMA OwedMember ==
  ASSUME TypeOK, NEW g \in Groups, NEW m \in Ids
  PROVE  m \in Owed(g) <=> \/ m \in pel[g]
                           \/ cursor[g] >= 0 /\ m > cursor[g] /\ m >= first /\ m <= last
BY DEF Owed, Fresh

\* Owed entries are entries.
LEMMA OwedTyped ==
  ASSUME TypeOK, NEW g \in Groups
  PROVE  Owed(g) \subseteq Ids
BY DEF Owed, Fresh, TypeOK

\* The promise says nothing of what these steps change.
LEMMA PromiseStutters ==
  ASSUME UNCHANGED <<kind, first, last, cursor, pel, dlq, handled>>
  PROVE  UNCHANGED Promise!vars
BY DEF Promise!vars, Owed, Fresh

\* XADD offers the entry to the groups; what it trims beyond a group's cursor is retention's.
LEMMA AppendSteps ==
  ASSUME TypeOK, TypeOK', Published, Behind, NEW k \in Kinds, Append(k)
  PROVE  Promise!Offer
<1> DEFINE gone == [g \in Groups |-> {m \in Promise!Expendable(last + 1) : m \notin Owed(g)'}]
           void == {m \in Ids : m <= last /\ kind[m] = "nodata"}
           members == {g \in Groups : cursor[g] >= 0}
<1>1. /\ last < MaxMsgs /\ last' = last + 1
      /\ kind' = [kind EXCEPT ![last + 1] = k]
      /\ first' = first \/ MayTrimTo(first')
      /\ UNCHANGED <<cursor, pel, dlq, handled>>
  BY DEF Append, procVars, histVars
<1>2. /\ first \in Int /\ last \in Nat /\ MaxLen \in Nat /\ MaxLen > 0 /\ first' \in Int
      /\ MaxMsgs \in Nat /\ last + 1 \in Ids
  BY <1>1, BusAssumption DEF TypeOK, Ids
<1>3. void' \in {void, void \cup {last + 1}}
  <2>1. \A m \in Ids : kind'[m] = IF m = last + 1 THEN k ELSE kind[m]
    BY <1>1, <1>2 DEF TypeOK
  <2>2. \A m \in Ids : m <= last' <=> m <= last \/ m = last + 1
    BY <1>1, <1>2 DEF Ids
  <2>3. CASE k = "nodata"
    <3>1. \A m \in Ids : m <= last => m # last + 1
      BY <1>2 DEF Ids
    <3>2. void' = void \cup {last + 1}
      BY <1>2, <2>1, <2>2, <2>3, <3>1
    <3>3. QED
      BY <3>2
  <2>4. CASE k # "nodata"
    <3>1. \A m \in Ids : m <= last => m # last + 1
      BY <1>2 DEF Ids
    <3>2. void' = void
      BY <2>1, <2>2, <2>4, <3>1
    <3>3. QED
      BY <3>2
  <2>5. QED
    BY <2>3, <2>4
<1>4. gone \in [Groups -> SUBSET Promise!Expendable(last + 1)]
  OBVIOUS
<1>5. ASSUME NEW g \in Groups
      PROVE  Owed(g)' = (Owed(g) \cup (IF g \in members THEN {last + 1} ELSE {})) \ gone[g]
  <2>1. cursor[g] \in Int
    BY CursorTyped
  <2>2. Owed(g) \subseteq Ids /\ Owed(g)' \subseteq Ids
    BY OwedTyped, <1>1, <1>2 DEF TypeOK, Owed, Fresh
  <2>3. ASSUME NEW m \in Ids
        PROVE  m \in Owed(g)' <=>
                 /\ m \in Owed(g) \/ (g \in members /\ m = last + 1)
                 /\ m \notin gone[g]
    <3>1. m \in Owed(g) <=> \/ m \in pel[g]
                            \/ cursor[g] >= 0 /\ m > cursor[g] /\ m >= first /\ m <= last
      BY OwedMember
    <3>2. m \in Owed(g)' <=> \/ m \in pel[g]
                             \/ cursor[g] >= 0 /\ m > cursor[g] /\ m >= first' /\ m <= last + 1
      BY <1>1 DEF Owed, Fresh
    <3>3. m \in gone[g] <=> m <= (last + 1) - MaxLen /\ m \notin Owed(g)'
      BY DEF Promise!Expendable, Promise!Ids, Ids
    <3>4. first' >= first /\ (first' = first \/ first' <= (last + 2) - MaxLen)
      BY <1>1, <1>2 DEF MayTrimTo
    <3>5. m \in Int /\ cursor[g] <= last /\ (first = 1 \/ first <= (last + 1) - MaxLen)
      BY DEF Ids, Published, Behind
    <3>6. m \in Owed(g)' => (m \in Owed(g) \/ (g \in members /\ m = last + 1)) /\ m \notin gone[g]
      BY <1>2, <2>1, <3>1, <3>2, <3>3, <3>4, <3>5
    <3>7. m \in Owed(g) /\ m \notin gone[g] => m \in Owed(g)'
      BY <1>2, <2>1, <3>1, <3>2, <3>3, <3>4, <3>5
    <3>8. g \in members /\ m = last + 1 /\ m \notin gone[g] => m \in Owed(g)'
      BY <1>2, <2>1, <3>1, <3>2, <3>3, <3>4, <3>5
    <3>9. QED
      BY <3>6, <3>7, <3>8
  <2>4. QED
    BY <1>2, <2>2, <2>3
<1>6. [g \in Groups |-> Owed(g)]' =
        [g \in Groups |-> ([h \in Groups |-> Owed(h)][g]
                           \cup (IF g \in members THEN {last + 1} ELSE {})) \ gone[g]]
  BY <1>5
<1>7. UNCHANGED <<members, handled, [g \in Groups |-> {m \in Ids : dlq[g][m] > 0}]>>
  BY <1>1
<1>8. QED
  <2> HIDE DEF gone
  <2> QED BY <1>1, <1>3, <1>4, <1>6, <1>7 DEF Promise!Offer

\* A group that comes to exist is owed nothing yet.
LEMMA SubscribeSteps ==
  ASSUME TypeOK, TypeOK', Behind, NEW c \in Consumers, Subscribe(c)
  PROVE  UNCHANGED Promise!vars \/ \E g \in Groups : Promise!Join(g)
<1> DEFINE g == GroupOf[c]
           members == {h \in Groups : cursor[h] >= 0}
<1>1. g \in Groups /\ last \in Nat /\ cursor[g] \in Int /\ cursor[g] >= -1
  BY CursorTyped, BusAssumption DEF TypeOK
<1>2. /\ cursor' = [cursor EXCEPT ![g] = IF @ = -1 THEN last ELSE @]
      /\ UNCHANGED <<kind, first, last, pel, dlq, handled>>
  BY DEF Subscribe, histVars
<1>3. CASE cursor[g] # -1
  <2>1. cursor' = cursor
    BY <1>2, <1>3 DEF TypeOK
  <2>2. QED
    BY <1>2, <2>1, PromiseStutters
<1>4. CASE cursor[g] = -1
  <2>1. \A h \in Groups : cursor'[h] = IF h = g THEN last ELSE cursor[h]
    BY <1>2, <1>4 DEF TypeOK
  <2>2. members' = members \cup {g}
    BY <1>1, <2>1
  <2>3. ASSUME NEW h \in Groups
        PROVE  Owed(h)' = Owed(h)
    <3>1. CASE h = g
      <4>1. Owed(h) = pel[h]
        BY <1>4, <3>1 DEF Owed
      <4>2. Fresh(h)' = {}
        BY <1>1, <1>2, <2>1, <3>1 DEF Fresh, Ids
      <4>3. QED
        BY <1>2, <4>1, <4>2 DEF Owed
    <3>2. CASE h # g
      BY <1>2, <2>1, <3>2 DEF Owed, Fresh
    <3>3. QED
      BY <3>1, <3>2
  <2>4. [h \in Groups |-> Owed(h)]' = [h \in Groups |-> Owed(h)]
    BY <2>3
  <2>5. Promise!Join(g)
    BY <1>2, <2>2, <2>4 DEF Promise!Join
  <2>6. QED
    BY <1>1, <2>5
<1>5. QED
  BY <1>3, <1>4

\* XREADGROUP moves entries from those still to be delivered to those pending.
LEMMA FetchSteps ==
  ASSUME TypeOK, TypeOK', Behind, NEW c \in Consumers, Fetch(c)
  PROVE  UNCHANGED Promise!vars
<1> DEFINE g == GroupOf[c]
<1>1. <<c, "read">> \in Threads /\ Group(<<c, "read">>) = g /\ g \in Groups
  BY BusAssumption DEF Threads, Group
<1>2. PICK hi \in Fresh(g) :
        /\ cursor' = [cursor EXCEPT ![g] = hi]
        /\ pel' = [pel EXCEPT ![g] = @ \cup UpTo(Fresh(g), hi)]
  BY DEF Fetch
<1>3. /\ UNCHANGED <<kind, first, last, dlq, handled>>
      /\ phase[<<c, "read">>] # "down"
  BY DEF Fetch
<1>4. hi \in Ids /\ hi > cursor[g] /\ cursor[g] \in Int /\ cursor[g] >= 0
  BY <1>1, <1>3, CursorTyped DEF Fresh, Behind
<1>5. /\ \A h \in Groups : h # g => cursor'[h] = cursor[h] /\ pel'[h] = pel[h]
      /\ cursor'[g] = hi /\ pel'[g] = pel[g] \cup UpTo(Fresh(g), hi)
  BY <1>1, <1>2 DEF TypeOK
<1>6. ASSUME NEW h \in Groups
      PROVE  Owed(h)' = Owed(h) /\ (cursor'[h] >= 0 <=> cursor[h] >= 0)
  <2>1. CASE h # g
    BY <1>3, <1>5, <2>1 DEF Owed, Fresh
  <2>2. CASE h = g
    <3>1. \A m \in Ids : m \in Fresh(g)' <=> m \in Fresh(g) /\ m > hi
      BY <1>3, <1>4, <1>5 DEF Fresh, Ids
    <3>2. \A m \in Fresh(g) : m \in UpTo(Fresh(g), hi) <=> ~(m > hi)
      BY <1>4 DEF UpTo, Fresh, Ids
    <3>3. Fresh(g) \subseteq Ids /\ Fresh(g)' \subseteq Ids /\ UpTo(Fresh(g), hi) \subseteq Fresh(g)
      BY DEF Fresh, UpTo
    <3>4. Fresh(g) = UpTo(Fresh(g), hi) \cup Fresh(g)'
      BY <3>1, <3>2, <3>3
    <3>5. cursor'[g] >= 0
      BY <1>4, <1>5 DEF Ids
    <3>6. Owed(g) = pel[g] \cup Fresh(g) /\ Owed(g)' = pel'[g] \cup Fresh(g)'
      BY <1>4, <3>5 DEF Owed
    <3>7. QED
      BY <1>4, <1>5, <2>2, <3>4, <3>5, <3>6
  <2>3. QED
    BY <2>1, <2>2
<1>7. /\ [h \in Groups |-> Owed(h)]' = [h \in Groups |-> Owed(h)]
      /\ {h \in Groups : cursor[h] >= 0}' = {h \in Groups : cursor[h] >= 0}
  BY <1>6
<1>8. QED
  BY <1>3, <1>7 DEF Promise!vars

\* XAUTOCLAIM takes off the pending list what retention took from the stream.
LEMMA ClaimSteps ==
  ASSUME TypeOK, TypeOK', Behind, NEW c \in Consumers, Claim(c)
  PROVE  \E g \in Groups : Promise!Drop(g)
<1> DEFINE g == GroupOf[c]
           taken(hi) == {m \in UpTo(Due(c), hi) : m < first}
<1>1. g \in Groups /\ first \in Int /\ last \in Int /\ MaxLen \in Int /\ MaxMsgs \in Nat
  BY BusAssumption DEF TypeOK
<1>2. PICK hi \in Ids : pel' = [pel EXCEPT ![g] = @ \ taken(hi)]
  BY DEF Claim
<1>3. UNCHANGED <<kind, first, last, cursor, dlq, handled>>
  BY DEF Claim
<1>4. taken(hi) \subseteq Promise!Expendable(last)
  <2>1. Due(c) \subseteq Ids
    BY <1>1 DEF Due, TypeOK
  <2>2. \A m \in Ids : m < first => m <= last - MaxLen
    BY <1>1 DEF Behind, Ids
  <2>3. QED
    BY <2>1, <2>2 DEF Promise!Expendable, Promise!Ids, Ids, UpTo
<1>5. taken(hi) \cap Fresh(g) = {}
  BY <1>1 DEF Fresh, Ids
<1>6. \A h \in Groups : pel'[h] = IF h = g THEN pel[g] \ taken(hi) ELSE pel[h]
  BY <1>1, <1>2 DEF TypeOK
<1>7. \A h \in Groups : Owed(h)' = IF h = g THEN Owed(g) \ taken(hi) ELSE Owed(h)
  BY <1>3, <1>5, <1>6 DEF Owed, Fresh
<1>8. [h \in Groups |-> Owed(h)]' =
        [[h \in Groups |-> Owed(h)] EXCEPT ![g] = @ \ taken(hi)]
  BY <1>1, <1>7
<1>9. Promise!Drop(g)
  <2> HIDE DEF taken
  <2> QED BY <1>3, <1>4, <1>8 DEF Promise!Drop
<1>10. QED
  BY <1>1, <1>9

\* An XACK of an entry that is handled, buried or void settles it.
LEMMA AckSettles ==
  ASSUME TypeOK, Behind, NEW g \in Groups, NEW m \in Ids, Acked(g, m), m <= cursor[g],
         UNCHANGED <<kind, first, last, cursor, dlq, handled>>,
         m \in handled[g] \/ dlq[g][m] > 0 \/ (m <= last /\ kind[m] = "nodata")
  PROVE  Promise!Settle(g, m)
<1>1. \A h \in Groups : pel'[h] = IF h = g THEN pel[g] \ {m} ELSE pel[h]
  BY DEF Acked, TypeOK
<1>2. m \notin Fresh(g)
  BY CursorTyped DEF Fresh, Ids
<1>3. \A h \in Groups : Owed(h)' = IF h = g THEN Owed(g) \ {m} ELSE Owed(h)
  BY <1>1, <1>2 DEF Owed, Fresh
<1>4. [h \in Groups |-> Owed(h)]' = [[h \in Groups |-> Owed(h)] EXCEPT ![g] = @ \ {m}]
  BY <1>3
<1>5. QED
  BY <1>4 DEF Promise!Settle

\* A record in ais.deadletter buries the entry.
LEMMA RecordBuries ==
  ASSUME TypeOK, NEW g \in Groups, NEW m \in Ids, m <= last,
         dlq' = [dlq EXCEPT ![g][m] = @ + 1],
         UNCHANGED <<kind, first, last, cursor, pel, handled>>
  PROVE  \E h \in Groups : \E n \in Ids : Promise!Bury(h, n)
<1> DEFINE dead == [h \in Groups |-> {n \in Ids : dlq[h][n] > 0}]
<1>1. \A h \in Groups : \A n \in Ids :
        dlq'[h][n] = (IF h = g /\ n = m THEN dlq[h][n] + 1 ELSE dlq[h][n]) /\ dlq[h][n] \in Nat
  BY CounterPoint DEF TypeOK
<1>2. \A h \in Groups : {n \in Ids : dlq'[h][n] > 0} =
        {n \in Ids : dlq[h][n] > 0} \cup (IF h = g THEN {m} ELSE {})
  BY <1>1
<1>3. dead' = [dead EXCEPT ![g] = @ \cup {m}]
  BY <1>2
<1>4. [h \in Groups |-> Owed(h)]' = [h \in Groups |-> Owed(h)]
  BY DEF Owed, Fresh
<1>5. m \in 1..last
  BY DEF Ids, TypeOK
<1>6. Promise!Bury(g, m)
  BY <1>3, <1>4, <1>5 DEF Promise!Bury
<1>7. QED
  BY <1>6

\* A handler that returns handles the entry.
LEMMA ReturnHandles ==
  ASSUME TypeOK, NEW g \in Groups, NEW m \in Ids, m <= last,
         handled' = [handled EXCEPT ![g] = @ \cup {m}],
         UNCHANGED <<kind, first, last, cursor, pel, dlq>>
  PROVE  Promise!Handle(g, m)
<1>1. [h \in Groups |-> Owed(h)]' = [h \in Groups |-> Owed(h)]
  BY DEF Owed, Fresh
<1>2. m \in 1..last
  BY DEF Ids, TypeOK
<1>3. QED
  BY <1>1, <1>2 DEF Promise!Handle

\* Every await of a dispatch handles, buries or settles the entry in hand, or does
\* nothing that the promise speaks of.
LEMMA DispatchSteps ==
  ASSUME IInv, TypeOK', Behind, NEW t \in Threads, Step(t)
  PROVE  \/ UNCHANGED Promise!vars
         \/ \E g \in Groups : \E m \in Ids :
              Promise!Handle(g, m) \/ Promise!Bury(g, m) \/ Promise!Settle(g, m)
<1> DEFINE g == Group(t)
           m == cur[t]
<1>1. TypeOK /\ Published /\ Earned(t)
  BY DEF IInv
<1>2. phase[t] \notin {"down", "dead", "idle"}
  BY DEF Step, HandlerReturns, HandlerRejects, AckHandled, CountAttempt, Bury,
         Forget, AckUnguarded, BuryRaw, AckRaw
<1>3. g \in Groups /\ m \in Ids /\ m <= last /\ m <= cursor[g]
  BY <1>1, <1>2, BusyEntry DEF Published, Behind
<1>4. UNCHANGED <<kind, first, last, cursor>>
  BY <1>1, StepGoes
<1>5. CASE HandlerReturns(t)
  <2>1. handled' = [handled EXCEPT ![g] = @ \cup {m}] /\ UNCHANGED <<pel, dlq>>
    BY <1>5 DEF HandlerReturns, redisVars
  <2>2. Promise!Handle(g, m)
    BY <1>1, <1>3, <1>4, <2>1, ReturnHandles
  <2>3. QED
    BY <1>3, <2>2
<1>6. CASE HandlerRejects(t) \/ CountAttempt(t) \/ Forget(t)
  <2>1. UNCHANGED <<pel, dlq, handled>>
    BY <1>6 DEF HandlerRejects, CountAttempt, Forget, redisVars
  <2>2. QED
    BY <1>4, <2>1, PromiseStutters
<1>7. CASE Bury(t) \/ BuryRaw(t)
  <2>1. /\ dlq' = dlq \/ dlq' = [dlq EXCEPT ![g][m] = @ + 1]
        /\ UNCHANGED <<pel, handled>>
    BY <1>7 DEF Bury, BuryRaw
  <2>2. CASE dlq' = dlq
    BY <1>4, <2>1, <2>2, PromiseStutters
  <2>3. CASE dlq' = [dlq EXCEPT ![g][m] = @ + 1]
    <3>1. \E h \in Groups : \E n \in Ids : Promise!Bury(h, n)
      BY <1>1, <1>3, <1>4, <2>1, <2>3, RecordBuries
    <3>2. QED
      BY <3>1
  <2>4. QED
    BY <2>1, <2>2, <2>3
<1>8. CASE AckHandled(t) \/ AckUnguarded(t) \/ AckRaw(t)
  <2>1. /\ Acked(g, m) \/ UNCHANGED <<pel, idle>>
        /\ UNCHANGED <<dlq, handled>>
        /\ phase[t] \in {"ack", "buriedack", "skipack", "rawack"}
    BY <1>8 DEF AckHandled, AckUnguarded, AckRaw, MaybeAcked
  <2>2. m \in handled[g] \/ dlq[g][m] > 0 \/ (m <= last /\ kind[m] = "nodata")
    BY <1>1, <1>3, <2>1 DEF Earned
  <2>3. CASE Acked(g, m)
    <3>1. Promise!Settle(g, m)
      BY <1>1, <1>3, <1>4, <2>1, <2>2, <2>3, AckSettles
    <3>2. QED
      BY <1>3, <3>1
  <2>4. CASE UNCHANGED <<pel, idle>>
    BY <1>4, <2>1, <2>4, PromiseStutters
  <2>5. QED
    BY <2>1, <2>3, <2>4
<1>9. QED
  BY <1>5, <1>6, <1>7, <1>8 DEF Step

\* A command sent again settles or buries the entry in hand once more, or does nothing
\* that the promise speaks of.
LEMMA ResendSteps ==
  ASSUME IInv, Behind, NEW t \in Threads, Resend(t)
  PROVE  \/ UNCHANGED Promise!vars
         \/ \E g \in Groups : \E m \in Ids : Promise!Bury(g, m) \/ Promise!Settle(g, m)
<1> DEFINE g == Group(t)
           m == cur[t]
<1>1. TypeOK /\ Published /\ Earned(t)
  BY DEF IInv
<1>2. g \in Groups /\ m \in Ids /\ m # None /\ m <= last /\ m <= cursor[g]
  BY <1>1, BusyEntry DEF Resend, Published, Behind
<1>3. UNCHANGED <<kind, first, last, cursor, handled>>
  BY DEF Resend, streamVars
<1>4. CASE UNCHANGED <<pel, dlq>>
  BY <1>3, <1>4, PromiseStutters
<1>5. CASE dlq' = [dlq EXCEPT ![g][m] = @ + 1] /\ UNCHANGED pel
  <2>1. \E h \in Groups : \E n \in Ids : Promise!Bury(h, n)
    BY <1>1, <1>2, <1>3, <1>5, RecordBuries
  <2>2. QED
    BY <2>1
<1>6. CASE /\ Acked(g, m) /\ UNCHANGED dlq
           /\ phase[t] \in {"ack", "buriedack", "skipack", "rawack"}
  <2>1. m \in handled[g] \/ dlq[g][m] > 0 \/ (m <= last /\ kind[m] = "nodata")
    BY <1>1, <1>2, <1>6 DEF Earned
  <2>2. Promise!Settle(g, m)
    BY <1>1, <1>2, <1>3, <1>6, <2>1, AckSettles
  <2>3. QED
    BY <1>2, <2>2
<1>7. QED
  BY <1>4, <1>5, <1>6 DEF Resend

\* Every step of the bus is one of the promise, or leaves it as it is.
LEMMA PromiseKept == IInv /\ TypeOK' /\ Behind /\ [Next]_vars => [Promise!Next]_(Promise!vars)
<1> SUFFICES ASSUME IInv, TypeOK', Behind, [Next]_vars
             PROVE  Promise!Next \/ UNCHANGED Promise!vars
  OBVIOUS
<1>1. TypeOK /\ Published /\ Promise!Ids = Ids
  BY DEF IInv, Promise!Ids, Ids
<1>2. CASE Publish \/ AppendForeign \/ Replay
  <2>1. Promise!Offer
    BY <1>1, <1>2, AppendSteps DEF Publish, AppendForeign, Replay, Kinds
  <2>2. QED
    BY <2>1 DEF Promise!Next
<1>3. ASSUME NEW g \in Groups, NEW m \in Ids, BecomesIdle(g, m) \/ CounterExpires(g, m)
      PROVE  UNCHANGED Promise!vars
  <2>1. UNCHANGED <<kind, first, last, cursor, pel, dlq, handled>>
    BY <1>3 DEF BecomesIdle, CounterExpires, histVars
  <2>2. QED
    BY <2>1, PromiseStutters
<1>4. ASSUME NEW c \in Consumers, Crash(c)
      PROVE  UNCHANGED Promise!vars
  <2>1. UNCHANGED <<kind, first, last, cursor, pel, dlq, handled>>
    BY <1>4 DEF Crash, redisVars
  <2>2. QED
    BY <2>1, PromiseStutters
<1>5. ASSUME NEW c \in Consumers, Subscribe(c) \/ Fetch(c) \/ Claim(c)
      PROVE  Promise!Next \/ UNCHANGED Promise!vars
  <2>1. UNCHANGED Promise!vars \/ \E g \in Groups : Promise!Join(g) \/ Promise!Drop(g)
    BY <1>1, <1>5, SubscribeSteps, FetchSteps, ClaimSteps
  <2>2. QED
    BY <2>1 DEF Promise!Next
<1>6. ASSUME NEW t \in Threads, Step(t) \/ Resend(t)
      PROVE  Promise!Next \/ UNCHANGED Promise!vars
  <2>1. \/ UNCHANGED Promise!vars
        \/ \E g \in Groups : \E m \in Promise!Ids :
             Promise!Handle(g, m) \/ Promise!Bury(g, m) \/ Promise!Settle(g, m)
    BY <1>1, <1>6, DispatchSteps, ResendSteps
  <2>2. QED
    BY <2>1 DEF Promise!Next
<1>7. CASE UNCHANGED vars
  <2>1. UNCHANGED <<kind, first, last, cursor, pel, dlq, handled>>
    BY <1>7 DEF vars, redisVars, histVars
  <2>2. QED
    BY <2>1, PromiseStutters
<1>8. QED
  BY <1>2, <1>3, <1>4, <1>5, <1>6, <1>7 DEF Next

\* Before the first entry and the first group nothing is owed.
LEMMA PromiseInit == Init => Promise!Init
<1> SUFFICES ASSUME Init PROVE Promise!Init
  OBVIOUS
<1>1. \A m \in Ids : ~(m <= 0)
  BY DEF Ids
<1>2. {m \in Ids : m <= last /\ kind[m] = "nodata"} = {}
  BY DEF Init
<1>3. {g \in Groups : cursor[g] >= 0} = {}
  BY DEF Init
<1>4. [g \in Groups |-> Owed(g)] = [g \in Groups |-> {}]
  BY DEF Init, Owed
<1>5. [g \in Groups |-> {m \in Ids : dlq[g][m] > 0}] = [g \in Groups |-> {}]
  BY DEF Init
<1>6. QED
  BY <1>2, <1>3, <1>4, <1>5 DEF Init, Promise!Init

\* The bus implements AtLeastOnce for every number of groups, subscriptions, entries and
\* faults: what a group is owed, pending or not yet delivered, is only ever given up to a
\* handler, a dead letter or retention (XREADGROUP, XAUTOCLAIM and every XACK of dispatch).
THEOREM BusKeepsPromise == Spec => ImplementsAtLeastOnce
<1>1. IInv => TypeOK
  BY DEF IInv
<1>2. IInv /\ Behind /\ [Next]_vars => [Promise!Next]_(Promise!vars) /\ IInv' /\ Behind'
  <2>1. IInv /\ [Next]_vars => IInv' /\ TypeOK'
    BY IInvStep DEF IInv
  <2>2. QED
    BY <1>1, <2>1, PromiseKept, BehindNext
<1>3. Init => IInv /\ Behind /\ Promise!Init
  BY IInvInit, BehindInit, PromiseInit
<1>4. QED
  BY <1>2, <1>3, PTL DEF Spec, ImplementsAtLeastOnce, Promise!Spec
=============================================================================
