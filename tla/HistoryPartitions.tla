-------------------------- MODULE HistoryPartitions --------------------------
(***************************************************************************)
(* The daily partitions of vessel_positions_history and the maintenance    *)
(* that creates and drops them (history-partitions.ts and                  *)
(* HistoryPartitionMaintenanceService).  Time is the number of the UTC     *)
(* day.                                                                    *)
(***************************************************************************)
EXTENDS Integers, FiniteSets

CONSTANTS Maintainers,  \* processes that run maintain(): apps and the migrator
          Retention,    \* HISTORY_RETENTION_DAYS
          Safety,       \* HISTORY_RETENTION_SAFETY_DAYS
          Precreate,    \* HISTORY_PRECREATE_DAYS
          FirstDay,     \* the day the system starts
          MaxDay        \* bound: the last day

ASSUME PartitionAssumption ==
  /\ Retention \in Nat \ {0}
  /\ Safety \in Nat
  /\ Precreate \in Nat
  /\ FirstDay \in Int /\ MaxDay \in Int /\ FirstDay <= MaxDay

NoDay == FirstDay - 1

\* historyRetentionCutoffDay.
CutoffDay(now) == now - (Retention + Safety)

\* Every day of an event or a partition.
Days == CutoffDay(FirstDay) - 1 .. MaxDay + Precreate + 1

\* Mutant: the window starts at the retention, without the safety days.
WindowWithoutSafety(now) == now - Retention .. now + Precreate

\* historyPartitionWindow.
Window(now) == CutoffDay(now) .. now + Precreate

\* isHistoryEventRetained, which has no upper limit.
Retained(at, now) == at >= CutoffDay(now)

\* The partitions planHistoryPartitionMaintenance drops.
Outdated(days, now) == {d \in days : d < CutoffDay(now)}

VARIABLES
  today,       \* the clock
  partitions,  \* days that have a partition
  run,         \* per maintainer: the day its maintain() started, NoDay when none
  holder,      \* maintainers that hold the advisory lock
  lastOk       \* history: the latest day a maintenance that committed started, or NoDay

partitionVars == <<partitions, run, holder, lastOk>>

PartitionTypeOK ==
  /\ today \in FirstDay..MaxDay
  /\ partitions \subseteq Days
  /\ run \in [Maintainers -> NoDay..MaxDay]
  /\ holder \subseteq Maintainers
  /\ lastOk \in NoDay..MaxDay
  /\ \A m \in Maintainers : run[m] <= today
  /\ \A m \in holder : run[m] # NoDay
  /\ Cardinality(holder) <= 1

PartitionInit ==
  /\ today = FirstDay
  /\ partitions = {}
  /\ run = [m \in Maintainers |-> NoDay]
  /\ holder = {}
  /\ lastOk = NoDay

\* Midnight UTC.
NextDay ==
  /\ today < MaxDay
  /\ today' = today + 1
  /\ UNCHANGED partitionVars

\* maintain() reads the clock, at startup and once a day.
Maintain(m) ==
  /\ run[m] = NoDay
  /\ run' = [run EXCEPT ![m] = today]
  /\ UNCHANGED <<today, partitions, holder, lastOk>>

\* pg_try_advisory_xact_lock: without the lock the run is skipped.
TryLock(m) ==
  /\ run[m] # NoDay
  /\ m \notin holder
  /\ \/ holder = {} /\ holder' = {m} /\ UNCHANGED run
     \/ holder # {} /\ run' = [run EXCEPT ![m] = NoDay] /\ UNCHANGED holder
  /\ UNCHANGED <<today, partitions, lastOk>>

\* The transaction creates the window's partitions and drops the outdated ones.
CommitMaintenance(m) ==
  /\ m \in holder
  /\ partitions' = (partitions \cup Window(run[m])) \ Outdated(partitions, run[m])
  /\ lastOk' = IF run[m] > lastOk THEN run[m] ELSE lastOk
  /\ run' = [run EXCEPT ![m] = NoDay]
  /\ holder' = {}
  /\ UNCHANGED today

\* Mutant: a lock of the session, which a rollback does not release.
AbortKeepingLock(m) ==
  /\ run[m] # NoDay
  /\ run' = [run EXCEPT ![m] = NoDay]
  /\ UNCHANGED <<today, partitions, holder, lastOk>>

\* It fails, or its process dies: rolled back, lock released.
AbortMaintenance(m) ==
  /\ run[m] # NoDay
  /\ run' = [run EXCEPT ![m] = NoDay]
  /\ holder' = holder \ {m}
  /\ UNCHANGED <<today, partitions, lastOk>>

PartitionStep ==
  \E m \in Maintainers :
    Maintain(m) \/ TryLock(m) \/ CommitMaintenance(m) \/ AbortMaintenance(m)
=============================================================================
