----------------------------- MODULE AtLeastOnce -----------------------------
(***************************************************************************)
(* What the event bus promises each consumer group: every entry published  *)
(* after the group was created stays owed to the group until a handler of  *)
(* the group has returned for it or a dead letter records it.  Retention   *)
(* may take an entry back, never one of the newest MaxLen.  An entry may   *)
(* be handled, or buried, more than once and in any order.                 *)
(***************************************************************************)
EXTENDS Integers

CONSTANTS Groups, MaxLen, MaxMsgs

Ids == 1..MaxMsgs

VARIABLES last,     \* the newest entry
          void,     \* entries that carry no event
          members,  \* the groups created so far
          owed,     \* per group: entries it still has to answer for
          handled,  \* per group: entries a handler returned for
          dead      \* per group: entries with a dead letter

vars == <<last, void, members, owed, handled, dead>>

Init ==
  /\ last = 0
  /\ void = {}
  /\ members = {}
  /\ owed = [g \in Groups |-> {}]
  /\ handled = [g \in Groups |-> {}]
  /\ dead = [g \in Groups |-> {}]

\* Old entries that retention may take from the groups.
Expendable(newest) == {m \in Ids : m <= newest - MaxLen}

Join(g) ==
  /\ members' = members \cup {g}
  /\ UNCHANGED <<last, void, owed, handled, dead>>

\* A new entry becomes owed to every group that exists; retention may act, on a group as
\* far as the group has not been given the entries.
Offer ==
  /\ last < MaxMsgs
  /\ last' = last + 1
  /\ void' \in {void, void \cup {last + 1}}
  /\ \E gone \in [Groups -> SUBSET Expendable(last + 1)] :
       owed' = [g \in Groups |->
                  (owed[g] \cup (IF g \in members THEN {last + 1} ELSE {})) \ gone[g]]
  /\ UNCHANGED <<members, handled, dead>>

Handle(g, m) ==
  /\ m \in 1..last
  /\ handled' = [handled EXCEPT ![g] = @ \cup {m}]
  /\ UNCHANGED <<last, void, members, owed, dead>>

Bury(g, m) ==
  /\ m \in 1..last
  /\ dead' = [dead EXCEPT ![g] = @ \cup {m}]
  /\ UNCHANGED <<last, void, members, owed, handled>>

Settle(g, m) ==
  /\ m \in handled[g] \cup dead[g] \cup void
  /\ owed' = [owed EXCEPT ![g] = @ \ {m}]
  /\ UNCHANGED <<last, void, members, handled, dead>>

\* A group learns that retention took entries it had been given.
Drop(g) ==
  /\ \E gone \in SUBSET Expendable(last) : owed' = [owed EXCEPT ![g] = @ \ gone]
  /\ UNCHANGED <<last, void, members, handled, dead>>

Next ==
  \/ Offer
  \/ \E g \in Groups :
       \/ Join(g) \/ Drop(g)
       \/ \E m \in Ids : Handle(g, m) \/ Bury(g, m) \/ Settle(g, m)

Spec == Init /\ [][Next]_vars
=============================================================================
