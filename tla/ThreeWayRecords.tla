-------------------------- MODULE ThreeWayRecords --------------------------
(***************************************************************************)
(* What curators may expect of the updates of a record: each changes it in *)
(* one step, by a three-way merge of the record as it is then, the update, *)
(* and something that the record had from the same source before.  There   *)
(* are no runs here, no versions, no roots, no waiting and no failures;    *)
(* RecordUpdates implements it.                                            *)
(***************************************************************************)
CONSTANTS
  Paper,        \* records
  Source,       \* sources of updates
  Item          \* pieces of metadata

VARIABLES
  items,        \* what each record has
  had,          \* what it has or had
  brought,      \* what updates of each source put into it
  lent          \* pairs of records: the first may be compared with what the second had

recordsVars == <<items, had, brought, lent>>

RecordsInit ==
  /\ items \in [Paper -> SUBSET Item]
  /\ had = items
  /\ brought = [p \in Paper |-> [s \in Source |-> {}]]
  /\ lent = {}

\* What was in the record, and what a source brought to it, with those of the
\* records it may be compared with.
Known(p) == {i \in Item : i \in had[p] \/ \E o \in Paper : <<p, o>> \in lent /\ i \in had[o]}
BroughtTo(p, s) ==
  {i \in Item : i \in brought[p][s] \/ \E o \in Paper : <<p, o>> \in lent /\ i \in brought[o][s]}

\* What only one side has changed since they had "old".
ThreeWay(mine, old, update) == (mine \cup update) \ (old \ (mine \cap update))

Change(p, new, was) ==
  /\ items' = [items EXCEPT ![p] = new]
  /\ had' = [had EXCEPT ![p] = @ \cup new \cup was]

\* A curator adds or takes out an item.
Edit(p, i) ==
  /\ Change(p, (items[p] \cup {i}) \ (items[p] \cap {i}), {})
  /\ UNCHANGED <<brought, lent>>

\* An update of a source.
Update(p, s, update) ==
  /\ \E old \in SUBSET (Known(p) \cap BroughtTo(p, s)) :
       Change(p, ThreeWay(items[p], old, update), {})
  /\ brought' = [brought EXCEPT ![p][s] = @ \cup update]
  /\ UNCHANGED lent

\* Before a merge: updates of p are compared with what o had, and with what
\* those of o are compared with.
Lend(p, o) ==
  /\ lent' = lent \cup {<<p, q>> : q \in ({o} \cup {q \in Paper : <<o, q>> \in lent}) \ {p}}
  /\ UNCHANGED <<items, had, brought>>

\* The merge: p takes what o had when the merge looked; nothing of p is lost.
Join(p, o) ==
  /\ \E taken \in SUBSET had[o] : Change(p, items[p] \cup taken, had[o])
  /\ brought' = [brought EXCEPT ![p] = [s \in Source |-> @[s] \cup brought[o][s]]]
  /\ lent' = lent \ {<<p, o>>}

RecordsNext ==
  \E p \in Paper :
    \/ \E i \in Item : Edit(p, i)
    \/ \E s \in Source, update \in SUBSET Item : Update(p, s, update)
    \/ \E o \in Paper : Lend(p, o) \/ Join(p, o)

RecordsSpec == RecordsInit /\ [][RecordsNext]_recordsVars
=============================================================================
