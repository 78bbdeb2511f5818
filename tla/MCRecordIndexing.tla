-------------------------- MODULE MCRecordIndexing --------------------------
(* Instances of RecordIndexing for TLC.                                    *)
EXTENDS RecordIndexing, TLC

CONSTANTS p1, p2, c1

Papers == Permutations(Paper)

Open == {<<r, v>> \in Rec \X (1..MaxVersion) : v \in DOMAIN task[r] /\ Unfinished(task[r][v])}

\* Versions of the citing record that are superseded or out of the collection.
Aside == {v \in DOMAIN history[c1] : history[c1][v].successor # "none" \/ ~history[c1][v].listed}

\* Papers have two versions at most and three new ones in all with the citing
\* record, two when that is put aside; one that is put aside keeps its references.
\* Two tasks are under way, and one reason for a stale document, at a time.
Few ==
  /\ \A p \in Paper : Len(history[p]) <= 2
  /\ Cardinality(Open) <= 2
  /\ Len(history[p1]) + Len(history[p2]) + Len(history[c1]) <= IF Aside = {} THEN 6 ELSE 5
  /\ \A v \in Aside : history[c1][v].refs = history[c1][1].refs
  /\ Cardinality(spoilt) <= 1
=============================================================================
