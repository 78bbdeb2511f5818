----------------------------- MODULE MCIncoming -----------------------------
(* What comes in: harvests of batches, harvests of days, and the updates   *)
(* that are merged into records.  They share no state and are checked in   *)
(* one run: "part" is the one that runs, the others keep one initial state.*)
EXTENDS RecordUpdates, HarvestBatches, HarvestWindows, TLC

CONSTANTS p1, p2, i1, w1, w2

VARIABLE part
partVars == <<updatesVars, batchVars, windowVars, part>>

PartsInit ==
  /\ UpdatesInit /\ BatchesInit /\ WindowsInit
  /\ part \in {"updates", "batches", "windows"}
  /\ part # "updates" => \A p \in Paper : head[p].items = {}
  /\ part # "batches" => feed = "desy" /\ \A b \in Batch : articles[b] = {}
  /\ part # "windows" => origin = "arxiv"

PartsNext ==
  /\ part' = part
  /\ \/ part = "updates" /\ UpdatesNext /\ UNCHANGED <<batchVars, windowVars>>
     \/ part = "batches" /\ BatchesNext /\ UNCHANGED <<updatesVars, windowVars>>
     \/ part = "windows" /\ WindowsNext /\ UNCHANGED <<updatesVars, batchVars>>

PartsSpec == PartsInit /\ [][PartsNext]_partVars

\* The types of all parts.
TypesOK == UpdatesTypeOK /\ BatchesTypeOK /\ WindowsTypeOK

\* Records, batches and preprints use the same model values; runs and harvests.
Alike == Permutations({p1, p2}) \cup Permutations({w1, w2})

\* At most three new versions of the records, one less for each run that has a
\* decision, and two less for one that has a late decision.
FewEdits ==
  head[p1].version + head[p2].version
    + Cardinality({w \in Run : run[w].approved}) + Cardinality({w \in Run : run[w].late}) <= 5
=============================================================================
