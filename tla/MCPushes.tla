------------------------------ MODULE MCPushes ------------------------------
(* The pushes to ORCID and to HAL, which share no state, checked in one    *)
(* run: "part" is the one that runs, the other keeps one initial state.    *)
EXTENDS OrcidPush, HalPush, TLC

CONSTANTS r1, r2, i1, i2, j1, j2, x1

VARIABLE part
partVars == <<vars, halVars, part>>

PartsInit ==
  /\ Init /\ HalInit
  /\ part \in {"orcid", "hal"}
  /\ part = "hal" => issued = 0 /\ \A r \in Rec : history[r][1].ids = {}

PartsNext ==
  /\ part' = part
  /\ \/ part = "orcid" /\ Next /\ UNCHANGED halVars
     \/ part = "hal" /\ HalNext /\ UNCHANGED vars

PartsSpec == PartsInit /\ [][PartsNext]_partVars

\* The types of both parts.
TypesOK == PushTypeOK /\ HalTypeOK

\* Records, identifiers and workers are interchangeable.
Symmetry == Permutations(Rec) \cup Permutations(Id) \cup Permutations(Job)

\* ORCID: few updates and tasks, and one reason for a work to be wrong, at a time.
Few ==
  /\ Len(history[r1]) + Len(history[r2]) <= 4
  /\ Cardinality(sent) + Cardinality({j \in Job : job[j].at # "idle"}) <= 3
  /\ Cardinality(spoilt) <= 1
  /\ \A r \in Rec : history[r][1].ids \in {{}, Id}
=============================================================================
