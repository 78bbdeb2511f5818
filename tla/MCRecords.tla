------------------------------ MODULE MCRecords ------------------------------
(* Four components that share no state, checked in one run: "part" is the  *)
(* one that runs, the others keep one initial state.  Each is checked as   *)
(* if it were alone.                                                       *)
EXTENDS RecordPids, AuthorLinks, AuthorWorkflows, Citations, TLC

CONSTANTS a1, a2, a3, b1, b2, x1

VARIABLE part
partVars == <<vars, linksVars, authorVars, citationVars, part>>

PartsInit ==
  /\ Init /\ LinksInit /\ AuthorsInit /\ CitationsInit
  /\ part \in {"pids", "links", "authors", "citations"}
  /\ part # "links" => \A p \in Profile : profile[p] = "none"
  /\ part # "citations" => \A w \in Work : content[w].refs = {} /\ content[w].authors = {}

PartsNext ==
  /\ part' = part
  /\ \/ part = "pids" /\ Next /\ UNCHANGED <<linksVars, authorVars, citationVars>>
     \/ part = "links" /\ LinksNext /\ UNCHANGED <<vars, authorVars, citationVars>>
     \/ part = "authors" /\ AuthorsNext /\ UNCHANGED <<vars, linksVars, citationVars>>
     \/ part = "citations" /\ CitationsNext /\ UNCHANGED <<vars, linksVars, authorVars>>

PartsSpec == PartsInit /\ [][PartsNext]_partVars

\* The types of all parts.
TypesOK == TypeOK /\ LinksTypeOK /\ AuthorsTypeOK /\ CitationsTypeOK

Sameness == [r \in Recid |-> "lit"]

\* The parts use the same model values, so that few permutations are enough:
\* two of the control numbers, and sessions; profiles, and author entries; works.
Alike == Permutations({a1, a2}) \cup Permutations({b1, b2})

\* Citations: two changes, and a third when their index tasks are done.
\* AuthorLinks: at most two of an update, a task, a claim and the removal of
\* stubs are under way at a time, and few tasks wait.
\* AuthorWorkflows: one workflow without an ORCID, or two with the same ORCID
\* of which one at a time has failed, is restarted or is about to be saved, until
\* one is left wrong; one restart of a workflow at a time.
FewAtWork ==
  /\ LET n == changed[a1] + changed[a2]
     IN n <= 2 \/ (n = 3 /\ toIndex = {})
  /\ (edit # Blank /\ job # NoJob) => claims = {}
  /\ dropped # {} => (claims = {} /\ Cardinality(tasks) <= 1)
  /\ clean.on => (edit = Blank /\ job = NoJob /\ dropped = {} /\ Cardinality(tasks) <= 1)
  /\ \A w \in Author : Cardinality(restarts[w]) <= 1
  /\ LET begun == {w \in Author : row[w].status # "none"}
     IN Cardinality(begun) > 1 =>
          /\ begun \subseteq WithOrcid
          /\ Cardinality({w \in begun : Broken(w) # {} \/ saving[w] # {} \/ restarts[w] # {}}) <= 1
          /\ spoilt = {}
  /\ Cardinality(tasks) <= 2 /\ Cardinality(claims) <= 1
=============================================================================
