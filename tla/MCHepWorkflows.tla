--------------------------- MODULE MCHepWorkflows ---------------------------
(* Instances of HepWorkflows for TLC.                                      *)
EXTENDS HepWorkflows, TLC

CONSTANTS w1, w2, w3, w4

\* Two harvests from one source, and a workflow from another or submissions.
MCSourceOf == [w \in Wf |-> IF w \in Submission THEN "submitter"
                            ELSE IF w = w3 THEN "publisher" ELSE "arxiv"]

\* What goes on beside the runs: failures, restarts and decisions.
Rows == Cardinality({w \in Wf : created[w] # 0})
Failures == Cardinality({w \in Wf : pc[w] = "failed"})
Restarts == Cardinality({r \in DOMAIN restart : restart[r].at # "answered"})
Decisions == Cardinality(inbox) + Cardinality(saving) + Cardinality(late)

\* Two workflows, with one failed run, one restart and one decision at a time; or
\* three, with one of these, when the third finds what a decision has left and no
\* curator asks for more.
OneTrouble ==
  \/ Rows <= 2 /\ Failures <= 1 /\ Restarts <= 1 /\ Decisions <= 1
  \/ /\ Failures + Restarts + Decisions <= 1
     /\ inbox \cup saving = {} /\ restart[Curator].at = "answered"

\* Nothing goes wrong: no failure, no restart, no decision.
Quiet ==
  /\ Failures + Restarts + Decisions = 0
  /\ \A w \in Wf : pc[w] # "lost"

\* Any two of the workflows come to exist: two harvests, two submissions, or
\* one of each.  A failed run and a restart at a time, or a decision; and then
\* searches lag behind one of the two.
Lagging == Cardinality({w \in Wf : indexed[w] # status[w]})
TwoRows ==
  /\ Rows <= 2
  /\ \/ Failures <= 1 /\ Restarts <= 1 /\ Decisions = 0
     \/ Failures + Restarts + Decisions <= 1
  /\ Failures + Restarts + Decisions > 0 => Lagging <= 1

\* The two harvests from one source, and two submissions, are interchangeable.
Harvests == Permutations({w1, w2})
Likes == Permutations({w1, w2}) \cup Permutations({w3, w4})
=============================================================================
