--------------------------- MODULE MCHepDecisions ---------------------------
(* Instances of HepDecisions for TLC.                                      *)
EXTENDS HepDecisions, FiniteSets

CONSTANT q1

\* One decision at most that comes out of its time, and with it two requests and
\* Celery tasks under way.
OneStray ==
  /\ Cardinality(stray) <= 1
  /\ stray # {} => Cardinality(inbox) + Cardinality({r \in Req : Open(r)}) <= 2
=============================================================================
