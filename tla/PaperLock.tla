----------------------------- MODULE PaperLock -----------------------------
(***************************************************************************)
(* What admission promises: the workflows of one paper take turns as if    *)
(* they held a lock.  There is no such lock in the code; HepWorkflows      *)
(* implements it, while searches see what was written and restarts save    *)
(* before the run begins, seen through the workflows that were admitted: a *)
(* decision can set a run going that has ended, outside the lock.          *)
(***************************************************************************)
CONSTANTS
  Wf,           \* the workflows of the paper
  NoWf          \* no workflow

VARIABLE owner  \* the workflow that may work on the paper

LockInit == owner = NoWf

\* A workflow gets to work only when no other is at work ...
Acquire(w) == owner = NoWf /\ owner' = w

\* ... and is never replaced by another in one step.
Release == owner # NoWf /\ owner' = NoWf

LockNext == Release \/ \E w \in Wf : Acquire(w)

LockSpec == LockInit /\ [][LockNext]_owner
=============================================================================
