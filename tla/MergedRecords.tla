--------------------------- MODULE MergedRecords ---------------------------
(***************************************************************************)
(* What the record store promises to whoever looks a control number up:    *)
(* however records were merged, one record answers for each number, and    *)
(* only a merge changes which.  There are no redirections here, no         *)
(* sessions and no versions; RecordPids implements it.                     *)
(***************************************************************************)
CONSTANTS
  Recid,        \* control numbers
  TypeOf        \* the PID type of each

VARIABLES
  status,       \* "absent", "registered", "deleted", or "redirected"
  answer        \* the control number at which a lookup ends

mergedVars == <<status, answer>>

MergedInit ==
  /\ status = [p \in Recid |-> "absent"]
  /\ answer = [p \in Recid |-> p]

\* A record is created, live or already deleted; or a live one is deleted.
SetStatus(r, s) ==
  /\ \/ status[r] = "absent" /\ s \in {"registered", "deleted"}
     \/ status[r] = "registered" /\ s = "deleted"
  /\ status' = [status EXCEPT ![r] = s]
  /\ UNCHANGED answer

\* Records are merged into r, which is created or updated: r is the answer for
\* all of them, and for all that were merged into them before.  They exist, and
\* are of the type of r.
Merge(r, merged) ==
  /\ status[r] \in {"absent", "registered"}
  /\ r \notin merged
  /\ \A p \in merged : status[p] # "absent" /\ TypeOf[p] = TypeOf[r]
  /\ \A p \in Recid : answer[p] \in merged => p \in merged
  /\ status' = [p \in Recid |-> IF p \in merged THEN "redirected"
                                ELSE IF p = r THEN "registered" ELSE status[p]]
  /\ answer' = [p \in Recid |-> IF p \in merged THEN r ELSE answer[p]]

\* A record is forgotten that was not merged, and answers for no other.
Forget(r) ==
  /\ status[r] \in {"registered", "deleted"}
  /\ \A p \in Recid : answer[p] = r => p = r
  /\ status' = [status EXCEPT ![r] = "absent"]
  /\ UNCHANGED answer

MergedNext ==
  \E r \in Recid :
    \/ \E s \in {"registered", "deleted"} : SetStatus(r, s)
    \/ \E merged \in SUBSET Recid : Merge(r, merged)
    \/ Forget(r)

MergedSpec == MergedInit /\ [][MergedNext]_mergedVars
=============================================================================
