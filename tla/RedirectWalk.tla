---------------------------- MODULE RedirectWalk ----------------------------
(***************************************************************************)
(* A request that follows redirections (InspireRedirect.get_redirect,      *)
(* called by the resolver, by get_uuid_from_pid_value and by the ORCID     *)
(* push) while other sessions merge, delete and hard delete records.       *)
(* Every step of the loop is a query of its own under READ COMMITTED, so   *)
(* the graph changes under the walk.                                       *)
(***************************************************************************)
EXTENDS RecordPids

VARIABLES
  cursor,     \* the PID the loop is at, NoRecid when no request is running
  visited     \* history: the PIDs the loop has left

walkVars == <<vars, cursor, visited>>

WalkTypeOK ==
  /\ TypeOK
  /\ cursor \in Recid \cup {NoRecid}
  /\ visited \subseteq Recid

WalkInit == Init /\ cursor = NoRecid /\ visited = {}

\* PersistentIdentifier.get raises for a PID that does not exist.
StartWalk(p) ==
  /\ cursor = NoRecid
  /\ status[p] # "absent"
  /\ cursor' = p
  /\ visited' = {}
  /\ UNCHANGED vars

\* while pid.status == REDIRECTED: pid = cls.get(pid).new_pid
FollowRedirect ==
  /\ cursor # NoRecid
  /\ status[cursor] = "redirected"
  /\ redirect[cursor] # NoRecid
  /\ cursor' = redirect[cursor]
  /\ visited' = visited \cup {cursor}
  /\ UNCHANGED vars

\* The loop ends: the request answers with the PID it is at.
EndWalk ==
  /\ cursor # NoRecid
  /\ status[cursor] # "redirected"
  /\ cursor' = NoRecid
  /\ visited' = {}
  /\ UNCHANGED vars

WalkStep == FollowRedirect \/ EndWalk

WalkNext ==
  \/ Next /\ UNCHANGED <<cursor, visited>>
  \/ \E p \in Recid : StartWalk(p)
  \/ WalkStep

\* The thread of a request that has begun keeps running.
WalkSpec == WalkInit /\ [][WalkNext]_walkVars /\ WF_walkVars(WalkStep)

-----------------------------------------------------------------------------

\* The walk never comes back to a PID it has left, whatever commits between
\* its steps: it ends after at most one step per control number.
NeverRevisits == cursor # NoRecid => cursor \notin visited

\* The loop is never at a redirected PID without a redirection, where
\* InspireRedirect.get raises PidRedirectionMissing.
NeverMissing ==
  cursor # NoRecid /\ status[cursor] = "redirected" => redirect[cursor] # NoRecid

\* A set of PIDs that no redirection leaves.
Enclosed(S) == \A p \in S : redirect[p] \in S \cup {NoRecid}

\* A lookup of p comes to q, when nothing is merged meanwhile: it cannot be kept
\* from q by any set that no redirection leaves.
ComesTo(p, q) == \A S \in SUBSET (Recid \ {q}) : p \in S => ~Enclosed(S)

\* Where it ends.
Answer(p) == CHOOSE q \in Recid : redirect[q] = NoRecid /\ ComesTo(p, q)

\* What lookups see of the store is MergedRecords: a record that is merged, with
\* all that was merged into it before, is answered by the one it was merged
\* into, which exists and is of its type; nothing else changes an answer.
Merged == INSTANCE MergedRecords WITH answer <- [p \in Recid |-> Answer(p)]
IsMergedRecords == Merged!MergedSpec

\* Every walk that starts ends.
WalkEnds == cursor # NoRecid ~> cursor = NoRecid
=============================================================================
