------------------------- MODULE HepWorkflowsProofs -------------------------
(* Safety of HepWorkflows for every number of workflows of a paper, every  *)
(* mix of sources and submissions.                                         *)
EXTENDS HepWorkflows, FiniteSetTheorems, WellFoundedInduction, TLAPS

-----------------------------------------------------------------------------
(* Types                                                                   *)

\* run_next_if_necessary restarts a workflow only when it has found one.
WakesSome == \A w \in Wf : pc[w] = "wake" => found[w] # {}

\* A set of numbers has a least element.
LEMMA LeastNumber ==
  ASSUME NEW S \in SUBSET Nat, S # {}
  PROVE  \E n \in S : \A m \in S : n <= m
<1> DEFINE R == OpToRel(<, Nat)
<1>1. IsWellFoundedOn(R, Nat)
  BY NatLessThanWellFounded
<1>2. \A i, j \in Nat : i < j => <<i, j>> \in R
  BY DEF OpToRel
<1> HIDE DEF R
<1>3. PICK n \in S : \A m \in S : ~(<<m, n>> \in R)
  BY <1>1, WFMin
<1>4. ASSUME NEW m \in S PROVE n <= m
  <2>1. m \in Nat /\ n \in Nat
    OBVIOUS
  <2>2. ~(m < n)
    BY <1>2, <1>3, <2>1
  <2> QED BY <2>1, <2>2
<1> QED BY <1>4

\* The oldest of the matches is one of them.
LEMMA OldestMatch ==
  ASSUME created \in [Wf -> Nat], NEW matches \in SUBSET Wf, matches # {}
  PROVE  Oldest(matches) \in matches
<1> DEFINE ages == {created[v] : v \in matches}
<1>1. ages \in SUBSET Nat /\ ages # {}
  OBVIOUS
<1>2. PICK n \in ages : \A a \in ages : n <= a
  BY <1>1, LeastNumber
<1>3. PICK v \in matches : created[v] = n
  BY <1>2
<1>4. \A u \in matches : created[v] <= created[u]
  BY <1>2, <1>3
<1> QED BY <1>3, <1>4 DEF Oldest

\* How many workflows exist is a number.
LEMMA RowsCounted == Cardinality({v \in Wf : created[v] # 0}) \in Nat
<1>1. IsFiniteSet({v \in Wf : created[v] # 0})
  BY WfAssumption, FS_Subset
<1> QED BY <1>1, FS_CardinalityType

\* The steps of a run keep the types.
LEMMA RunTypes ==
  ASSUME TypeOK, WakesSome, NEW w \in Wf,
         \/ RunStep(w) \/ Await(w) \/ Complete(w) \/ Fail(w)
  PROVE  TypeOK' /\ WakesSome'
<1> USE DEF TypeOK, WakesSome, Pc, Task, TaskStart, Status, decisions
<1>1. CASE Restore(w) BY <1>1 DEF Restore
<1>2. CASE Flag(w) BY <1>2 DEF Flag
<1>3. CASE Match(w) BY <1>3 DEF Match, NotNewer, SameSource, Matching
<1>4. CASE Check(w) BY <1>4 DEF Check, Matching
<1>5. CASE Decide(w) BY <1>5 DEF Decide
<1>6. ASSUME NEW m \in Wf, Discard(w, m) PROVE TypeOK' /\ WakesSome'
  BY <1>6 DEF Discard, MarkSuccess
<1>7. ASSUME NEW m \in Wf, Block(w, m) PROVE TypeOK' /\ WakesSome'
  BY <1>7 DEF Block, MarkSuccess
<1>8. CASE RunNext(w) BY <1>8 DEF RunNext, Matching
<1>9. CASE Wake(w)
  <2>1. Oldest(found[w]) \in Wf
    <3>1. found[w] \in SUBSET Wf /\ found[w] # {}
      BY <1>9 DEF Wake
    <3> QED BY <3>1, OldestMatch
  <2>2. restart' \in [Wf \cup {Curator} -> Request]
    BY <1>9, <2>1 DEF Wake, AskRestart, Request
  <2> QED BY <1>9, <2>2 DEF Wake
<1>10. CASE Woken(w) BY <1>10 DEF Woken
<1>11. CASE Await(w) BY <1>11 DEF Await
<1>12. CASE Complete(w) BY <1>12 DEF Complete
<1>13. CASE Fail(w)
  <2>1. StartOf(pc[w]) \in TaskStart
    BY <1>13 DEF Fail, StartOf
  <2>2. restart' \in [Wf \cup {Curator} -> Request]
    BY <1>13 DEF Fail, Request, Answered
  <2> QED BY <1>13, <2>1, <2>2 DEF Fail
<1> QED
  BY <1>1, <1>2, <1>3, <1>4, <1>5, <1>6, <1>7, <1>8, <1>9, <1>10, <1>11, <1>12, <1>13
  DEF RunStep

\* What clearing the await task of a run leaves alone, and where the run may be.
LEMMA ClearedRun ==
  ASSUME TypeOK, NEW w \in Wf, ClearAwait(w)
  PROVE  /\ pc' = [pc EXCEPT ![w] = pc'[w]]
         /\ pc'[w] \in {"work", "next"} \/ pc'[w] = pc[w]
         /\ failedAt' = [failedAt EXCEPT ![w] = failedAt'[w]]
         /\ failedAt'[w] \in {"none", failedAt[w]}
         /\ pc'[w] = "failed" => failedAt'[w] = failedAt[w]
         /\ late \subseteq late' /\ late' \subseteq late \cup {w}
         /\ found' = found \/ (found' = [found EXCEPT ![w] = {}] /\ pc'[w] \in {"work", "next"})
         /\ restart' = restart \/ restart' = [restart EXCEPT ![w] = Answered]
         /\ w \in late' \/ pc[w] \in {"work", "halted"} \/ pc'[w] = pc[w]
              \/ (pc[w] = "failed" /\ failedAt[w] = "work")
<1>1. PICK task \in Cleared(w) :
        /\ pc' = [pc EXCEPT ![w] = task]
        /\ failedAt' = [failedAt EXCEPT ![w] = IF task = "failed" THEN @ ELSE "none"]
  BY DEF ClearAwait
<1>2. pc'[w] = task /\ failedAt'[w] = IF task = "failed" THEN failedAt[w] ELSE "none"
  BY <1>1 DEF TypeOK
<1>3. CASE Ended(w)
  <2>1. task \in {"work", "next"}
    BY <1>1, <1>3 DEF Cleared, Ended
  <2>2. late' = late \cup {w} /\ found' = [found EXCEPT ![w] = {}]
    BY <1>3 DEF ClearAwait
  <2>3. restart' = restart \/ restart' = [restart EXCEPT ![w] = Answered]
    BY <1>3 DEF ClearAwait, TypeOK
  <2> QED BY <1>1, <1>2, <2>1, <2>2, <2>3
<1>4. CASE ~Ended(w)
  <2>1. late' = late /\ found' = found /\ restart' = restart
    BY <1>4 DEF ClearAwait
  <2>2. \/ pc[w] \in {"work", "halted"} /\ task = "work"
        \/ pc[w] = "failed" /\ failedAt[w] = "work" /\ task \in {"work", "failed"}
        \/ task = pc[w]
    BY <1>1, <1>4 DEF Cleared, Ended
  <2> QED BY <1>1, <1>2, <2>1, <2>2
<1> QED BY <1>3, <1>4

\* Decisions keep the types.
LEMMA DecisionTypes ==
  ASSUME TypeOK, WakesSome, NEW w \in Wf, Decision(w)
  PROVE  TypeOK' /\ WakesSome'
<1> USE DEF TypeOK, WakesSome, Status
<1>1. ASSUME ClearAwait(w)
      PROVE  /\ pc' \in [Wf -> Pc] /\ failedAt' \in [Wf -> TaskStart \cup {"none"}]
             /\ found' \in [Wf -> SUBSET Wf] /\ late' \subseteq Wf
             /\ restart' \in [Wf \cup {Curator} -> Request]
             /\ WakesSome'
  <2> USE <1>1, ClearedRun
  <2>1. pc' \in [Wf -> Pc]
    BY DEF Pc, Task, TaskStart
  <2>2. failedAt' \in [Wf -> TaskStart \cup {"none"}]
    OBVIOUS
  <2>3. found' \in [Wf -> SUBSET Wf] /\ late' \subseteq Wf
    OBVIOUS
  <2>4. restart' \in [Wf \cup {Curator} -> Request]
    BY DEF Request, Answered
  <2>5. WakesSome'
    OBVIOUS
  <2> QED BY <2>1, <2>2, <2>3, <2>4, <2>5
<1>2. CASE ResolveClear(w) BY <1>1, <1>2 DEF ResolveClear
<1>3. CASE ResolveSave(w) BY <1>3 DEF ResolveSave
<1>4. CASE BatchResolve(w) BY <1>4 DEF BatchResolve
<1>5. CASE BatchClear(w) BY <1>1, <1>5 DEF BatchClear
<1>6. CASE BatchFail(w) BY <1>6 DEF BatchFail
<1> QED BY <1>2, <1>3, <1>4, <1>5, <1>6 DEF Decision

\* Every step keeps the types.
LEMMA TypeStep ==
  ASSUME TypeOK, WakesSome, [Next]_vars PROVE TypeOK' /\ WakesSome'
<1> USE DEF TypeOK, WakesSome, Pc, Task, TaskStart, Status, decisions
<1>1. ASSUME NEW r \in Wf \cup {Curator}, RestartStep(r)
      PROVE  TypeOK' /\ WakesSome'
  <2> USE DEF Request, Answered
  <2>1. CASE ClearRun(r)
    <3>1. PICK w \in Wf \cup {NoWf} : w = restart[r].on
      OBVIOUS
    <3>2. /\ pc' = [pc EXCEPT ![w] = "restore"]
          /\ found' = [found EXCEPT ![w] = {}]
          /\ failedAt' = [failedAt EXCEPT ![w] = "none"]
          /\ \/ status' = [status EXCEPT ![w] = "processing"]
             \/ status' = status
          /\ late' = late \ {w}
          /\ UNCHANGED <<created, discarded, indexed, inbox, saving>>
      BY <2>1, <3>1 DEF ClearRun
    <3>3. restart' \in [Wf \cup {Curator} -> Request]
      BY <2>1, <3>1 DEF ClearRun
    <3>4. status' \in [Wf -> Status]
      BY <3>2
    <3>5. pc' \in [Wf -> Pc] /\ found' \in [Wf -> SUBSET Wf]
      BY <3>2
    <3>6. failedAt' \in [Wf -> TaskStart \cup {"none"}]
      BY <3>2
    <3>7. WakesSome'
      BY <3>2
    <3> QED BY <3>2, <3>3, <3>4, <3>5, <3>6, <3>7
  <2>2. CASE LateSave(r) BY <2>2 DEF LateSave
  <2>3. CASE RefuseRestart(r) BY <2>3 DEF RefuseRestart
  <2> QED BY <1>1, <2>1, <2>2, <2>3 DEF RestartStep
<1>2. ASSUME NEW w \in Wf,
             \/ RunStep(w) \/ Await(w) \/ Complete(w) \/ Fail(w)
      PROVE  TypeOK' /\ WakesSome'
  BY <1>2, RunTypes
<1>3. ASSUME NEW w \in Wf, Create(w) PROVE TypeOK' /\ WakesSome'
  BY <1>3, RowsCounted DEF Create
<1>4. ASSUME NEW w \in Wf, Trigger(w) PROVE TypeOK' /\ WakesSome'
  BY <1>4 DEF Trigger
<1>5. ASSUME NEW w \in Wf, Refresh(w) PROVE TypeOK' /\ WakesSome'
  BY <1>5 DEF Refresh
<1>6. ASSUME NEW w \in Wf, Decision(w) PROVE TypeOK' /\ WakesSome'
  BY <1>6, DecisionTypes
<1>7. ASSUME NEW w \in Wf, CuratorRestart(w) PROVE TypeOK' /\ WakesSome'
  BY <1>7 DEF CuratorRestart, AskRestart, Request
<1>8. ASSUME NEW w \in Wf, Retry(w) PROVE TypeOK' /\ WakesSome'
  BY <1>8 DEF Retry
<1>9. CASE UNCHANGED vars BY <1>9 DEF vars
<1> QED BY <1>1, <1>2, <1>3, <1>4, <1>5, <1>6, <1>7, <1>8, <1>9 DEF Next

\* The types hold at the start.
LEMMA TypeInit == Init => TypeOK /\ WakesSome
BY DEF Init, TypeOK, WakesSome, Pc, Task, TaskStart, Status, Request, Answered

\* The state keeps its types, through every search, restart and failure.
THEOREM HepTypeCorrect == Spec => []TypeOK
<1>1. TypeOK /\ WakesSome /\ [Next]_vars => (TypeOK /\ WakesSome)'
  BY TypeStep
<1> QED BY <1>1, TypeInit, PTL DEF Spec

-----------------------------------------------------------------------------
(* One workflow at a time                                                  *)

\* The run of w was admitted, or has found that nothing blocks it and is about to
\* publish that it runs.
Owns(w) == Admitted(w) \/ (pc[w] = "decide" /\ found[w] = {})

\* A run that searches, or is past its search, shows in the searches of others.
Visible ==
  \A w \in Wf : Owns(w) \/ pc[w] \in {"match", "discard", "check", "decide"}
                => status[w] \in RunningStatuses

OneOwner == \A w, v \in Wf : Owns(w) /\ Owns(v) => w = v

\* A restart saves its status before the run it has cleared begins.
NoLateSave == \A r \in Wf \cup {Curator} : restart[r].at # "cleared"

Admission == Visible /\ OneOwner /\ NoLateSave

\* Whoever gets to work had found before that nothing blocks it.
NoTakeover == \A v \in Wf : Admitted(v)' => Owns(v)

\* The published status comes before the search (Flag, then Match and Check),
\* so of two runs that search, the later one finds the earlier one.
LEMMA CheckAdmits ==
  ASSUME "index_lag" \notin Faults, TypeOK, Admission, NEW w \in Wf, Check(w)
  PROVE  Admission' /\ NoTakeover
<1> USE DEF TypeOK, Admission, decisions
<1>1. Visible'
  BY DEF Check, Visible, Owns, Admitted, Holds
<1>2. NoLateSave'
  BY DEF Check, NoLateSave
<1>3. ASSUME NEW v \in Wf \ {w} PROVE Owns(v)' <=> Owns(v)
  BY <1>3 DEF Check, Owns, Admitted, Holds
<1>4. ASSUME NEW v \in Wf \ {w}, Owns(w)', Owns(v) PROVE FALSE
  <2>1. found'[w] = {}
    BY <1>4 DEF Check, Owns, Admitted, Holds
  <2>2. status[v] \notin RunningStatuses
    BY <2>1 DEF Check, Matching, Seen
  <2> QED BY <1>4, <2>2 DEF Visible
<1>5. NoTakeover
  BY DEF Check, NoTakeover, Owns, Admitted, Holds
<1> QED BY <1>1, <1>2, <1>3, <1>4, <1>5 DEF OneOwner

\* Every other step leaves runs their places or ends them.
LEMMA NoNewOwner ==
  ASSUME OneOwner, \A v \in Wf : Owns(v)' => Owns(v)
  PROVE  OneOwner' /\ NoTakeover
BY DEF OneOwner, NoTakeover, Owns

\* Steps of the run: a search that misses nothing admits one workflow at a time.
LEMMA RunAdmission ==
  ASSUME "index_lag" \notin Faults, TypeOK, Admission, NEW w \in Wf,
         \/ RunStep(w) \/ Await(w) \/ Complete(w) \/ Fail(w)
  PROVE  Admission' /\ NoTakeover
<1> USE DEF TypeOK, Admission, Visible, Owns, Admitted, Holds, NoLateSave, RunningStatuses,
            decisions
<1>1. CASE Restore(w)
  <2>1. Visible' /\ NoLateSave' /\ \A v \in Wf : Owns(v)' => Owns(v)
    BY <1>1 DEF Restore
  <2> QED BY <2>1, NoNewOwner
<1>2. CASE Flag(w)
  <2>1. Visible' /\ NoLateSave' /\ \A v \in Wf : Owns(v)' => Owns(v)
    BY <1>2 DEF Flag
  <2> QED BY <2>1, NoNewOwner
<1>3. CASE Match(w)
  <2>1. Visible' /\ NoLateSave' /\ \A v \in Wf : Owns(v)' => Owns(v)
    BY <1>3 DEF Match
  <2> QED BY <2>1, NoNewOwner
<1>4. CASE Check(w)
  BY <1>4, CheckAdmits
<1>5. CASE Decide(w)
  <2>1. Visible' /\ NoLateSave' /\ \A v \in Wf : Owns(v)' => Owns(v)
    BY <1>5 DEF Decide
  <2> QED BY <2>1, NoNewOwner
<1>6. ASSUME NEW m \in Wf, Discard(w, m) PROVE Admission' /\ NoTakeover
  <2>1. Visible' /\ NoLateSave' /\ \A v \in Wf : Owns(v)' => Owns(v)
    BY <1>6 DEF Discard, MarkSuccess
  <2> QED BY <2>1, NoNewOwner
<1>7. ASSUME NEW m \in Wf, Block(w, m) PROVE Admission' /\ NoTakeover
  <2>1. Visible' /\ NoLateSave' /\ \A v \in Wf : Owns(v)' => Owns(v)
    BY <1>7 DEF Block, MarkSuccess
  <2> QED BY <2>1, NoNewOwner
<1>8. CASE RunNext(w)
  <2>1. Visible' /\ NoLateSave' /\ \A v \in Wf : Owns(v)' => Owns(v)
    BY <1>8 DEF RunNext
  <2> QED BY <2>1, NoNewOwner
<1>9. CASE Wake(w)
  <2>1. Visible' /\ NoLateSave' /\ \A v \in Wf : Owns(v)' => Owns(v)
    BY <1>9 DEF Wake, AskRestart
  <2> QED BY <2>1, NoNewOwner
<1>10. CASE Woken(w)
  <2>1. Visible' /\ NoLateSave' /\ \A v \in Wf : Owns(v)' => Owns(v)
    BY <1>10 DEF Woken
  <2> QED BY <2>1, NoNewOwner
<1>11. CASE Await(w)
  <2>1. Visible' /\ NoLateSave' /\ \A v \in Wf : Owns(v)' => Owns(v)
    BY <1>11 DEF Await
  <2> QED BY <2>1, NoNewOwner
<1>12. CASE Complete(w)
  <2>1. Visible' /\ NoLateSave' /\ \A v \in Wf : Owns(v)' => Owns(v)
    BY <1>12 DEF Complete
  <2> QED BY <2>1, NoNewOwner
<1>13. CASE Fail(w)
  <2>1. StartOf(pc[w]) = "work" <=> pc[w] = "work"
    BY <1>13 DEF Fail, StartOf, Task, TaskStart
  <2>2. Visible' /\ \A v \in Wf : Owns(v)' => Owns(v)
    BY <1>13, <2>1 DEF Fail, Task, TaskStart
  <2>3. NoLateSave'
    BY <1>13 DEF Fail, Answered
  <2> QED BY <2>2, <2>3, NoNewOwner
<1> QED
  BY <1>1, <1>2, <1>3, <1>4, <1>5, <1>6, <1>7, <1>8, <1>9, <1>10, <1>11, <1>12, <1>13
  DEF RunStep

\* A decision shows the workflow as running, or in error, and whom it sets going
\* again was admitted, or is known to be late.
LEMMA DecisionAdmission ==
  ASSUME TypeOK, Admission, NEW w \in Wf, Decision(w)
  PROVE  Admission' /\ NoTakeover
<1> USE DEF TypeOK, Admission, Visible, Owns, Admitted, Holds, NoLateSave, RunningStatuses
<1>1. ASSUME ClearAwait(w), status' = status PROVE Admission' /\ NoTakeover
  <2>1. \A v \in Wf : Owns(v)' => Owns(v)
    BY <1>1, ClearedRun
  <2>2. \A v \in Wf : pc'[v] \in {"match", "discard", "check", "decide"} => pc'[v] = pc[v]
    BY <1>1, ClearedRun
  <2>3. NoLateSave'
    BY <1>1, ClearedRun DEF Answered
  <2> HIDE DEF Owns
  <2>4. Visible'
    BY <1>1, <2>1, <2>2
  <2> QED BY <2>1, <2>3, <2>4, NoNewOwner
<1>2. ASSUME pc' = pc, failedAt' = failedAt, found' = found, restart' = restart, late' = late,
             \E st \in {"running", "error", status[w]} : status' = [status EXCEPT ![w] = st]
      PROVE  Admission' /\ NoTakeover
  <2>1. Visible' /\ NoLateSave' /\ \A v \in Wf : Owns(v)' => Owns(v)
    BY <1>2
  <2> QED BY <2>1, NoNewOwner
<1>3. CASE ResolveClear(w) BY <1>1, <1>3 DEF ResolveClear
<1>4. CASE ResolveSave(w) BY <1>2, <1>4 DEF ResolveSave
<1>5. CASE BatchResolve(w) BY <1>2, <1>5 DEF BatchResolve
<1>6. CASE BatchClear(w) BY <1>1, <1>6 DEF BatchClear
<1>7. CASE BatchFail(w) BY <1>2, <1>7 DEF BatchFail
<1> QED BY <1>3, <1>4, <1>5, <1>6, <1>7 DEF Decision

\* Every step keeps one owner, and none replaces one owner by another.
LEMMA AdmissionStep ==
  ASSUME "index_lag" \notin Faults, "late_save" \notin Faults,
         TypeOK, Admission, [Next]_vars
  PROVE  Admission' /\ NoTakeover
<1> USE DEF TypeOK, Admission, Visible, Owns, Admitted, Holds, NoLateSave, RunningStatuses,
            decisions
<1>1. ASSUME NEW r \in Wf \cup {Curator}, RestartStep(r) PROVE Admission' /\ NoTakeover
  <2>1. CASE ClearRun(r)
    <3>1. Visible' /\ NoLateSave' /\ \A v \in Wf : Owns(v)' => Owns(v)
      BY <2>1 DEF ClearRun, Answered
    <3> QED BY <3>1, NoNewOwner
  <2>2. ~LateSave(r)
    BY DEF LateSave
  <2>3. CASE RefuseRestart(r)
    <3>1. Visible' /\ NoLateSave' /\ \A v \in Wf : Owns(v)' => Owns(v)
      BY <2>3 DEF RefuseRestart, Answered
    <3> QED BY <3>1, NoNewOwner
  <2> QED BY <1>1, <2>1, <2>2, <2>3 DEF RestartStep
<1>2. ASSUME NEW w \in Wf,
             \/ RunStep(w) \/ Await(w) \/ Complete(w) \/ Fail(w)
      PROVE  Admission' /\ NoTakeover
  BY <1>2, RunAdmission
<1>3. ASSUME NEW w \in Wf, Create(w) PROVE Admission' /\ NoTakeover
  <2>1. Visible' /\ NoLateSave' /\ \A v \in Wf : Owns(v)' => Owns(v)
    BY <1>3 DEF Create
  <2> QED BY <2>1, NoNewOwner
<1>4. ASSUME NEW w \in Wf, Trigger(w) PROVE Admission' /\ NoTakeover
  <2>1. Visible' /\ NoLateSave' /\ \A v \in Wf : Owns(v)' => Owns(v)
    BY <1>4 DEF Trigger
  <2> QED BY <2>1, NoNewOwner
<1>5. ASSUME NEW w \in Wf, Refresh(w) PROVE Admission' /\ NoTakeover
  BY <1>5 DEF Refresh
<1>6. ASSUME NEW w \in Wf, Decision(w) PROVE Admission' /\ NoTakeover
  BY <1>6, DecisionAdmission
<1>7. ASSUME NEW w \in Wf, CuratorRestart(w) PROVE Admission' /\ NoTakeover
  <2>1. Visible' /\ NoLateSave' /\ \A v \in Wf : Owns(v)' => Owns(v)
    BY <1>7 DEF CuratorRestart, AskRestart
  <2> QED BY <2>1, NoNewOwner
<1>8. ASSUME NEW w \in Wf, Retry(w) PROVE Admission' /\ NoTakeover
  <2>1. Visible' /\ NoLateSave' /\ \A v \in Wf : Owns(v)' => Owns(v)
    BY <1>8 DEF Retry, TaskStart
  <2> QED BY <2>1, NoNewOwner
<1>9. CASE UNCHANGED vars
  BY <1>9 DEF vars, OneOwner, NoTakeover
<1> QED BY <1>1, <1>2, <1>3, <1>4, <1>5, <1>6, <1>7, <1>8, <1>9 DEF Next

\* When searches see the latest statuses and a restart saves its status before
\* the run begins, at most one workflow of a paper is past its checks.
THEOREM OneAdmitted ==
  ASSUME "index_lag" \notin Faults, "late_save" \notin Faults
  PROVE  Spec => []OneAtATime
<1> DEFINE Inv == TypeOK /\ WakesSome /\ Admission
<1>1. Init => Inv
  <2>1. Init => Admission
    BY DEF Init, Admission, Visible, OneOwner, Owns, Admitted, Holds, NoLateSave, Answered
  <2> QED BY <2>1, TypeInit
<1>2. Inv /\ [Next]_vars => Inv'
  BY TypeStep, AdmissionStep
<1>3. Inv => OneAtATime
  BY DEF Admission, OneOwner, Owns, OneAtATime
<1> HIDE DEF Inv
<1> QED BY <1>1, <1>2, <1>3, PTL DEF Spec

\* A step between two states with one owner takes the lock, gives it back or
\* leaves it alone.
LEMMA LockStep ==
  ASSUME TypeOK, Admission, Admission', NoTakeover
  PROVE  [Lock!LockNext]_AtWork
<1> DEFINE Worker(h) == h \in Wf /\ Admitted(h)
<1>1. \A h : Worker(h) => AtWork = h
  BY DEF AtWork, Admission, OneOwner, Owns
<1>2. \A h : Worker(h)' => AtWork' = h
  BY DEF AtWork, Admission, OneOwner, Owns
<1>3. (\A h : ~Worker(h)) => AtWork = NoWf
  BY DEF AtWork
<1>4. (\A h : ~Worker(h)') => AtWork' = NoWf
  BY DEF AtWork
<1>5. CASE \E h : Worker(h)
  <2>1. PICK h : Worker(h)
    BY <1>5
  <2>2. \A v : Worker(v)' => v = h
    BY <2>1 DEF NoTakeover, Admission, OneOwner, Owns
  <2>3. AtWork = h /\ AtWork # NoWf
    BY <1>1, <2>1, WfAssumption
  <2>4. AtWork' = h \/ AtWork' = NoWf
    BY <1>2, <1>4, <2>2
  <2> QED BY <2>3, <2>4 DEF Lock!LockNext, Lock!Release
<1>6. CASE \A h : ~Worker(h)
  <2>1. AtWork' = NoWf \/ AtWork' \in Wf
    BY <1>2, <1>4
  <2> QED BY <1>3, <1>6, <2>1 DEF Lock!LockNext, Lock!Acquire
<1> QED BY <1>5, <1>6

\* The workflows of a paper implement the lock, under the same assumptions.
THEOREM ImplementsLock ==
  ASSUME "index_lag" \notin Faults, "late_save" \notin Faults
  PROVE  Spec => IsPaperLock
<1> DEFINE Inv == TypeOK /\ WakesSome /\ Admission
<1>1. Init => Inv
  <2>1. Init => Admission
    BY DEF Init, Admission, Visible, OneOwner, Owns, Admitted, Holds, NoLateSave, Answered
  <2> QED BY <2>1, TypeInit
<1>2. Inv /\ [Next]_vars => Inv' /\ [Lock!LockNext]_AtWork
  BY TypeStep, AdmissionStep, LockStep
<1>3. Init => Lock!LockInit
  BY DEF Init, Lock!LockInit, AtWork, Admitted, Holds
<1> HIDE DEF Inv
<1> QED BY <1>1, <1>2, <1>3, PTL DEF Spec, IsPaperLock, Lock!LockSpec

-----------------------------------------------------------------------------
(* What the backoffice shows                                               *)

LEMMA ShownStep ==
  ASSUME "late_save" \notin Faults, TypeOK, ShownAsStopped, NoLateSave,
         [Next]_vars
  PROVE  ShownAsStopped' /\ NoLateSave'
<1> USE DEF TypeOK, ShownAsStopped, NoLateSave, decisions
<1>1. ASSUME NEW r \in Wf \cup {Curator}, RestartStep(r)
      PROVE  ShownAsStopped' /\ NoLateSave'
  <2>1. CASE ClearRun(r) BY <2>1 DEF ClearRun, Answered
  <2>2. ~LateSave(r) BY DEF LateSave
  <2>3. CASE RefuseRestart(r) BY <2>3 DEF RefuseRestart, Answered
  <2> QED BY <1>1, <2>1, <2>2, <2>3 DEF RestartStep
<1>2. ASSUME NEW w \in Wf, RunStep(w) PROVE ShownAsStopped' /\ NoLateSave'
  <2>1. CASE Restore(w) BY <2>1 DEF Restore
  <2>2. CASE Flag(w) BY <2>2 DEF Flag
  <2>3. CASE Match(w) BY <2>3 DEF Match
  <2>4. CASE Check(w) BY <2>4 DEF Check
  <2>5. CASE Decide(w) BY <2>5 DEF Decide
  <2>6. ASSUME NEW m \in Wf, Discard(w, m)
        PROVE  ShownAsStopped' /\ NoLateSave'
    BY <2>6 DEF Discard, MarkSuccess
  <2>7. ASSUME NEW m \in Wf, Block(w, m)
        PROVE  ShownAsStopped' /\ NoLateSave'
    BY <2>7 DEF Block, MarkSuccess
  <2>8. CASE RunNext(w) BY <2>8 DEF RunNext
  <2>9. CASE Wake(w) BY <2>9 DEF Wake, AskRestart
  <2>10. CASE Woken(w) BY <2>10 DEF Woken
  <2>11. CASE Fail(w) BY <2>11 DEF Fail, StartOf, Answered, Task, TaskStart
  <2> QED
    BY <1>2, <2>1, <2>2, <2>3, <2>4, <2>5, <2>6, <2>7, <2>8, <2>9, <2>10, <2>11
    DEF RunStep
<1>3. ASSUME NEW w \in Wf, Await(w) PROVE ShownAsStopped' /\ NoLateSave'
  BY <1>3 DEF Await
<1>4. ASSUME NEW w \in Wf, Complete(w) PROVE ShownAsStopped' /\ NoLateSave'
  BY <1>4 DEF Complete
<1>5. ASSUME NEW w \in Wf, Fail(w) PROVE ShownAsStopped' /\ NoLateSave'
  BY <1>5 DEF Fail, StartOf, Answered, Task, TaskStart
<1>6. ASSUME NEW w \in Wf, Create(w) PROVE ShownAsStopped' /\ NoLateSave'
  BY <1>6 DEF Create
<1>7. ASSUME NEW w \in Wf, Trigger(w) PROVE ShownAsStopped' /\ NoLateSave'
  BY <1>7 DEF Trigger
<1>8. ASSUME NEW w \in Wf, Refresh(w) PROVE ShownAsStopped' /\ NoLateSave'
  BY <1>8 DEF Refresh
<1>9. ASSUME NEW w \in Wf, Decision(w) PROVE ShownAsStopped' /\ NoLateSave'
  <2>1. ASSUME ClearAwait(w), status' = status PROVE ShownAsStopped' /\ NoLateSave'
    <3>1. ShownAsStopped'
      BY <2>1, ClearedRun
    <3>2. NoLateSave'
      BY <2>1, ClearedRun DEF Answered
    <3> QED BY <3>1, <3>2
  <2>2. CASE ResolveClear(w) BY <2>1, <2>2 DEF ResolveClear
  <2>3. CASE ResolveSave(w) BY <2>3 DEF ResolveSave
  <2>4. CASE BatchResolve(w) BY <2>4 DEF BatchResolve
  <2>5. CASE BatchClear(w) BY <2>1, <2>5 DEF BatchClear
  <2>6. CASE BatchFail(w) BY <2>6 DEF BatchFail
  <2> QED BY <1>9, <2>2, <2>3, <2>4, <2>5, <2>6 DEF Decision
<1>10. ASSUME NEW w \in Wf, CuratorRestart(w)
       PROVE  ShownAsStopped' /\ NoLateSave'
  BY <1>10 DEF CuratorRestart, AskRestart
<1>11. ASSUME NEW w \in Wf, Retry(w) PROVE ShownAsStopped' /\ NoLateSave'
  BY <1>11 DEF Retry
<1>12. CASE UNCHANGED vars BY <1>12 DEF vars
<1> QED
  BY <1>1, <1>2, <1>3, <1>4, <1>5, <1>6, <1>7, <1>8, <1>9, <1>10, <1>11, <1>12
  DEF Next

\* When a restart saves its status before the run begins, a workflow shown as
\* blocked or completed has no run that still works on the record.
THEOREM ShownIsTrue ==
  ASSUME "late_save" \notin Faults
  PROVE  Spec => []ShownAsStopped
<1> DEFINE Inv == TypeOK /\ WakesSome /\ ShownAsStopped /\ NoLateSave
<1>1. Init => Inv
  <2>1. Init => ShownAsStopped /\ NoLateSave
    BY DEF Init, ShownAsStopped, NoLateSave, Answered
  <2> QED BY <2>1, TypeInit
<1>2. Inv /\ [Next]_vars => Inv'
  BY TypeStep, ShownStep
<1>3. Inv => ShownAsStopped
  OBVIOUS
<1> HIDE DEF Inv
<1> QED BY <1>1, <1>2, <1>3, PTL DEF Spec

-----------------------------------------------------------------------------
(* Discards, with everything that may go wrong around the code: harvests   *)

\* The rows of the backoffice.
Rows == {v \in Wf : created[v] # 0}

\* Only what has a row is searched, found and restarted.
RowsOnly ==
  /\ \A v \in Wf : v \in Rows <=> status[v] # "none"
  /\ \A v \in Wf \ Rows : indexed[v] = "none" /\ pc[v] = "none"
  /\ \A w \in Wf : found[w] \subseteq Rows
  /\ discarded \subseteq Rows
  /\ \A r \in Wf \cup {Curator} : restart[r].on \in Rows \cup {NoWf}
  /\ inbox \subseteq Rows /\ saving \subseteq Rows

AgesDistinct ==
  /\ \A v \in Wf : created[v] <= Cardinality(Rows)
  /\ \A v, u \in Rows : created[v] = created[u] => v = u

\* What a run is about to discard is older than the run's own workflow.
DiscardsOlder ==
  \A w \in Wf : pc[w] = "discard" =>
    \A m \in found[w] : SourceOf[m] = SourceOf[w] /\ created[m] < created[w]

Ages == RowsOnly /\ AgesDistinct /\ DiscardsOlder /\ NewestIsKept

\* A new row is younger than all others.
LEMMA CreateAges ==
  ASSUME TypeOK, Ages, NEW w \in Wf, Create(w)
  PROVE  Ages'
<1> DEFINE n == Cardinality(Rows)
<1>1. IsFiniteSet(Rows) /\ n \in Nat
  <2>1. IsFiniteSet(Rows)
    BY WfAssumption, FS_Subset DEF Rows
  <2> QED BY <2>1, FS_CardinalityType
<1>2. created' = [created EXCEPT ![w] = 1 + n]
  BY DEF Create, Rows
<1> HIDE DEF n
<1>3. w \notin Rows
  BY DEF Create, Ages, RowsOnly
<1>4. Rows' = Rows \cup {w}
  BY <1>1, <1>2 DEF Rows, TypeOK
<1>5. Cardinality(Rows') = n + 1
  BY <1>1, <1>3, <1>4, FS_AddElement DEF n
<1>6. \A v \in Wf : created[v] \in Nat /\ created[v] <= n
  BY DEF Ages, AgesDistinct, TypeOK, n
<1>7. RowsOnly'
  BY <1>4 DEF Create, Ages, RowsOnly, TypeOK, decisions
<1>8. AgesDistinct'
  <2>1. \A v \in Wf : created'[v] <= n + 1
    BY <1>1, <1>2, <1>6
  <2>2. ASSUME NEW v \in Rows', NEW u \in Rows', created'[v] = created'[u]
        PROVE  v = u
    <3>1. \A m \in Rows : created'[m] = created[m] /\ created[m] <= n
      BY <1>2, <1>3, <1>6 DEF Rows, TypeOK
    <3>2. created'[w] = n + 1
      BY <1>1, <1>2 DEF TypeOK
    <3>3. \A m \in Rows : created[m] # n + 1
      BY <1>1, <1>6, <3>1 DEF Rows
    <3>4. CASE v \in Rows /\ u \in Rows
      BY <2>2, <3>1, <3>4 DEF Ages, AgesDistinct
    <3> QED BY <1>4, <2>2, <3>1, <3>2, <3>3, <3>4
  <2> QED BY <1>5, <2>1, <2>2 DEF AgesDistinct
<1>9. \A v \in Rows : v # w /\ created'[v] = created[v]
  BY <1>2, <1>3 DEF Rows, TypeOK
<1>10. DiscardsOlder'
  <2> SUFFICES ASSUME NEW v \in Wf, pc'[v] = "discard", NEW m \in found'[v]
               PROVE  SourceOf[m] = SourceOf[v] /\ created'[m] < created'[v]
    BY DEF DiscardsOlder
  <2>1. pc[v] = "discard" /\ found'[v] = found[v] /\ v # w
    BY DEF Create, TypeOK
  <2>2. m \in Rows /\ v \in Rows
    BY <2>1 DEF Ages, RowsOnly
  <2> QED BY <1>9, <2>1, <2>2 DEF Ages, DiscardsOlder
<1>11. NewestIsKept'
  <2> SUFFICES ASSUME NEW v \in discarded
               PROVE  \E u \in Wf : SourceOf[u] = SourceOf[v] /\ created'[u] > created'[v]
    BY DEF NewestIsKept, Create
  <2>1. PICK u \in Wf : SourceOf[u] = SourceOf[v] /\ created[u] > created[v]
    BY DEF Ages, NewestIsKept
  <2>2. v \in Rows /\ created[u] \in Nat /\ created[v] \in Nat
    BY DEF Ages, RowsOnly, TypeOK
  <2>3. u \in Rows
    BY <2>1, <2>2 DEF Rows
  <2> QED BY <1>9, <2>1, <2>2, <2>3
<1> QED BY <1>7, <1>8, <1>10, <1>11 DEF Ages

\* Every other step leaves the rows as they are.
LEMMA SameRows ==
  ASSUME Ages, created' = created PROVE Rows' = Rows /\ AgesDistinct'
<1>1. Rows' = Rows
  BY DEF Rows
<1> QED BY <1>1 DEF Ages, AgesDistinct

\* discard_older_wfs_w_same_source finds what is older than itself, or a
\* newer one because of which it discards itself.
LEMMA MatchAges ==
  ASSUME TypeOK, Ages, NEW w \in Wf, Match(w)
  PROVE  Ages'
<1> DEFINE matches == Matching(w, RunningStatuses \cup {"blocked"})
           same    == SameSource(w, matches)
           older   == NotNewer(w, same)
<1>1. matches \subseteq Rows /\ w \notin matches
  BY DEF Matching, Seen, RunningStatuses, Ages, RowsOnly
<1>2. w \in Rows /\ created[w] \in Nat /\ \A m \in Wf : created[m] \in Nat
  BY DEF Match, Ages, RowsOnly, TypeOK
<1>3. \A m \in older : m \in Rows /\ SourceOf[m] = SourceOf[w] /\ created[m] < created[w]
  <2> SUFFICES ASSUME NEW m \in older
               PROVE  m \in Rows /\ SourceOf[m] = SourceOf[w] /\ created[m] < created[w]
    OBVIOUS
  <2>1. m \in matches /\ SourceOf[m] = SourceOf[w] /\ created[w] >= created[m]
    BY DEF NotNewer, SameSource
  <2>2. m \in Rows /\ m # w /\ m \in Wf
    BY <1>1, <2>1 DEF Rows
  <2>3. created[m] # created[w]
    BY <1>2, <2>2 DEF Ages, AgesDistinct
  <2>4. created[m] \in Nat
    BY <1>2, <2>2
  <2>5. created[m] < created[w]
    BY <1>2, <2>1, <2>3, <2>4
  <2> QED BY <2>1, <2>2, <2>5
<1>4. \A m \in same \ older : m \in Wf /\ SourceOf[m] = SourceOf[w] /\ created[m] > created[w]
  BY <1>1, <1>2 DEF NotNewer, SameSource, Rows
<1>5. created' = created /\ Rows' = Rows /\ AgesDistinct'
  BY SameRows DEF Match
<1> HIDE DEF matches, same, older
<1>6. \/ pc' = [pc EXCEPT ![w] = "discard"] /\ found' = [found EXCEPT ![w] = older]
         /\ status' = status /\ discarded' = discarded
      \/ same # {} /\ older = {} /\ pc' = [pc EXCEPT ![w] = "next"] /\ found' = found
         /\ status' = [status EXCEPT ![w] = "completed"] /\ discarded' = discarded \cup {w}
      \/ pc' = [pc EXCEPT ![w] = "check"] /\ found' = found
         /\ status' = status /\ discarded' = discarded
  BY DEF Match, matches, same, older
<1>7. UNCHANGED <<indexed, restart, inbox, saving>>
  BY DEF Match, decisions
<1>8. RowsOnly'
  BY <1>2, <1>3, <1>5, <1>6, <1>7 DEF Ages, RowsOnly, TypeOK
<1>9. DiscardsOlder'
  BY <1>3, <1>5, <1>6 DEF Ages, DiscardsOlder, TypeOK
<1>10. NewestIsKept'
  BY <1>4, <1>5, <1>6 DEF Ages, NewestIsKept
<1> QED BY <1>5, <1>8, <1>9, <1>10 DEF Ages

\* Steps of the run: what it found is its own and what it discards is older.
LEMMA RunAges ==
  ASSUME TypeOK, WakesSome, Ages, NEW w \in Wf,
         \/ RunStep(w) \/ Await(w) \/ Complete(w) \/ Fail(w)
  PROVE  Ages'
<1> USE DEF TypeOK, RowsOnly, DiscardsOlder, NewestIsKept, decisions
<1>1. CASE Restore(w) BY <1>1, SameRows DEF Restore, Ages
<1>2. CASE Flag(w) BY <1>2, SameRows DEF Flag, Ages
<1>3. CASE Match(w) BY <1>3, MatchAges
<1>4. CASE Check(w)
  <2>1. Matching(w, RunningStatuses) \subseteq Rows
    BY DEF Matching, Seen, RunningStatuses, Ages
  <2> QED BY <1>4, <2>1, SameRows DEF Check, Ages
<1>5. CASE Decide(w) BY <1>5, SameRows DEF Decide, Ages
<1>6. ASSUME NEW m \in Wf, Discard(w, m) PROVE Ages'
  <2>1. m \in Rows /\ SourceOf[m] = SourceOf[w] /\ created[w] > created[m]
    BY <1>6 DEF Discard, Ages
  <2>2. RowsOnly' /\ DiscardsOlder'
    BY <1>6, <2>1, SameRows DEF Discard, MarkSuccess, Ages
  <2>3. NewestIsKept'
    BY <1>6, <2>1 DEF Discard, Ages
  <2> QED BY <1>6, <2>2, <2>3, SameRows DEF Discard, Ages
<1>7. ASSUME NEW m \in Wf, Block(w, m) PROVE Ages'
  <2>1. m \in Rows
    BY <1>7 DEF Block, Ages
  <2> QED BY <1>7, <2>1, SameRows DEF Block, MarkSuccess, Ages
<1>8. CASE RunNext(w)
  <2>1. Matching(w, NextStatuses) \subseteq Rows
    BY DEF Matching, Seen, NextStatuses, RunningStatuses, Ages
  <2> QED BY <1>8, <2>1, SameRows DEF RunNext, Ages
<1>9. CASE Wake(w)
  <2>1. Oldest(found[w]) \in Rows
    <3>1. found[w] \in SUBSET Rows /\ found[w] \in SUBSET Wf /\ found[w] # {}
      BY <1>9 DEF Wake, WakesSome, Ages
    <3>2. Oldest(found[w]) \in found[w]
      BY <3>1, OldestMatch
    <3> QED BY <3>1, <3>2
  <2> QED BY <1>9, <2>1, SameRows DEF Wake, AskRestart, Ages
<1>10. CASE Woken(w) BY <1>10, SameRows DEF Woken, Ages
<1>11. CASE Await(w) BY <1>11, SameRows DEF Await, Ages
<1>12. CASE Complete(w) BY <1>12, SameRows DEF Complete, Ages
<1>13. CASE Fail(w)
  BY <1>13, SameRows DEF Fail, Answered, Task, TaskStart, Ages
<1> QED
  BY <1>1, <1>2, <1>3, <1>4, <1>5, <1>6, <1>7, <1>8, <1>9, <1>10, <1>11, <1>12, <1>13
  DEF RunStep

\* A decision is about a row, and discards nothing.
LEMMA DecisionAges ==
  ASSUME TypeOK, Ages, NEW w \in Wf, Decision(w)
  PROVE  Ages'
<1> USE DEF TypeOK, RowsOnly, DiscardsOlder, NewestIsKept, decisions
<1>1. created' = created /\ discarded' = discarded /\ indexed' = indexed
  BY DEF Decision, ResolveClear, ResolveSave, BatchResolve, BatchClear, BatchFail
<1>2. Rows' = Rows /\ AgesDistinct'
  BY <1>1, SameRows
<1>0. inbox' \subseteq Rows /\ saving' \subseteq Rows
  BY DEF Decision, ResolveClear, ResolveSave, BatchResolve, BatchClear, BatchFail, Ages
<1>3. ASSUME ClearAwait(w), status' = status PROVE RowsOnly' /\ DiscardsOlder'
  <2>1. w \in Rows
    BY <1>3 DEF ClearAwait, Ages
  <2>2. \A v \in Wf : found'[v] = found[v] \/ found'[v] = {}
    BY <1>3, ClearedRun
  <2>3. \A v \in Wf \ {w} : pc'[v] = pc[v]
    BY <1>3, ClearedRun
  <2>4. \A r \in Wf \cup {Curator} : restart'[r].on \in Rows \cup {NoWf}
    BY <1>3, ClearedRun DEF Ages, Answered
  <2>5. RowsOnly'
    BY <1>0, <1>1, <1>2, <1>3, <2>1, <2>2, <2>3, <2>4 DEF Ages
  <2>6. \A v \in Wf : pc'[v] = "discard" => pc[v] = "discard"
    BY <1>3, ClearedRun
  <2>7. DiscardsOlder'
    BY <1>1, <2>2, <2>6 DEF Ages
  <2> QED BY <2>5, <2>7
<1>4. ASSUME pc' = pc, found' = found, restart' = restart, status[w] # "none",
             \E st \in Status \ {"none"} : status' = [status EXCEPT ![w] = st]
      PROVE  RowsOnly' /\ DiscardsOlder'
  BY <1>0, <1>1, <1>2, <1>4 DEF Ages
<1>5. CASE ResolveClear(w) BY <1>1, <1>2, <1>3, <1>5 DEF ResolveClear, Ages
<1>6. CASE BatchClear(w) BY <1>1, <1>2, <1>3, <1>6 DEF BatchClear, Ages
<1>7. CASE BatchResolve(w)
  BY <1>1, <1>2, <1>4, <1>7 DEF BatchResolve, Status, Ages
<1>8. CASE ResolveSave(w)
  BY <1>1, <1>2, <1>4, <1>8 DEF ResolveSave, Status, Ages
<1>9. CASE BatchFail(w)
  BY <1>1, <1>2, <1>4, <1>9 DEF BatchFail, Status, Ages
<1> QED BY <1>5, <1>6, <1>7, <1>8, <1>9 DEF Decision

\* Every step keeps the ages.
LEMMA AgesStep ==
  ASSUME TypeOK, WakesSome, Ages, [Next]_vars PROVE Ages'
<1> USE DEF TypeOK, RowsOnly, DiscardsOlder, NewestIsKept, decisions
<1>1. ASSUME NEW r \in Wf \cup {Curator}, RestartStep(r) PROVE Ages'
  <2> USE DEF Request, Answered
  <2>0. PICK w \in Rows \cup {NoWf} : w = restart[r].on
    BY DEF Ages
  <2>1. CASE ClearRun(r)
    <3>1. /\ pc' = [pc EXCEPT ![w] = "restore"]
          /\ found' = [found EXCEPT ![w] = {}]
          /\ \/ status' = [status EXCEPT ![w] = "processing"]
             \/ status' = status
          /\ \/ restart' = [restart EXCEPT ![r] = Answered]
             \/ restart' = [restart EXCEPT ![r] = [on |-> w, at |-> "cleared"]]
          /\ UNCHANGED <<created, discarded, indexed, inbox, saving>>
      BY <2>0, <2>1 DEF ClearRun
    <3>2. Rows' = Rows /\ AgesDistinct'
      BY <3>1, SameRows
    <3>3. RowsOnly'
      BY <2>0, <3>1, <3>2, WfAssumption DEF Ages, Rows
    <3>4. DiscardsOlder' /\ NewestIsKept'
      BY <3>1 DEF Ages
    <3> QED BY <3>2, <3>3, <3>4 DEF Ages
  <2>2. CASE LateSave(r)
    <3>1. /\ status' = [status EXCEPT ![w] = "processing"]
          /\ restart' = [restart EXCEPT ![r] = Answered]
          /\ UNCHANGED <<created, discarded, indexed, pc, found, inbox, saving>>
      BY <2>0, <2>2 DEF LateSave
    <3>2. Rows' = Rows /\ AgesDistinct'
      BY <3>1, SameRows
    <3>3. RowsOnly'
      BY <2>0, <3>1, <3>2, WfAssumption DEF Ages, Rows
    <3>4. DiscardsOlder' /\ NewestIsKept'
      BY <3>1 DEF Ages
    <3> QED BY <3>2, <3>3, <3>4 DEF Ages
  <2>3. CASE RefuseRestart(r) BY <2>3, SameRows DEF RefuseRestart, Ages
  <2> QED BY <1>1, <2>1, <2>2, <2>3 DEF RestartStep
<1>2. ASSUME NEW w \in Wf,
             \/ RunStep(w) \/ Await(w) \/ Complete(w) \/ Fail(w)
      PROVE  Ages'
  BY <1>2, RunAges
<1>3. ASSUME NEW w \in Wf, Create(w) PROVE Ages' BY <1>3, CreateAges
<1>4. ASSUME NEW w \in Wf, Trigger(w) PROVE Ages'
  BY <1>4, SameRows DEF Trigger, Ages
<1>5. ASSUME NEW w \in Wf, Refresh(w) PROVE Ages'
  BY <1>5, SameRows DEF Refresh, Ages
<1>6. ASSUME NEW w \in Wf, Decision(w) PROVE Ages'
  BY <1>6, DecisionAges
<1>7. ASSUME NEW w \in Wf, CuratorRestart(w) PROVE Ages'
  BY <1>7, SameRows DEF CuratorRestart, AskRestart, Ages
<1>8. ASSUME NEW w \in Wf, Retry(w) PROVE Ages'
  BY <1>8, SameRows DEF Retry, TaskStart, Ages
<1>9. CASE UNCHANGED vars BY <1>9, SameRows DEF vars, Ages
<1> QED BY <1>1, <1>2, <1>3, <1>4, <1>5, <1>6, <1>7, <1>8, <1>9 DEF Next

\* Workflows of one source never discard all of them: beside whatever was
\* discarded there is a newer one of its source, even when searches lag,
\* restarts save late and runs fail half way.
THEOREM NewestKept == Spec => []NewestIsKept
<1> DEFINE Inv == TypeOK /\ WakesSome /\ Ages
<1>1. Init => Inv
  <2>1. ASSUME Init PROVE Ages
    <3>1. Rows = {} /\ Cardinality(Rows) = 0
      BY <2>1, FS_EmptySet DEF Init, Rows
    <3>2. RowsOnly /\ DiscardsOlder /\ NewestIsKept
      BY <2>1, <3>1 DEF Init, RowsOnly, DiscardsOlder, NewestIsKept, Answered
    <3>3. AgesDistinct
      BY <2>1, <3>1 DEF Init, AgesDistinct
    <3> QED BY <3>2, <3>3 DEF Ages
  <2> QED BY <2>1, TypeInit
<1>2. Inv /\ [Next]_vars => Inv'
  BY TypeStep, AgesStep
<1>3. Inv => NewestIsKept
  BY DEF Ages
<1> HIDE DEF Inv
<1> QED BY <1>1, <1>2, <1>3, PTL DEF Spec

-----------------------------------------------------------------------------
(* Submissions                                                             *)

\* Submissions are of a source, submitter, that harvests are not of.
SourcesApart ==
  \A w, v \in Wf : SourceOf[w] = SourceOf[v] => (w \in Submission <=> v \in Submission)

\* No submission is discarded, and none is about to be.
NoneAtRisk ==
  /\ SubmissionsAreKept
  /\ \A w \in Wf : pc[w] = "discard" => found[w] \cap Submission = {}

\* The task that discards fails before it could find another submission.
LEMMA MatchSpares ==
  ASSUME TypeOK, SourcesApart, NoneAtRisk, NEW w \in Wf, Match(w)
  PROVE  NoneAtRisk'
<1> DEFINE matches == Matching(w, RunningStatuses \cup {"blocked"})
           same    == SameSource(w, matches)
           older   == NotNewer(w, same)
<1>1. same \cap Submission = {} /\ (w \in Submission => same = {})
  <2>1. \A m \in same : m \in Wf /\ m \in matches /\ SourceOf[m] = SourceOf[w]
    BY DEF SameSource, Matching
  <2>2. w \in Submission => matches \cap Submission = {}
    BY DEF Match, SecondSubmission
  <2>3. \A m \in same : m \notin Submission /\ w \notin Submission
    BY <2>1, <2>2 DEF SourcesApart
  <2> QED BY <2>3
<1>2. older \subseteq same
  BY DEF NotNewer
<1> HIDE DEF matches, same, older
<1>3. \/ pc' = [pc EXCEPT ![w] = "discard"] /\ found' = [found EXCEPT ![w] = older]
         /\ discarded' = discarded
      \/ same # {} /\ pc' = [pc EXCEPT ![w] = "next"] /\ found' = found
         /\ discarded' = discarded \cup {w}
      \/ pc' = [pc EXCEPT ![w] = "check"] /\ found' = found /\ discarded' = discarded
  BY DEF Match, matches, same, older
<1> QED
  BY <1>1, <1>2, <1>3 DEF NoneAtRisk, SubmissionsAreKept, TypeOK

\* Every step keeps submissions off the lists of what will be discarded.
LEMMA SparesStep ==
  ASSUME TypeOK, SourcesApart, NoneAtRisk, [Next]_vars
  PROVE  NoneAtRisk'
<1> USE DEF TypeOK, NoneAtRisk, SubmissionsAreKept
<1>1. ASSUME NEW r \in Wf \cup {Curator}, RestartStep(r) PROVE NoneAtRisk'
  <2>1. CASE ClearRun(r) BY <2>1 DEF ClearRun
  <2>2. CASE LateSave(r) BY <2>2 DEF LateSave
  <2>3. CASE RefuseRestart(r) BY <2>3 DEF RefuseRestart
  <2> QED BY <1>1, <2>1, <2>2, <2>3 DEF RestartStep
<1>2. ASSUME NEW w \in Wf, RunStep(w) \/ Fail(w) PROVE NoneAtRisk'
  <2>1. CASE Restore(w) BY <2>1 DEF Restore
  <2>2. CASE Flag(w) BY <2>2 DEF Flag
  <2>3. CASE Match(w) BY <2>3, MatchSpares
  <2>4. CASE Check(w) BY <2>4 DEF Check
  <2>5. CASE Decide(w) BY <2>5 DEF Decide
  <2>6. ASSUME NEW m \in Wf, Discard(w, m) PROVE NoneAtRisk'
    BY <2>6 DEF Discard, MarkSuccess
  <2>7. ASSUME NEW m \in Wf, Block(w, m) PROVE NoneAtRisk'
    BY <2>7 DEF Block, MarkSuccess
  <2>8. CASE RunNext(w) BY <2>8 DEF RunNext
  <2>9. CASE Wake(w) BY <2>9 DEF Wake
  <2>10. CASE Woken(w) BY <2>10 DEF Woken
  <2>11. CASE Fail(w) BY <2>11 DEF Fail
  <2> QED
    BY <1>2, <2>1, <2>2, <2>3, <2>4, <2>5, <2>6, <2>7, <2>8, <2>9, <2>10, <2>11
    DEF RunStep
<1>3. ASSUME NEW w \in Wf, Create(w) PROVE NoneAtRisk' BY <1>3 DEF Create
<1>4. ASSUME NEW w \in Wf, Trigger(w) PROVE NoneAtRisk' BY <1>4 DEF Trigger
<1>5. ASSUME NEW w \in Wf, Refresh(w) PROVE NoneAtRisk' BY <1>5 DEF Refresh
<1>6. ASSUME NEW w \in Wf, Await(w) \/ Complete(w) PROVE NoneAtRisk'
  BY <1>6 DEF Await, Complete
<1>7. ASSUME NEW w \in Wf, Decision(w) \/ CuratorRestart(w) PROVE NoneAtRisk'
  <2>1. discarded' = discarded
    BY <1>7 DEF Decision, ResolveClear, ResolveSave, BatchResolve, BatchClear, BatchFail,
                CuratorRestart
  <2>2. ASSUME ClearAwait(w) PROVE NoneAtRisk'
    BY <2>1, <2>2, ClearedRun
  <2> QED
    BY <1>7, <2>1, <2>2 DEF Decision, ResolveClear, ResolveSave, BatchResolve, BatchClear,
                            BatchFail, CuratorRestart
<1>8. ASSUME NEW w \in Wf, Retry(w) PROVE NoneAtRisk'
  BY <1>8 DEF Retry, TaskStart
<1>9. CASE UNCHANGED vars BY <1>9 DEF vars
<1> QED BY <1>1, <1>2, <1>3, <1>4, <1>5, <1>6, <1>7, <1>8, <1>9 DEF Next

\* No submission is ever discarded, by its own run or by another one, whatever
\* the searches show: the guard against a second submission may miss one that
\* exists, but then the search that discards misses it too.
THEOREM SubmissionsKept ==
  ASSUME SourcesApart
  PROVE  Spec => []SubmissionsAreKept
<1> DEFINE Inv == TypeOK /\ WakesSome /\ NoneAtRisk
<1>1. Init => Inv
  BY TypeInit DEF Init, NoneAtRisk, SubmissionsAreKept
<1>2. Inv /\ [Next]_vars => Inv'
  BY TypeStep, SparesStep
<1>3. Inv => SubmissionsAreKept
  BY DEF NoneAtRisk
<1> HIDE DEF Inv
<1> QED BY <1>1, <1>2, <1>3, PTL DEF Spec
=============================================================================
