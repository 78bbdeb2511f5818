-------------------------- MODULE HepDecisionsProofs --------------------------
(* What is stored was decided, what the run asks can be answered, and a    *)
(* run that is stuck beside its decision is repaired by the task of the    *)
(* latest row: for every number of requests and rows.                      *)
EXTENDS HepDecisions, WellFoundedInduction, TLAPS

\* The decisions a curator can send.
LEMMA ActionIs ==
  Action = {"fuzzy_match", "fuzzy_no_match", "merge_approve", "hep_accept",
            "hep_accept_core", "hep_reject", "core_selection_accept",
            "core_selection_accept_core", "missing_subject_fields"}
BY DEF Action, AwaitTask, Answers

\* Each decision is the answer of one task.
LEMMA TaskOfAnswer ==
  ASSUME NEW k \in AwaitTask, NEW a \in Answers(k)
  PROVE  a \in Action /\ TaskOf(a) = k
<1>1. a \in Action
  BY DEF Action
<1>2. a # "missing_subject_fields"
  BY DEF Answers, AwaitTask
<1>3. \A m \in AwaitTask : a \in Answers(m) => m = k
  BY DEF Answers, AwaitTask
<1> QED BY <1>1, <1>2, <1>3 DEF TaskOf

\* Every decision has its await task.
LEMMA TaskOfAction ==
  ASSUME NEW a \in Action
  PROVE  /\ TaskOf(a) \in AwaitTask
         /\ a # "missing_subject_fields" => a \in Answers(TaskOf(a))
         /\ a = "missing_subject_fields" => TaskOf(a) = "approval"
<1>1. CASE a = "missing_subject_fields"
  BY <1>1 DEF TaskOf, AwaitTask
<1>2. CASE a # "missing_subject_fields"
  <2>1. PICK k \in AwaitTask : a \in Answers(k)
    BY <1>2 DEF Action
  <2> QED BY <1>2, <2>1, TaskOfAnswer
<1> QED BY <1>1, <1>2

\* Decisions that exclude each other answer one task, or approval and core.
LEMMA ClashFacts ==
  ASSUME NEW a \in Action, NEW b \in Action
  PROVE  /\ Clash(a, a)
         /\ SameAction(a, b) => Clash(a, b) /\ TaskOf(a) = TaskOf(b)
         /\ Clash(a, b) => Clash(b, a)
         /\ Clash(a, b) => TaskOf(a) = TaskOf(b) \/
                           {TaskOf(a), TaskOf(b)} \subseteq {"approval", "core"}
<1>1. Clash(a, a) /\ (SameAction(a, b) => Clash(a, b)) /\ (Clash(a, b) => Clash(b, a))
  BY DEF Clash, SameAction
<1>2. a \in Answers("fuzzy") => TaskOf(a) = "fuzzy"
  BY TaskOfAnswer DEF AwaitTask
<1>3. b \in Answers("fuzzy") => TaskOf(b) = "fuzzy"
  BY TaskOfAnswer DEF AwaitTask
<1>4. a \in Exclusive => TaskOf(a) \in {"approval", "core"}
  BY TaskOfAnswer DEF AwaitTask, Exclusive
<1>5. b \in Exclusive => TaskOf(b) \in {"approval", "core"}
  BY TaskOfAnswer DEF AwaitTask, Exclusive
<1> QED BY <1>1, <1>2, <1>3, <1>4, <1>5 DEF Clash, SameAction

\* A set of numbers with a bound has a greatest one.
LEMMA GreatestOf ==
  ASSUME NEW S \in SUBSET Nat, S # {}, NEW n \in Nat, \A m \in S : m <= n
  PROVE  \E m \in S : \A o \in S : o <= m
<1> DEFINE T == {i \in 0..n : n - i \in S}
<1>1. PICK m \in S : TRUE
  OBVIOUS
<1>2. n - m \in T
  <2>1. n - m \in 0..n /\ n - (n - m) = m
    OBVIOUS
  <2> QED BY <2>1
<1>3. PICK x \in T : \A y \in T : ~(<<y, x>> \in OpToRel(<, Nat))
  <2>1. T \subseteq Nat
    OBVIOUS
  <2>2. T # {}
    BY <1>2
  <2> QED BY <2>1, <2>2, NatLessThanWellFounded, WFMin
<1>4. x \in 0..n /\ n - x \in S
  OBVIOUS
<1>5. \A o \in S : o <= n - x
  <2>1. SUFFICES ASSUME NEW o \in S, ~(o <= n - x)
                 PROVE  FALSE
    OBVIOUS
  <2>2. n - o \in 0..n /\ n - (n - o) = o
    OBVIOUS
  <2>3. n - o \in T
    BY <2>2
  <2>4. n - o \in Nat /\ x \in Nat /\ n - o < x
    BY <1>4, <2>1, <2>2
  <2>5. <<n - o, x>> \in OpToRel(<, Nat)
    BY <2>4 DEF OpToRel
  <2> QED BY <1>3, <2>3, <2>5
<1> QED BY <1>4, <1>5

-----------------------------------------------------------------------------
\* Stamps have a bound, so there is a latest one.
StampsBounded ==
  /\ \A a \in Action : decisions[a] <= MaxStamp
  /\ \A r \in Req : req[r].stamp <= MaxStamp

\* Decisions are read, and waited for, by await tasks only.
ReadsAtTask == phase \in {"read", "halted"} => at \in AwaitTask

Types == TypeOK /\ StampsBounded /\ ReadsAtTask

\* The latest row, by its creation time.
LEMMA LatestIs ==
  ASSUME TypeOK, StampsBounded
  PROVE  Latest \in Action /\ \A b \in Action : decisions[b] <= decisions[Latest]
<1> DEFINE S == {decisions[a] : a \in Action}
<1>1. S \in SUBSET Nat /\ S # {} /\ \A m \in S : m <= MaxStamp
  BY ActionIs DEF TypeOK, StampsBounded
<1>2. PICK m \in S : \A o \in S : o <= m
  BY <1>1, GreatestOf, MaxStampAssumption
<1>3. PICK a \in Action : m = decisions[a]
  OBVIOUS
<1>4. \A b \in Action : decisions[b] <= decisions[a]
  BY <1>2, <1>3
<1> QED BY <1>3, <1>4 DEF Latest

\* A new row is later than every row, committed or not.
LEMMA NewStampIs ==
  ASSUME TypeOK, StampsBounded
  PROVE  /\ NewStamp \in Nat \ {0}
         /\ \A a \in Action : decisions[a] < NewStamp
         /\ \A r \in Req : req[r].stamp < NewStamp
<1> DEFINE S == {decisions[a] : a \in Action} \cup {req[r].stamp : r \in Req}
           M == CHOOSE n \in S : \A m \in S : m <= n
<1>1. S \in SUBSET Nat /\ S # {} /\ \A m \in S : m <= MaxStamp
  BY ActionIs DEF TypeOK, StampsBounded, Request
<1>2. \E n \in S : \A m \in S : m <= n
  BY <1>1, GreatestOf, MaxStampAssumption
<1>3. M \in S /\ \A m \in S : m <= M
  BY <1>2
<1>4. NewStamp = 1 + M
  BY DEF NewStamp
<1> HIDE DEF M
<1>5. M \in Nat /\ \A m \in S : m < NewStamp
  <2> HIDE DEF S
  <2> QED BY <1>1, <1>3, <1>4
<1>6. \A a \in Action : decisions[a] \in S
  OBVIOUS
<1>7. \A r \in Req : req[r].stamp \in S
  OBVIOUS
<1> QED BY <1>4, <1>5, <1>6, <1>7

\* The branches after an await task keep the types.
LEMMA RouteTypes ==
  ASSUME TypeOK, NEW u \in BOOLEAN, Route(u)
  PROVE  at' \in Task /\ approved' \in BOOLEAN /\ status' \in Status
BY DEF Route, Merge, AutoAccept, AutoReject, AskApproval, TypeOK, Task, Status, AwaitTask

\* Every step keeps the types.
LEMMA TypeStep ==
  ASSUME Types, [Next]_vars
  PROVE  Types'
<1> USE DEF Types, TypeOK, StampsBounded, ReadsAtTask, Request, runVars
<1>1. CASE Start
  <2>1. status' \in Status /\ copy' \in Status /\ at' \in Task
    BY <1>1 DEF Start, Task, Status
  <2>2. decisions' \in [Action -> Nat] /\ \A a \in Action : decisions'[a] <= MaxStamp
    BY <1>1, MaxStampAssumption DEF Start
  <2>3. stray' \subseteq Action
    BY <1>1 DEF Start, Adds, Open
  <2> QED BY <1>1, <2>1, <2>2, <2>3 DEF Start
<1>2. CASE Prepare
  <2>1. at' \in Task /\ approved' \in BOOLEAN /\ status' \in Status /\ update' \in BOOLEAN
    BY <1>2, RouteTypes DEF Prepare, Task, AwaitTask
  <2> QED BY <1>2, <2>1 DEF Prepare
<1>3. CASE ReadDecision
  <2>1. answer' \in Action \cup {NoAction}
    BY <1>3, TaskOfAnswer DEF ReadDecision
  <2> QED BY <1>3, <2>1 DEF ReadDecision
<1>4. CASE Halt
  <2>1. status' \in Status
    BY <1>4 DEF Halt, Status
  <2> QED BY <1>4, <2>1 DEF Halt
<1>5. CASE GoOn
  <2>1. at' \in Task /\ approved' \in BOOLEAN /\ status' \in Status /\ update' \in BOOLEAN
    BY <1>5, RouteTypes DEF GoOn, Task
  <2> QED BY <1>5, <2>1 DEF GoOn
<1>6. CASE Store
  BY <1>6 DEF Store, Task, Status, AwaitTask
<1>7. CASE Complete
  BY <1>7 DEF Complete, Task, Status
<1>8. CASE Fail
  BY <1>8 DEF Fail, Status
<1>9. ASSUME NEW k \in AwaitTask, ClearTask(k)
      PROVE  /\ at' \in Task /\ answer' \in Action \cup {NoAction}
             /\ phase' \in {"todo", "read", "halted", "failed"}
             /\ reached' \subseteq AwaitTask /\ approved' \in BOOLEAN
             /\ update' \in BOOLEAN /\ copy' \in Status
             /\ phase' \in {"read", "halted"} => at' \in AwaitTask
  BY <1>9 DEF ClearTask, Task
<1>10. ASSUME NEW a \in Action
       PROVE  TaskOf(a) \in AwaitTask /\ TaskOf(a) \in Status
  BY TaskOfAction DEF Status
<1>11. ASSUME NEW r \in Req, NEW a \in Action, ResolveAdd(r, a)
       PROVE  Types'
  <2>1. NewStamp \in Nat
    BY NewStampIs
  <2>2. stray' \subseteq Action
    BY <1>11 DEF ResolveAdd, Recorded
  <2> QED BY <1>11, <2>1, <2>2, MaxStampAssumption DEF ResolveAdd
<1>12. ASSUME NEW r \in Req, RequestStep(r)
       PROVE  Types'
  <2>1. Committed(r) \in [Action -> Nat] /\ \A a \in Action : Committed(r)[a] <= MaxStamp
    BY DEF Committed, Open
  <2>2. CASE ResolveClear(r)
    BY <1>9, <1>10, <2>2 DEF ResolveClear, Open
  <2>3. CASE ResolveCommit(r)
    BY <2>1, <2>3, MaxStampAssumption DEF ResolveCommit, NoRequest, Status
  <2>4. CASE ResolveFail(r)
    BY <2>1, <2>4, MaxStampAssumption DEF ResolveFail, NoRequest
  <2> QED BY <1>12, <2>2, <2>3, <2>4 DEF RequestStep
<1>13. ASSUME NEW a \in Action, BatchResolve(a)
       PROVE  Types'
  <2>1. stray' \subseteq Action
    BY <1>13 DEF BatchResolve, Recorded
  <2> QED BY <1>10, <1>13, <2>1, NewStampIs DEF BatchResolve, Status
<1>14. ASSUME NEW k \in AwaitTask, BatchClear(k) \/ BatchFail(k) \/ BatchTimeout(k)
       PROVE  Types'
  BY <1>9, <1>14 DEF BatchClear, BatchFail, BatchTimeout, Status
<1>15. CASE Restart \/ RestartFailed
  BY <1>15 DEF Restart, RestartFailed, Task, Status
<1>16. CASE Repair
  <2>1. Latest \in Action
    BY LatestIs
  <2> QED BY <1>9, <1>10, <1>16, <2>1 DEF Repair
<1>17. CASE UNCHANGED vars
  BY <1>17 DEF vars
<1> QED BY <1>1, <1>2, <1>3, <1>4, <1>5, <1>6, <1>7, <1>8, <1>11, <1>12, <1>13, <1>14,
           <1>15, <1>16, <1>17 DEF Next, RunStep

-----------------------------------------------------------------------------
(* Decisions and the run                                                   *)

\* No two rows, and no two requests, exclude each other; and no row is about
\* to be inserted that a row excludes.
RowsExclude ==
  /\ \A a, b \in Action : Decided(a) /\ Decided(b) /\ Clash(a, b) => a = b
  /\ \A r \in Req : Adds(r) => ~Refused(req[r].action)
  /\ \A r, o \in Req : Open(r) /\ Open(o) /\ Clash(req[r].action, req[o].action) => r = o

\* A decision answers a task that the run came to, but for those that were
\* recorded while the workflow did not wait for them.
RowsFit ==
  at # "start" =>
    /\ \A a \in Action : Decided(a) /\ a \notin stray => TaskOf(a) \in reached
    /\ \A r \in Req : Adds(r) /\ req[r].action \notin stray => TaskOf(req[r].action) \in reached

\* Which tasks a run comes to follows from the paper and the flag; the status,
\* and the copy of it, name only those.
Beginning == at \in {"start", "prepare"}
Reachable(k) ==
  /\ k = "merge" => update
  /\ k = "approval" => ~update /\ paper \cap {"auto", "reject"} = {}
  /\ k = "core" => ~update /\ "auto" \in paper

ReachedHolds ==
  /\ Beginning => reached = {} /\ status \notin AwaitTask
  /\ at = "prepare" => ~approved /\ ~update /\ copy = "running"
  /\ at \in AwaitTask => at \in reached
  /\ \A k \in reached : Reachable(k)
  /\ status \in AwaitTask => status \in reached
  /\ ~Beginning /\ copy \in AwaitTask => copy \in reached

\* What an await task has read is there.
AnswerHolds ==
  answer # NoAction => phase = "read" /\ answer \in Answers(at) /\ Decided(answer)

\* The run waits for a decision, or will find none.
Waiting == at \in AwaitTask /\ (phase = "halted" \/ (phase = "read" /\ answer = NoAction))

\* The run came past await_decision_fuzzy_match with the decision that still
\* stands, which agrees with its flag.
FuzzyHolds ==
  "fuzzy" \in reached =>
    /\ update => Decided("fuzzy_match")
    /\ ~update /\ (at # "fuzzy" \/ reached # {"fuzzy"}) => Decided("fuzzy_no_match")
    /\ Waiting /\ at = "fuzzy" => reached = {"fuzzy"}

\* The flag in S3 is set for a reason.
ApprovedHolds ==
  /\ approved => \/ update \/ paper \cap {"auto", "hide"} # {}
                 \/ Decided("hep_accept") \/ Decided("hep_accept_core")
  /\ at = "store" => approved

DecidedHolds ==
  RowsExclude /\ RowsFit /\ ReachedHolds /\ AnswerHolds /\ FuzzyHolds /\ ApprovedHolds

\* Where a route leads, and what it does to the flag and to the status.
LEMMA RouteLeads ==
  ASSUME Types, NEW u \in BOOLEAN, Route(u)
  PROVE  /\ at' \in {"merge", "store", "complete", "approval"}
         /\ at' = "merge" => u
         /\ at' = "approval" => ~u /\ paper \cap {"auto", "reject"} = {}
         /\ status' \in {status, copy, "running"}
         /\ approved' => approved \/ u \/ paper \cap {"auto", "hide"} # {}
         /\ at' = "store" => approved'
BY DEF Route, Merge, AutoAccept, AutoReject, AskApproval, Types, TypeOK

\* A run that starts again has reached no await task.
LEMMA StartDecided ==
  ASSUME Types, DecidedHolds, Start
  PROVE  DecidedHolds'
<1>1. RowsExclude' /\ RowsFit'
  BY DEF Start, Types, TypeOK, DecidedHolds, RowsExclude, RowsFit, Adds, Open, Decided,
         Refused
<1>2. ReachedHolds' /\ FuzzyHolds'
  BY DEF Start, DecidedHolds, ReachedHolds, FuzzyHolds, Beginning, Reachable, AwaitTask
<1>3. AnswerHolds' /\ ApprovedHolds'
  BY DEF Start, DecidedHolds, AnswerHolds, ApprovedHolds
<1> QED BY <1>1, <1>2, <1>3 DEF DecidedHolds

\* Steps that leave the rows and the requests alone.
LEMMA RowsUnchanged ==
  ASSUME DecidedHolds, UNCHANGED <<decisions, req, stray>>,
         at' = "start" \/ (at # "start" /\ reached \subseteq reached')
  PROVE  RowsExclude' /\ RowsFit'
BY DEF DecidedHolds, RowsExclude, RowsFit, Adds, Open, Decided, Refused

\* The tasks before the first question reach one question at most.
LEMMA PrepareDecided ==
  ASSUME Types, DecidedHolds, Prepare
  PROVE  DecidedHolds'
<1> USE DEF DecidedHolds
<1>1. RowsExclude' /\ RowsFit'
  BY RowsUnchanged DEF Prepare, ReachedHolds, Beginning
<1>2. ReachedHolds' /\ FuzzyHolds' /\ ApprovedHolds'
  <2> USE DEF ReachedHolds, FuzzyHolds, ApprovedHolds, Beginning, Reachable, Waiting, AwaitTask
  <2>1. CASE \E u \in BOOLEAN : update' = u /\ Route(u)
    <3>1. PICK u \in BOOLEAN : update' = u /\ Route(u)
      BY <2>1
    <3> QED BY <3>1, RouteLeads DEF Prepare
  <2>2. CASE at' = "fuzzy" /\ UNCHANGED <<status, approved, update>>
    BY <2>2 DEF Prepare
  <2> QED BY <2>1, <2>2 DEF Prepare
<1>3. AnswerHolds'
  BY DEF Prepare, AnswerHolds
<1> QED BY <1>1, <1>2, <1>3

\* An await task takes the answer its rows give.
LEMMA ReadDecided ==
  ASSUME Types, DecidedHolds, ReadDecision
  PROVE  DecidedHolds'
<1> USE DEF DecidedHolds
<1>1. RowsExclude' /\ RowsFit'
  BY RowsUnchanged DEF ReadDecision, AwaitTask
<1>2. ReachedHolds' /\ ApprovedHolds'
  BY DEF ReadDecision, ReachedHolds, ApprovedHolds, Beginning, Reachable, Decided, AwaitTask
<1>3. AnswerHolds'
  BY DEF ReadDecision, AnswerHolds, Decided
<1>4. FuzzyHolds'
  <2>1. Waiting' /\ at = "fuzzy" =>
          ~Decided("fuzzy_match") /\ ~Decided("fuzzy_no_match")
    <3>1. {"fuzzy_match", "fuzzy_no_match"} = Answers("fuzzy")
      BY DEF Answers
    <3>2. answer' = NoAction => \A a \in Answers(at) : ~Decided(a)
      BY TaskOfAnswer, ActionAssumption DEF ReadDecision
    <3> QED BY <3>1, <3>2 DEF ReadDecision, Waiting
  <2>2. FuzzyHolds /\ at \in reached
    BY DEF ReachedHolds, ReadDecision
  <2> QED BY <2>1, <2>2 DEF ReadDecision, FuzzyHolds, Decided
<1> QED BY <1>1, <1>2, <1>3, <1>4

\* A run that goes on with its answer reaches a task that its answers fit.
LEMMA GoOnDecided ==
  ASSUME Types, DecidedHolds, GoOn
  PROVE  DecidedHolds'
<1> USE DEF DecidedHolds
<1>1. RowsExclude' /\ RowsFit'
  BY RowsUnchanged DEF GoOn, Types, ReadsAtTask, AwaitTask
<1>2. AnswerHolds'
  BY DEF GoOn, AnswerHolds
<1>3. answer \in Answers(at) /\ Decided(answer) /\ at \in reached
  BY DEF GoOn, AnswerHolds, ReachedHolds, Types, ReadsAtTask
<1>4. CASE at = "fuzzy"
  <2>1. /\ update' = (update \/ answer = "fuzzy_match")
        /\ Route(update')
    BY <1>4 DEF GoOn
  <2>2. update' \in BOOLEAN
    BY <2>1 DEF Types, TypeOK
  <2>3. answer \in {"fuzzy_match", "fuzzy_no_match"}
    BY <1>3, <1>4 DEF Answers
  <2>4. ~(Decided("fuzzy_match") /\ Decided("fuzzy_no_match"))
    <3>1. {"fuzzy_match", "fuzzy_no_match"} \subseteq Action
      BY ActionIs
    <3> QED BY <3>1 DEF RowsExclude, Clash, SameAction, Answers
  <2>5. reached # {"fuzzy"} => update' = update
    BY <1>3, <1>4, <2>1, <2>2, <2>3, <2>4 DEF FuzzyHolds, Types, TypeOK
  <2>6. \A k \in reached : Reachable(k)'
    BY <1>3, <1>4, <2>1, <2>5 DEF ReachedHolds, Reachable, GoOn
  <2>7. ReachedHolds'
    BY <2>1, <2>2, <2>6, RouteLeads DEF GoOn, ReachedHolds, Beginning, Reachable, AwaitTask
  <2>8. FuzzyHolds'
    BY <1>3, <1>4, <2>1, <2>2, <2>3, <2>4, RouteLeads DEF GoOn, FuzzyHolds, Waiting, Decided
  <2>9. ApprovedHolds'
    BY <2>1, <2>2, RouteLeads DEF GoOn, ApprovedHolds, Decided
  <2> QED BY <1>1, <1>2, <2>7, <2>8, <2>9
<1>5. CASE at # "fuzzy"
  <2>1. ReachedHolds'
    BY <1>5 DEF GoOn, ReachedHolds, Beginning, Reachable, AwaitTask
  <2>2. FuzzyHolds'
    BY <1>5 DEF GoOn, FuzzyHolds, Waiting, Decided
  <2>3. ApprovedHolds'
    <3>1. at = "merge" => update
      BY <1>3 DEF ReachedHolds, Reachable
    <3>2. at = "approval" => answer \in {"hep_accept", "hep_accept_core", "hep_reject"}
      BY <1>3 DEF Answers
    <3>3. CASE at = "merge" \/ at = "core"
      BY <3>1, <3>3 DEF GoOn, ApprovedHolds, Decided
    <3>4. CASE at = "approval"
      <4>1. approved' => answer # "hep_reject" \/ "hide" \in paper
        BY <3>4 DEF GoOn
      <4>2. at' = "store" => approved'
        BY <3>4 DEF GoOn
      <4> QED BY <1>3, <3>2, <3>4, <4>1, <4>2 DEF GoOn, ApprovedHolds, Decided
    <3> QED BY <1>5, <3>3, <3>4 DEF GoOn
  <2> QED BY <1>1, <1>2, <2>1, <2>2, <2>3
<1> QED BY <1>4, <1>5

\* The other steps of the run, failures and restarts.
LEMMA RestDecided ==
  ASSUME Types, DecidedHolds,
         \/ Halt \/ Store \/ Complete \/ Fail \/ Restart \/ RestartFailed \/ UNCHANGED vars
  PROVE  DecidedHolds'
<1> USE DEF DecidedHolds, Halt, Store, ToCoreSelection, Complete, Fail, Restart,
            RestartFailed, vars
<1>1. RowsExclude' /\ RowsFit'
  <2>1. CASE at = "start"
    BY <2>1, RowsUnchanged DEF Types, ReadsAtTask, AwaitTask
  <2>2. CASE at # "start"
    BY <2>2, RowsUnchanged
  <2> QED BY <2>1, <2>2
<1>2. ReachedHolds'
  <2> USE DEF ReachedHolds, Beginning, Reachable, AwaitTask
  <2>1. CASE Halt
    BY <2>1 DEF Types, ReadsAtTask
  <2>2. CASE Store
    BY <2>2
  <2>3. CASE Complete \/ Fail \/ Restart \/ RestartFailed \/ UNCHANGED vars
    BY <2>3
  <2> QED BY <2>1, <2>2, <2>3
<1>3. AnswerHolds' /\ ApprovedHolds'
  BY DEF AnswerHolds, ApprovedHolds, Decided
<1>4. FuzzyHolds'
  BY DEF FuzzyHolds, Waiting, Decided, AwaitTask
<1> QED BY <1>1, <1>2, <1>3, <1>4

\* Tasks are cleared: by a request, a Celery task or an operator.
LEMMA ClearDecided ==
  ASSUME Types, DecidedHolds, NEW k \in AwaitTask, ClearTask(k),
         UNCHANGED <<status, decisions, paper, stray>>,
         UNCHANGED req \/ \E r \in Req : req' = [req EXCEPT ![r].cleared = TRUE]
  PROVE  DecidedHolds'
<1> USE DEF DecidedHolds
<1>1. \A r \in Req : /\ req'[r].action = req[r].action
                     /\ req'[r].stamp = req[r].stamp
  BY DEF Types, TypeOK, Request
<1>2. RowsExclude' /\ RowsFit'
  <2>1. RowsExclude'
    BY <1>1 DEF RowsExclude, Adds, Open, Decided, Refused
  <2>2. RowsFit'
    BY <1>1 DEF RowsFit, ClearTask, Adds, Open, Decided, ReachedHolds, Beginning
  <2> QED BY <2>1, <2>2
<1>3. ReachedHolds' /\ AnswerHolds' /\ ApprovedHolds'
  BY DEF ClearTask, ReachedHolds, AnswerHolds, ApprovedHolds, Beginning, Reachable,
         Decided, AwaitTask
<1>4. FuzzyHolds'
  BY DEF ClearTask, FuzzyHolds, Waiting, Decided, AwaitTask
<1> QED BY <1>2, <1>3, <1>4

\* A request opens.
LEMMA AddDecided ==
  ASSUME Types, DecidedHolds, NEW r \in Req, NEW a \in Action, ResolveAdd(r, a)
  PROVE  DecidedHolds'
<1> USE DEF DecidedHolds
<1>1. /\ req' = [req EXCEPT ![r] = [action |-> a, stamp |-> IF Exists(a) THEN 0 ELSE NewStamp,
                                    cleared |-> FALSE]]
      /\ stray' = Recorded(a) /\ UNCHANGED <<status, decisions, runVars, paper, inbox>>
  BY DEF ResolveAdd
<1>2. a # NoAction
  BY ActionAssumption
<1>3. Exists(a) \/ a \in stray' \/ TaskOf(a) \in reached
  BY <1>1, TaskOfAction DEF Recorded, Timely, ReachedHolds
<1>4. stray \subseteq stray'
  BY <1>1 DEF Recorded
<1>5. RowsFit'
  BY <1>1, <1>2, <1>3, <1>4 DEF RowsFit, Adds, Open, Decided, Types, TypeOK, runVars
<1>6. RowsExclude'
  <2>1. \A o \in Req : Open(o) => ~Clash(a, req[o].action) /\ ~Clash(req[o].action, a)
    <3> SUFFICES ASSUME NEW o \in Req, Open(o)
                 PROVE  ~Clash(a, req[o].action) /\ ~Clash(req[o].action, a)
      OBVIOUS
    <3>1. req[o].action \in Action
      BY DEF Open, Types, TypeOK, Request
    <3> QED BY <3>1, ClashFacts DEF ResolveAdd, MustWait
  <2>2. req'[r].stamp # 0 => ~Refused(a)
    BY <1>1 DEF ResolveAdd, Types, TypeOK
  <2>3. Refused(a)' = Refused(a) /\ \A b \in Action : Decided(b)' = Decided(b)
    BY <1>1 DEF Refused, Decided
  <2>4. \A o \in Req : o # r => req'[o] = req[o]
    BY <1>1 DEF Types, TypeOK
  <2>5. req'[r].action = a /\ Open(r)'
    BY <1>1, <1>2 DEF Types, TypeOK, Open
  <2>6. \A o \in Req : Adds(o)' => ~Refused(req[o].action)'
    BY <2>2, <2>3, <2>4, <2>5, <1>1 DEF RowsExclude, Adds, Open, Refused, Decided
  <2>7. \A o, m \in Req : Open(o)' /\ Open(m)' /\ Clash(req'[o].action, req'[m].action) => o = m
    BY <2>1, <2>4, <2>5 DEF RowsExclude, Open
  <2> QED BY <1>1, <2>6, <2>7 DEF RowsExclude, Decided
<1>7. ReachedHolds' /\ AnswerHolds' /\ ApprovedHolds' /\ FuzzyHolds'
  BY <1>1 DEF runVars, ReachedHolds, AnswerHolds, ApprovedHolds, FuzzyHolds, Beginning,
              Reachable, Waiting, Decided
<1> QED BY <1>5, <1>6, <1>7

\* A row is inserted, or was there.
LEMMA RowDecided ==
  ASSUME Types, DecidedHolds, NEW a \in Action, NEW s \in Nat,
         decisions' = [decisions EXCEPT ![a] = IF s = 0 THEN @ ELSE s],
         s # 0 => ~Refused(a), stray \subseteq stray',
         at # "start" /\ s # 0 => a \in stray' \/ TaskOf(a) \in reached,
         UNCHANGED <<runVars, paper>>, status' \in {status, "running"},
         \A r \in Req : req'[r] = req[r] \/ req'[r] = NoRequest,
         \A r \in Req : Open(r)' => ~Clash(a, req[r].action)
  PROVE  DecidedHolds'
<1> USE DEF DecidedHolds
<1>1. \A b \in Action : Decided(b)' <=> Decided(b) \/ (b = a /\ s # 0)
  BY DEF Decided, Types, TypeOK
<1>2. \A r \in Req : Open(r)' => req'[r] = req[r] /\ Open(r) /\ req[r].action \in Action
  BY DEF Open, NoRequest, Types, TypeOK, Request
<1>3. \A b \in Action : Clash(a, b) <=> Clash(b, a)
  BY ClashFacts
<1>4. RowsFit'
  BY <1>1, <1>2 DEF RowsFit, Adds, runVars
<1>5. RowsExclude'
  <2>1. \A b, c \in Action : Decided(b)' /\ Decided(c)' /\ Clash(b, c) => b = c
    BY <1>1, <1>3 DEF RowsExclude, Refused
  <2>2. \A r \in Req : Adds(r)' => ~Refused(req[r].action)'
    <3> SUFFICES ASSUME NEW r \in Req, Adds(r)' PROVE ~Refused(req[r].action)'
      OBVIOUS
    <3>1. Adds(r) /\ Open(r)' /\ req'[r] = req[r] /\ req[r].action \in Action
      BY <1>2 DEF Adds
    <3>2. ~Refused(req[r].action) /\ ~Clash(req[r].action, a)
      BY <1>3, <3>1 DEF RowsExclude
    <3> QED BY <1>1, <3>1, <3>2 DEF Refused
  <2>3. \A r, o \in Req : Open(r)' /\ Open(o)' /\ Clash(req'[r].action, req'[o].action) => r = o
    BY <1>2 DEF RowsExclude
  <2> QED BY <2>1, <2>2, <2>3 DEF RowsExclude
<1>6. \A b \in Action : Decided(b) => Decided(b)'
  BY <1>1
<1>7. ReachedHolds' /\ AnswerHolds'
  BY <1>6, TaskOfAnswer DEF runVars, ReachedHolds, AnswerHolds, Beginning, Reachable,
         AwaitTask, Types, ReadsAtTask
<1>8. FuzzyHolds' /\ ApprovedHolds'
  <2>1. {"fuzzy_match", "fuzzy_no_match", "hep_accept", "hep_accept_core"} \subseteq Action
    BY ActionIs
  <2> QED BY <1>6, <2>1 DEF runVars, FuzzyHolds, ApprovedHolds, Waiting
<1> QED BY <1>4, <1>5, <1>7, <1>8

\* The row of a request that commits fits those that are there.
LEMMA CommitDecided ==
  ASSUME Types, DecidedHolds, NEW r \in Req, Open(r),
         decisions' = Committed(r), req' = [req EXCEPT ![r] = NoRequest],
         UNCHANGED <<runVars, paper, stray>>, status' \in {status, "running"}
  PROVE  DecidedHolds'
<1>1. req[r].action \in Action /\ req[r].stamp \in Nat
  BY DEF Open, Types, TypeOK, Request
<1>2. req[r].stamp # 0 => ~Refused(req[r].action)
  BY DEF DecidedHolds, RowsExclude, Adds
<1>3. at # "start" /\ req[r].stamp # 0 =>
        req[r].action \in stray \/ TaskOf(req[r].action) \in reached
  BY DEF DecidedHolds, RowsFit, Adds
<1>4. \A o \in Req : req'[o] = req[o] \/ req'[o] = NoRequest
  BY DEF Types, TypeOK
<1>5. \A o \in Req : Open(o)' => Open(o) /\ o # r
  BY DEF Open, NoRequest, Types, TypeOK
<1>6. \A o \in Req : Open(o)' => ~Clash(req[r].action, req[o].action)
  BY <1>5 DEF DecidedHolds, RowsExclude
<1>7. decisions' = [decisions EXCEPT ![req[r].action] = IF req[r].stamp = 0 THEN @ ELSE req[r].stamp]
  BY DEF Committed
<1> QED BY <1>1, <1>2, <1>3, <1>4, <1>6, <1>7, RowDecided

\* A row of a batch request fits those that are there.
LEMMA BatchDecided ==
  ASSUME Types, DecidedHolds, NEW a \in Action, BatchResolve(a)
  PROVE  DecidedHolds'
<1>1. NewStamp \in Nat /\ NewStamp # 0
  BY NewStampIs DEF Types
<1>2. ~Refused(a) /\ stray \subseteq stray'
  BY DEF BatchResolve, Recorded
<1>3. a \in stray' \/ TaskOf(a) \in reached
  <2>1. ~Exists(a)
    BY <1>2, ClashFacts DEF Exists, Refused
  <2> QED BY <2>1, TaskOfAction DEF BatchResolve, Recorded, Timely, DecidedHolds, ReachedHolds
<1>4. decisions' = [decisions EXCEPT ![a] = IF NewStamp = 0 THEN @ ELSE NewStamp]
  BY <1>1 DEF BatchResolve
<1>5. \A r \in Req : Open(r)' => ~Clash(a, req[r].action)
  BY DEF BatchResolve, MustWait, Open
<1> QED BY <1>1, <1>2, <1>3, <1>4, <1>5, RowDecided DEF BatchResolve

\* Only the status changes.
LEMMA StatusDecided ==
  ASSUME DecidedHolds, status' \in {status, "error"},
         UNCHANGED <<decisions, runVars, paper, stray, req>>
  PROVE  DecidedHolds'
<1>1. RowsExclude' /\ RowsFit'
  BY RowsUnchanged DEF runVars
<1>2. ReachedHolds' /\ AnswerHolds' /\ ApprovedHolds' /\ FuzzyHolds'
  BY DEF DecidedHolds, runVars, ReachedHolds, AnswerHolds, ApprovedHolds, FuzzyHolds,
         Beginning, Reachable, Waiting, Decided, AwaitTask
<1> QED BY <1>1, <1>2 DEF DecidedHolds

\* Every step keeps rows and run in agreement.
LEMMA DecidedStep ==
  ASSUME Types, DecidedHolds, [Next]_vars
  PROVE  DecidedHolds'
<1>1. CASE RunStep \/ Fail \/ Restart \/ RestartFailed \/ UNCHANGED vars
  BY <1>1, StartDecided, PrepareDecided, ReadDecided, GoOnDecided, RestDecided DEF RunStep
<1>2. ASSUME NEW r \in Req, RequestStep(r)
      PROVE  DecidedHolds'
  <2>1. CASE ResolveClear(r)
    <3>1. req[r].action \in Action
      BY <2>1 DEF ResolveClear, Open, Types, TypeOK, Request
    <3> QED BY <2>1, <3>1, TaskOfAction, ClearDecided DEF ResolveClear
  <2>2. CASE ResolveCommit(r)
    BY <2>2, CommitDecided DEF ResolveCommit
  <2>3. CASE ResolveFail(r)
    BY <2>3, CommitDecided DEF ResolveFail
  <2> QED BY <1>2, <2>1, <2>2, <2>3 DEF RequestStep
<1>3. ASSUME NEW r \in Req, NEW a \in Action, ResolveAdd(r, a)
      PROVE  DecidedHolds'
  BY <1>3, AddDecided
<1>4. ASSUME NEW a \in Action, BatchResolve(a)
      PROVE  DecidedHolds'
  BY <1>4, BatchDecided
<1>5. ASSUME NEW k \in AwaitTask, BatchClear(k) \/ BatchFail(k) \/ BatchTimeout(k)
      PROVE  DecidedHolds'
  BY <1>5, ClearDecided, StatusDecided DEF BatchClear, BatchFail, BatchTimeout
<1>6. CASE Repair
  BY <1>6, LatestIs, TaskOfAction, ClearDecided DEF Repair, Types
<1> QED BY <1>1, <1>2, <1>3, <1>4, <1>5, <1>6 DEF Next

\* At the start nothing is decided.
LEMMA DecidedInit == Init => DecidedHolds
<1> SUFFICES ASSUME Init
             PROVE  DecidedHolds
  OBVIOUS
<1>1. \A a \in Action : ~Decided(a)
  BY DEF Init, Decided
<1>2. \A r \in Req : ~Open(r)
  BY DEF Init, Open, NoRequest
<1>3. RowsExclude /\ RowsFit
  BY <1>1, <1>2 DEF RowsExclude, RowsFit, Adds
<1>4. ReachedHolds /\ AnswerHolds /\ FuzzyHolds /\ ApprovedHolds
  BY DEF Init, ReachedHolds, AnswerHolds, FuzzyHolds, ApprovedHolds, Beginning, AwaitTask
<1> QED BY <1>3, <1>4 DEF DecidedHolds

\* The types hold at the start.
LEMMA InitTypes == Init => Types
<1> SUFFICES ASSUME Init
             PROVE  Types
  OBVIOUS
<1>1. paper \in Papers /\ status \in Status /\ copy \in Status /\ at \in Task
  BY DEF Init, Task, Status
<1>2. decisions \in [Action -> Nat] /\ \A a \in Action : decisions[a] <= MaxStamp
  BY MaxStampAssumption DEF Init
<1>3. req \in [Req -> Request] /\ \A r \in Req : req[r].stamp <= MaxStamp
  BY MaxStampAssumption DEF Init, NoRequest, Request
<1> QED BY <1>1, <1>2, <1>3 DEF Init, Types, TypeOK, StampsBounded, ReadsAtTask

\* Rows and run agree throughout.
LEMMA DecidedInvariant == Spec => [](Types /\ DecidedHolds)
BY InitTypes, TypeStep, DecidedInit, DecidedStep, PTL DEF Spec

\* The variables keep their types; for the status that takes that only await
\* tasks wait.
THEOREM DecisionsTypeCorrect == Spec => []TypeOK
<1>1. Types => TypeOK
  BY DEF Types
<1> QED BY <1>1, DecidedInvariant, PTL

\* What is stored was decided: by its data, or by a curator's decision that
\* stands and that nothing contradicts, whatever restarts, late requests and
\* lost tasks came between the decision and the flag in S3.
THEOREM StoredWasDecided == Spec => []StoredAsDecided
<1>1. Types /\ DecidedHolds => StoredAsDecided
  <2> SUFFICES ASSUME Types, DecidedHolds, at = "store"
               PROVE  \/ update \/ paper \cap {"auto", "hide"} # {}
                      \/ /\ Decided("hep_accept") \/ Decided("hep_accept_core")
                         /\ ~Decided("hep_reject")
    BY DEF StoredAsDecided
  <2>1. {"hep_accept", "hep_accept_core", "hep_reject"} \subseteq Exclusive \cap Action
    BY ActionIs DEF Exclusive, Answers
  <2>2. Decided("hep_accept") \/ Decided("hep_accept_core") => ~Decided("hep_reject")
    BY <2>1 DEF DecidedHolds, RowsExclude, Clash
  <2> QED BY <2>2 DEF DecidedHolds, ApprovedHolds
<1> QED BY <1>1, DecidedInvariant, PTL

\* A run that waits for a curator can be answered: it asks for approval only
\* where nobody was asked for CORE, and the other way round, so that only a
\* decision sent when nothing waited for it can be in the way.
THEOREM AnswersArePossible == Spec => []AnswerIsPossible
<1>1. Types /\ DecidedHolds => AnswerIsPossible
  <2> SUFFICES ASSUME Types, DecidedHolds, NEW k \in AwaitTask, at = k,
                      \A a \in Answers(k) : ~Decided(a) /\ Refused(a),
                      \A b \in stray \cap Exclusive : ~Decided(b)
               PROVE  FALSE
    BY DEF AnswerIsPossible
  <2>1. PICK a \in Answers(k) : TRUE
    BY DEF Answers, AwaitTask
  <2>2. a \in Action /\ TaskOf(a) = k
    BY TaskOfAnswer
  <2>3. PICK b \in Action : Decided(b) /\ Clash(a, b)
    BY <2>1 DEF Refused
  <2>4. TaskOf(b) # k
    <3>1. b # "missing_subject_fields"
      BY <2>1, <2>3, ActionIs, ClashFacts DEF Clash, SameAction, Exclusive, Answers, AwaitTask
    <3> QED BY <2>3, <3>1, TaskOfAction
  <2>5. {k, TaskOf(b)} \subseteq {"approval", "core"}
    BY <2>2, <2>3, <2>4, ClashFacts
  <2>6. b \in Exclusive
    BY <2>2, <2>3, <2>4, ClashFacts DEF Clash
  <2>7. TaskOf(b) \in reached
    BY <2>3, <2>6 DEF DecidedHolds, RowsFit, AwaitTask
  <2>8. Reachable(k) /\ Reachable(TaskOf(b))
    BY <2>7 DEF DecidedHolds, ReachedHolds
  <2> QED BY <2>4, <2>5, <2>8 DEF Reachable
<1> QED BY <1>1, DecidedInvariant, PTL

-----------------------------------------------------------------------------
(* Halted runs                                                             *)

\* A row about to be inserted is later than the rows of other tasks, decisions
\* that came out of their time aside.
StampsHold ==
  /\ \A r \in Req : ~Open(r) => req[r] = NoRequest
  /\ at # "start" => \A r \in Req : Adds(r) /\ req[r].action \notin stray =>
       \A b \in Action \ stray :
         TaskOf(b) # TaskOf(req[r].action) => decisions[b] < req[r].stamp

\* The latest decision, of those in time, is one of task k.
LatestOf(k) ==
  \E a \in Action :
    TaskOf(a) = k /\ \A b \in Action \ stray : TaskOf(b) # k => decisions[b] < decisions[a]

\* A decision that came while the run waits for it is the latest one.
WaitHolds ==
  /\ phase = "halted" => status \in {at, "running", "error"}
  /\ Waiting /\ (\E a \in Answers(at) \ stray : Decided(a)) => LatestOf(at)

DecisionsInv == Types /\ DecidedHolds /\ StampsHold /\ WaitHolds

\* Of two tasks the run came to, one is await_decision_fuzzy_match, and it has
\* its decision.
LEMMA OneTaskOpen ==
  ASSUME Types, DecidedHolds, NEW k \in reached, NEW a \in Action,
         TaskOf(a) \in reached, ~Refused(a), TaskOf(a) # k
  PROVE  k = "fuzzy" /\ reached # {"fuzzy"}
         /\ (Decided("fuzzy_match") \/ Decided("fuzzy_no_match"))
<1>1. {k, TaskOf(a)} \subseteq AwaitTask /\ Reachable(k) /\ Reachable(TaskOf(a))
  BY DEF DecidedHolds, ReachedHolds, Types, TypeOK
<1>2. "fuzzy" \in {k, TaskOf(a)}
  BY <1>1 DEF Reachable, AwaitTask
<1>3. reached # {"fuzzy"}
  OBVIOUS
<1>4. Decided("fuzzy_match") \/ Decided("fuzzy_no_match")
  BY <1>2, <1>3 DEF DecidedHolds, FuzzyHolds, Types, TypeOK
<1>5. TaskOf(a) # "fuzzy"
  <2>1. SUFFICES ASSUME TaskOf(a) = "fuzzy"
                 PROVE  FALSE
    OBVIOUS
  <2>2. a \in Answers("fuzzy")
    BY <2>1, TaskOfAction
  <2>3. {"fuzzy_match", "fuzzy_no_match"} \subseteq Answers("fuzzy") \cap Action
    BY ActionIs DEF Answers
  <2> QED BY <1>4, <2>2, <2>3 DEF Refused, Clash, SameAction
<1> QED BY <1>2, <1>3, <1>4, <1>5

\* Two rows about to be inserted answer the same task.
LEMMA OneTaskAdded ==
  ASSUME Types, DecidedHolds, NEW a \in Action, NEW b \in Action,
         {TaskOf(a), TaskOf(b)} \subseteq reached, ~Refused(a), ~Refused(b)
  PROVE  TaskOf(a) = TaskOf(b)
BY OneTaskOpen

\* What is decided while a run waits is what it waits for.
LEMMA WaitsForIt ==
  ASSUME Types, DecidedHolds, Waiting, NEW a \in Action,
         TaskOf(a) \in reached, ~Refused(a)
  PROVE  TaskOf(a) = at
<1>1. at \in reached
  BY DEF Waiting, DecidedHolds, ReachedHolds
<1>2. at = "fuzzy" => reached = {"fuzzy"}
  BY <1>1 DEF DecidedHolds, FuzzyHolds
<1> QED BY <1>1, <1>2, OneTaskOpen

\* Steps of the run and of its operators leave the latest row what it is.
LEMMA RunStamps ==
  ASSUME DecisionsInv, RunStep \/ Fail \/ Restart \/ RestartFailed \/ UNCHANGED vars
  PROVE  StampsHold' /\ WaitHolds'
<1> USE DEF RunStep, Fail, Restart, RestartFailed, vars
<1>1. UNCHANGED req
  BY DEF Start, Prepare, ReadDecision, Halt, GoOn, Store, Complete
<1>2. CASE Start
  BY <1>1, <1>2 DEF Start, DecisionsInv, StampsHold, WaitHolds, Open, Adds, Waiting, AwaitTask
<1>3. CASE Prepare
  BY <1>1, <1>3 DEF Prepare, DecisionsInv, StampsHold, WaitHolds, Open, Adds, Waiting
<1>4. UNCHANGED <<decisions, stray>> /\ at # "start" => StampsHold'
  BY <1>1 DEF DecisionsInv, StampsHold, Adds, Open
<1>5. CASE ReadDecision
  <2>1. at # "start"
    BY <1>5 DEF ReadDecision, AwaitTask
  <2>2. Waiting' => \A a \in Answers(at') : ~Decided(a)'
    BY <1>5, TaskOfAnswer, ActionAssumption DEF ReadDecision, Waiting, Decided
  <2>3. phase' = "read"
    BY <1>5 DEF ReadDecision
  <2> QED BY <1>4, <1>5, <2>1, <2>2, <2>3 DEF ReadDecision, WaitHolds
<1>6. CASE Halt
  <2>1. at \in AwaitTask /\ Waiting
    BY <1>6 DEF Halt, DecisionsInv, Types, ReadsAtTask, Waiting
  <2> QED BY <1>4, <1>6, <2>1
          DEF Halt, DecisionsInv, WaitHolds, Waiting, LatestOf, Decided, Beginning, AwaitTask
<1>7. CASE GoOn
  <2>1. at # "start"
    BY <1>7 DEF GoOn
  <2> QED BY <1>4, <1>7, <2>1 DEF GoOn, WaitHolds, Waiting
<1>8. CASE Store \/ Complete
  BY <1>4, <1>8 DEF Store, Complete, Beginning, WaitHolds, Waiting
<1>9. CASE Fail \/ RestartFailed \/ UNCHANGED vars
  BY <1>1, <1>9 DEF DecisionsInv, StampsHold, WaitHolds, Waiting, LatestOf, Decided,
                    Beginning, Adds, Open
<1>10. CASE Restart
  BY <1>1, <1>10 DEF DecisionsInv, StampsHold, WaitHolds, Waiting, Beginning, Open
<1> QED BY <1>2, <1>3, <1>5, <1>6, <1>7, <1>8, <1>9, <1>10

\* Clearing a task takes the run back, and leaves the rows in order.
LEMMA ClearStamps ==
  ASSUME DecisionsInv, NEW k \in AwaitTask, ClearTask(k),
         UNCHANGED <<status, decisions, paper, stray>>,
         UNCHANGED req \/ \E r \in Req : Open(r) /\ req' = [req EXCEPT ![r].cleared = TRUE]
  PROVE  StampsHold' /\ WaitHolds'
<1>1. \A r \in Req : req'[r].action = req[r].action /\ req'[r].stamp = req[r].stamp
                     /\ (~Open(r) => req'[r] = req[r])
  BY DEF DecisionsInv, Types, TypeOK, Request
<1>2. Beginning => at' = at
  BY DEF ClearTask, DecisionsInv, DecidedHolds, ReachedHolds
<1>3. StampsHold'
  BY <1>1, <1>2 DEF ClearTask, DecisionsInv, StampsHold, Adds, Open, Beginning
<1>4. WaitHolds'
  BY DEF ClearTask, DecisionsInv, WaitHolds, Waiting, LatestOf, Decided
<1> QED BY <1>3, <1>4

\* A row that is not committed yet is later than those that are.
LEMMA AddStamps ==
  ASSUME DecisionsInv, NEW r \in Req, NEW a \in Action, ResolveAdd(r, a)
  PROVE  StampsHold' /\ WaitHolds'
<1>1. req' = [req EXCEPT ![r] = [action |-> a, stamp |-> IF Exists(a) THEN 0 ELSE NewStamp,
                                 cleared |-> FALSE]]
  BY DEF ResolveAdd
<1>2. UNCHANGED <<status, decisions, at, phase, answer, reached>>
  BY DEF ResolveAdd, runVars
<1>3. a # NoAction
  BY ActionAssumption
<1>4. stray \subseteq stray'
  BY DEF ResolveAdd, Recorded
<1>5. /\ req'[r].action = a /\ Open(r)'
      /\ req'[r].stamp # 0 => \A b \in Action : decisions[b] < req'[r].stamp
      /\ \A o \in Req : o # r => req'[o] = req[o]
  BY <1>1, <1>3, NewStampIs DEF DecisionsInv, Types, TypeOK, Open
<1>6. StampsHold'
  BY <1>2, <1>4, <1>5 DEF DecisionsInv, StampsHold, Adds, Open
<1>7. WaitHolds'
  <2>1. phase' = "halted" => status' \in {at', "running", "error"}
    BY <1>2 DEF DecisionsInv, WaitHolds
  <2>2. ASSUME Waiting', NEW c \in Answers(at') \ stray', Decided(c)'
        PROVE  LatestOf(at)'
    <3>1. LatestOf(at)
      BY <1>2, <1>4, <2>2 DEF DecisionsInv, WaitHolds, Waiting, Decided
    <3> QED BY <1>2, <1>4, <3>1 DEF LatestOf
  <2> QED BY <2>1, <2>2 DEF WaitHolds
<1> QED BY <1>6, <1>7

\* A row that is inserted, if it is new, is the latest of its task and of all.
LEMMA RowStamps ==
  ASSUME DecisionsInv, NEW a \in Action, NEW s \in Nat,
         decisions' = [decisions EXCEPT ![a] = IF s = 0 THEN @ ELSE s],
         s # 0 => ~Refused(a), stray \subseteq stray',
         at # "start" /\ s # 0 /\ a \notin stray' =>
           /\ TaskOf(a) \in reached
           /\ \A b \in Action \ stray : TaskOf(b) # TaskOf(a) => decisions[b] < s,
         UNCHANGED runVars,
         status' \in {status, "running"},
         \A r \in Req : req'[r] = req[r] \/ req'[r] = NoRequest
  PROVE  StampsHold' /\ WaitHolds'
<1> USE DEF DecisionsInv
<1>1. \A b \in Action : decisions'[b] = IF b = a /\ s # 0 THEN s ELSE decisions[b]
  BY DEF Types, TypeOK
<1>2. \A r \in Req : Open(r)' => req'[r] = req[r] /\ Open(r)
  BY DEF Open, NoRequest
<1>3. StampsHold'
  <2>1. \A r \in Req : ~Open(r)' => req'[r] = NoRequest
    BY DEF StampsHold, Open
  <2>2. ASSUME at' # "start", NEW r \in Req, Adds(r)', req'[r].action \notin stray',
               NEW b \in Action \ stray', TaskOf(b) # TaskOf(req'[r].action)
        PROVE  decisions'[b] < req'[r].stamp
    <3>1. /\ at # "start" /\ Adds(r) /\ req'[r] = req[r] /\ req[r].action \in Action
          /\ req[r].action \notin stray /\ b \notin stray
      BY <1>2, <2>2 DEF runVars, Adds, Open, Types, TypeOK, Request
    <3>2. decisions[b] < req[r].stamp /\ TaskOf(req[r].action) \in reached
      BY <2>2, <3>1 DEF StampsHold, DecidedHolds, RowsFit
    <3>3. s # 0 => b # a
      BY <2>2, <3>1, <3>2, OneTaskAdded DEF DecidedHolds, RowsExclude
    <3> QED BY <1>1, <3>1, <3>2, <3>3
  <2> QED BY <2>1, <2>2 DEF StampsHold
<1>4. WaitHolds'
  <2>1. phase' = "halted" => status' \in {at', "running", "error"}
    BY DEF WaitHolds, runVars
  <2>2. ASSUME Waiting', NEW c \in Answers(at') \ stray', Decided(c)'
        PROVE  LatestOf(at)'
    <3>1. Waiting /\ at' = at /\ at \in AwaitTask /\ at # "start"
      BY <2>2 DEF Waiting, runVars, AwaitTask
    <3>2. c \in Answers(at) \ stray /\ c \in Action /\ TaskOf(c) = at
      BY <2>2, <3>1, TaskOfAnswer
    <3>3. CASE s # 0 /\ a \notin stray'
      <4>1. TaskOf(a) = at
        BY <3>1, <3>3, WaitsForIt
      <4>2. \A b \in Action \ stray' : TaskOf(b) # at => decisions'[b] < decisions'[a]
        BY <1>1, <3>1, <3>3, <4>1
      <4> QED BY <3>1, <4>1, <4>2 DEF LatestOf
    <3>4. CASE s = 0 \/ a \in stray'
      <4>1. Decided(c)
        BY <1>1, <2>2, <3>2, <3>4 DEF Decided
      <4>2. PICK d \in Action : TaskOf(d) = at
              /\ \A b \in Action \ stray : TaskOf(b) # at => decisions[b] < decisions[d]
        BY <3>1, <3>2, <4>1 DEF WaitHolds, LatestOf
      <4>3. s # 0 => decisions[a] = 0
        BY ClashFacts DEF Refused, Decided
      <4>4. decisions[d] <= decisions'[d]
        BY <1>1, <4>3 DEF Types, TypeOK
      <4>5. \A b \in Action \ stray' : decisions'[b] = decisions[b]
        BY <1>1, <3>4
      <4>6. decisions \in [Action -> Nat] /\ decisions'[d] \in Nat
        BY <1>1 DEF Types, TypeOK
      <4>7. \A b \in Action \ stray' : TaskOf(b) # at => decisions'[b] < decisions'[d]
        BY <4>2, <4>4, <4>5, <4>6
      <4> QED BY <3>1, <4>2, <4>7 DEF LatestOf
    <3> QED BY <3>3, <3>4
  <2> QED BY <2>1, <2>2 DEF WaitHolds, runVars
<1> QED BY <1>3, <1>4

\* A row that commits while the run waits is the latest.
LEMMA CommitStamps ==
  ASSUME DecisionsInv, NEW r \in Req, Open(r),
         decisions' = Committed(r), req' = [req EXCEPT ![r] = NoRequest],
         UNCHANGED <<runVars, stray>>, status' \in {status, "running"}
  PROVE  StampsHold' /\ WaitHolds'
<1>1. req[r].action \in Action /\ req[r].stamp \in Nat
  BY DEF Open, DecisionsInv, Types, TypeOK, Request
<1>2. /\ req[r].stamp # 0 => ~Refused(req[r].action)
      /\ at # "start" /\ req[r].stamp # 0 /\ req[r].action \notin stray =>
           /\ TaskOf(req[r].action) \in reached
           /\ \A b \in Action \ stray :
                TaskOf(b) # TaskOf(req[r].action) => decisions[b] < req[r].stamp
  BY DEF DecisionsInv, DecidedHolds, RowsExclude, RowsFit, StampsHold, Adds
<1>3. \A o \in Req : req'[o] = req[o] \/ req'[o] = NoRequest
  BY DEF DecisionsInv, Types, TypeOK
<1>4. decisions' = [decisions EXCEPT ![req[r].action] = IF req[r].stamp = 0 THEN @ ELSE req[r].stamp]
  BY DEF Committed
<1> QED BY <1>1, <1>2, <1>3, <1>4, RowStamps

\* A row of a batch request is the latest when it commits.
LEMMA BatchStamps ==
  ASSUME DecisionsInv, NEW a \in Action, BatchResolve(a)
  PROVE  StampsHold' /\ WaitHolds'
<1>1. NewStamp \in Nat /\ NewStamp # 0 /\ \A b \in Action : decisions[b] < NewStamp
  BY NewStampIs DEF DecisionsInv, Types
<1>2. ~Refused(a) /\ stray \subseteq stray' /\ (a \notin stray' => TaskOf(a) \in reached)
  <2>1. ~Refused(a)
    BY DEF BatchResolve
  <2>2. ~Exists(a)
    BY <2>1, ClashFacts DEF Exists, Refused
  <2> QED BY <2>1, <2>2, TaskOfAction
          DEF BatchResolve, Recorded, Timely, DecisionsInv, DecidedHolds, ReachedHolds
<1>3. decisions' = [decisions EXCEPT ![a] = IF NewStamp = 0 THEN @ ELSE NewStamp]
  BY <1>1 DEF BatchResolve
<1> QED BY <1>1, <1>2, <1>3, RowStamps DEF BatchResolve

\* Every step keeps the order of the rows to the order of the tasks.
LEMMA StampsStep ==
  ASSUME DecisionsInv, [Next]_vars
  PROVE  StampsHold' /\ WaitHolds'
<1>1. CASE RunStep \/ Fail \/ Restart \/ RestartFailed \/ UNCHANGED vars
  BY <1>1, RunStamps
<1>2. ASSUME NEW r \in Req, RequestStep(r)
      PROVE  StampsHold' /\ WaitHolds'
  <2>1. CASE ResolveClear(r)
    <3>1. req[r].action \in Action
      BY <2>1 DEF ResolveClear, Open, DecisionsInv, Types, TypeOK, Request
    <3> QED BY <2>1, <3>1, TaskOfAction, ClearStamps DEF ResolveClear
  <2>2. CASE ResolveCommit(r)
    BY <2>2, CommitStamps DEF ResolveCommit
  <2>3. CASE ResolveFail(r)
    BY <2>3, CommitStamps DEF ResolveFail
  <2> QED BY <1>2, <2>1, <2>2, <2>3 DEF RequestStep
<1>3. ASSUME NEW r \in Req, NEW a \in Action, ResolveAdd(r, a)
      PROVE  StampsHold' /\ WaitHolds'
  BY <1>3, AddStamps
<1>4. ASSUME NEW a \in Action, BatchResolve(a)
      PROVE  StampsHold' /\ WaitHolds'
  BY <1>4, BatchStamps
<1>5. ASSUME NEW k \in AwaitTask, BatchClear(k) \/ BatchTimeout(k)
      PROVE  StampsHold' /\ WaitHolds'
  BY <1>5, ClearStamps DEF BatchClear, BatchTimeout, DecisionsInv, StampsHold, WaitHolds,
     runVars, Waiting, LatestOf, Decided, Beginning, Adds, Open
<1>6. ASSUME NEW k \in AwaitTask, BatchFail(k)
      PROVE  StampsHold' /\ WaitHolds'
  BY <1>6 DEF BatchFail, DecisionsInv, StampsHold, WaitHolds,
     runVars, Waiting, LatestOf, Decided, Beginning, Adds, Open
<1>7. CASE Repair
  BY <1>7, LatestIs, TaskOfAction, ClearStamps DEF Repair, DecisionsInv, Types
<1> QED BY <1>1, <1>2, <1>3, <1>4, <1>5, <1>6, <1>7 DEF Next

\* The invariant holds throughout.
LEMMA DecisionsInvariant == Spec => []DecisionsInv
<1>1. Init => DecisionsInv
  <2> SUFFICES ASSUME Init
               PROVE  DecisionsInv
    OBVIOUS
  <2>1. StampsHold /\ WaitHolds
    BY DEF Init, StampsHold, WaitHolds, Beginning, Waiting, AwaitTask, NoRequest
  <2> QED BY <2>1, InitTypes, DecidedInit DEF DecisionsInv
<1>2. DecisionsInv /\ [Next]_vars => DecisionsInv'
  BY TypeStep, DecidedStep, StampsStep DEF DecisionsInv
<1> QED BY <1>1, <1>2, PTL DEF Spec

\* A workflow halted beside its decision shows that it waits for it, or that it
\* failed, or is one that restart_resolved_workflows clears at the right task,
\* the one of its latest decision.
THEOREM StoppedRunsAreRepairable == Spec => []StoppedIsRepairable
<1>1. DecisionsInv => StoppedIsRepairable
  <2> SUFFICES ASSUME DecisionsInv, NEW k \in AwaitTask, Stopped(k),
                      Latest \notin stray, NEW c \in Answers(k) \ stray, Decided(c)
               PROVE  status \in {k, "running", "error"} /\ TaskOf(Latest) = k
    <3>1. DecisionsInv => \A k \in AwaitTask : Stopped(k) => status \in {k, "running", "error"}
      BY DEF DecisionsInv, WaitHolds, Stopped
    <3> QED BY <3>1 DEF StoppedIsRepairable
  <2>1. at = k /\ Waiting /\ LatestOf(k) /\ status \in {k, "running", "error"}
    BY DEF DecisionsInv, WaitHolds, Stopped, Waiting
  <2>2. PICK a \in Action : TaskOf(a) = k
          /\ \A b \in Action \ stray : TaskOf(b) # k => decisions[b] < decisions[a]
    BY <2>1 DEF LatestOf
  <2>3. Latest \in Action /\ decisions[a] <= decisions[Latest]
    BY LatestIs DEF DecisionsInv, Types
  <2>4. decisions[a] \in Nat /\ decisions[Latest] \in Nat
    BY <2>3 DEF DecisionsInv, Types, TypeOK
  <2> QED BY <2>1, <2>2, <2>3, <2>4
<1> QED BY <1>1, DecisionsInvariant, PTL
=============================================================================
