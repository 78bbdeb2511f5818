---------------------------- MODULE HepDecisions ----------------------------
(***************************************************************************)
(* How a curator's decision reaches a literature workflow: the decision    *)
(* rows and the status of the backoffice, the run of hep_create_dag that   *)
(* stops at an await_* task, and the requests and Celery tasks that record *)
(* a decision and clear the Airflow task that waits for it.                *)
(*                                                                         *)
(* Sources: backoffice/backoffice/hep/utils.py, hep/api/views.py,          *)
(* hep/tasks.py, management/maintenance.py, and the await_* tasks and      *)
(* their neighbours in workflows/dags/literature/hep_create_dag.py.        *)
(*                                                                         *)
(* A request is a database transaction (ATOMIC_REQUESTS): what it writes   *)
(* is seen when it ends.  Airflow knows nothing of it.  A run reads the    *)
(* decisions in one request and acts on them in a later one.  What runs of *)
(* one paper do to each other is in HepWorkflows.                          *)
(***************************************************************************)
EXTENDS Naturals

CONSTANTS
  Req,          \* concurrent resolve requests
  Endpoints,    \* the endpoints curators use, out of "resolve" and "batch"
  NoAction,     \* no decision
  Stale,        \* the decisions that pages and lists send though they are out
                \* of date: all, or some for model checking
  RepairTypes,  \* workflow types that restart_resolved_workflows is called for
  TimeLimit,    \* whether a Celery task can run into its time limit
  MaxStamp      \* bound on creation times, for model checking only

ASSUME TimeLimitAssumption == TimeLimit \in BOOLEAN
ASSUME MaxStampAssumption == MaxStamp \in Nat
ASSUME EndpointAssumption == Endpoints \subseteq {"resolve", "batch"}

\* The await tasks, named for what they wait for, and the decisions that
\* restart each: HepResolutions and its labels.  A fuzzy_match without a
\* value, "none of them", is fuzzy_no_match here.
AwaitTask == {"fuzzy", "merge", "approval", "core"}

Answers(k) ==
  CASE k = "fuzzy"    -> {"fuzzy_match", "fuzzy_no_match"}
    [] k = "merge"    -> {"merge_approve"}
    [] k = "approval" -> {"hep_accept", "hep_accept_core", "hep_reject"}
    [] k = "core"     -> {"core_selection_accept", "core_selection_accept_core"}

Action == (UNION {Answers(k) : k \in AwaitTask}) \cup {"missing_subject_fields"}

ASSUME ActionAssumption == NoAction \notin Action

TaskOf(a) == IF a = "missing_subject_fields" THEN "approval"
             ELSE CHOOSE k \in AwaitTask : a \in Answers(k)

\* HEP_EXCLUSIVE_RESOLUTIONS: one row of these per workflow.
Exclusive == Answers("approval") \cup Answers("core")

VARIABLES
  status,       \* HepWorkflow.status; an await task's name when it waits for it
  decisions,    \* HepDecision._created_at of each action, 0 without a row
  at,           \* the task the Airflow run is at
  phase,        \* of that task: to do, decisions read, halted, failed
  answer,       \* the decision the await task has read
  reached,      \* the await tasks the run has come to
  approved,     \* the flag "approved" of the run, in S3
  update,       \* the flag "is-update"
  copy,         \* the status in the run's copy of the workflow, in S3
  paper,        \* what the tasks make of the paper's data, see Papers
  stray,        \* history: decisions recorded, or about to be, since the run last
                \* started, while the workflow did not wait for them
  req,          \* the resolve requests under way
  inbox         \* batch_resolve_workflows tasks: the task each will clear

vars == <<status, decisions, at, phase, answer, reached, approved, update,
          copy, paper, stray, req, inbox>>
runVars == <<at, phase, answer, reached, approved, update, copy>>

Task == AwaitTask \cup {"start", "prepare", "store", "complete", "end"}
Status == AwaitTask \cup {"processing", "running", "error", "completed"}

\* A submission; from a publisher; auto-approved, with a CORE category first or without; rejected
\* without a curator; to be kept in a hidden collection if it is rejected.
Papers == {{}, {"publisher"}, {"hide"}, {"submission"}, {"reject"}, {"reject", "hide"},
           {"auto"}, {"auto", "first_core"}}

NoRequest == [action |-> NoAction, stamp |-> 0, cleared |-> FALSE]
Request == [action : Action \cup {NoAction}, stamp : Nat, cleared : BOOLEAN]

TypeOK ==
  /\ status \in Status
  /\ decisions \in [Action -> Nat]
  /\ at \in Task
  /\ phase \in {"todo", "read", "halted", "failed"}
  /\ answer \in Action \cup {NoAction}
  /\ reached \subseteq AwaitTask
  /\ approved \in BOOLEAN
  /\ update \in BOOLEAN
  /\ copy \in Status
  /\ paper \in Papers
  /\ stray \subseteq Action
  /\ req \in [Req -> Request]
  /\ inbox \subseteq AwaitTask

Init ==
  /\ status = "processing"
  /\ decisions = [a \in Action |-> 0]
  /\ at = "start" /\ phase = "todo"
  /\ answer = NoAction
  /\ reached = {}
  /\ approved = FALSE /\ update = FALSE
  /\ copy = status
  /\ paper \in Papers
  /\ stray = {}
  /\ req = [r \in Req |-> NoRequest]
  /\ inbox = {}

-----------------------------------------------------------------------------
(* Decision rows                                                           *)

Decided(a) == decisions[a] # 0
Open(r) == req[r].action # NoAction
Adds(r) == Open(r) /\ req[r].stamp # 0

\* The two unique constraints: one row per action, one exclusive one.
SameAction(a, b) == a = b \/ {a, b} \subseteq Answers("fuzzy")
ClashOnAction(a, b) == SameAction(a, b)     \* mutant: no exclusive decisions
Clash(a, b) == SameAction(a, b) \/ {a, b} \subseteq Exclusive
Refused(a) == \E b \in Action : Decided(b) /\ Clash(a, b)

\* add_hep_decision finds a row of the same action.
Exists(a) == \E b \in Action : Decided(b) /\ SameAction(a, b)

\* PostgreSQL lets an insert wait for the end of a transaction that has
\* inserted a row it clashes with.
MustWait(a) == \E r \in Req : Open(r) /\ Clash(a, req[r].action)

\* The creation time of a new row: later than any other.
NewStamp ==
  LET used == {decisions[a] : a \in Action} \cup {req[r].stamp : r \in Req}
  IN  1 + CHOOSE n \in used : \A m \in used : m <= n

\* The latest row, which restart_resolved_workflows goes by.
Earliest ==                                 \* mutant: order_by without the minus
  CHOOSE a \in Action : Decided(a) /\ \A b \in Action : Decided(b) => decisions[a] <= decisions[b]
Latest == CHOOSE a \in Action : \A b \in Action : decisions[b] <= decisions[a]

-----------------------------------------------------------------------------
(* The run                                                                 *)

\* Where the run goes once it knows whether the paper is an update.  The rows
\* auto_accept_core and auto_reject it may add are left out, as no task waits
\* for them; the request that adds one sets the status to running, and
\* save_workflow overwrites the status with that of the copy.
Merge ==
  /\ at' \in {"merge", "store"}
  /\ approved' = (at' = "store")
  /\ status' = copy

AutoAccept ==
  /\ at' = "store"
  /\ approved' = TRUE
  /\ status' = IF "first_core" \in paper THEN "running" ELSE status

\* As a known submission, a rejected or old paper, or one that is not relevant.
AutoReject ==
  /\ status' = "running"
  /\ \/ at' = "complete" /\ approved' = approved
     \/ /\ "reject" \in paper
        /\ approved' = (approved \/ "hide" \in paper)
        /\ at' = IF approved' THEN "store" ELSE "complete"

AskApproval ==
  /\ at' = "approval"
  /\ approved' = approved
  /\ status' = copy

RouteAway(isUpdate) ==                      \* mutant: a branch to no task
  /\ at' = IF isUpdate THEN "store" ELSE "reject"
  /\ approved' = isUpdate
  /\ status' = copy
Route(isUpdate) ==
  \/ isUpdate /\ "submission" \notin paper /\ Merge
  \/ isUpdate /\ "submission" \in paper /\ AutoReject
  \/ ~isUpdate /\ "auto" \in paper /\ AutoAccept
  \/ ~isUpdate /\ "reject" \in paper /\ AutoReject
  \/ ~isUpdate /\ paper \cap {"auto", "reject"} = {} /\ AskApproval

\* restore_and_get_workflow_data .. set_workflow_status_to_running: decisions
\* and flags are cleared, but for decisions that have yet to be committed.
Start ==
  /\ at = "start" /\ phase = "todo"
  /\ status # "completed"
  /\ decisions' = [a \in Action |-> 0]
  /\ status' = "running"
  /\ approved' = FALSE /\ update' = FALSE
  /\ copy' = "running"
  /\ at' = "prepare"
  /\ stray' = {req[r].action : r \in {q \in Req : Adds(q)}}
  /\ UNCHANGED <<phase, answer, reached, paper, req, inbox>>

\* check_for_exact_matches and check_for_fuzzy_matches: an exact match, fuzzy
\* ones or none are found.
Prepare ==
  /\ at = "prepare" /\ phase = "todo"
  /\ \/ \E isUpdate \in BOOLEAN : update' = isUpdate /\ Route(isUpdate)
     \/ at' = "fuzzy" /\ UNCHANGED <<status, approved, update>>
  /\ reached' = {at'} \cap AwaitTask
  /\ UNCHANGED <<decisions, phase, answer, copy, paper, stray, req, inbox>>

\* An await task gets the workflow and looks for a decision (get_decision).
\* With a decision, that becomes the copy: not for a fuzzy_match without value.
ReadDecision ==
  /\ at \in AwaitTask /\ phase = "todo"
  /\ phase' = "read"
  /\ \/ \E a \in Answers(at) : Decided(a) /\ answer' = a
     \/ (\A a \in Answers(at) : ~Decided(a)) /\ answer' = NoAction
  /\ copy' = IF answer' \in {NoAction, "fuzzy_no_match"} THEN copy ELSE status
  /\ UNCHANGED <<status, decisions, at, reached, approved, update, paper, stray, req, inbox>>

\* No decision: set the status, skip the rest of the run.
Halt ==
  /\ phase = "read" /\ answer = NoAction
  /\ status' = at
  /\ phase' = "halted"
  /\ UNCHANGED <<decisions, at, answer, reached, approved, update, copy, paper, stray, req, inbox>>

\* A decision: the run goes on.  A rejected paper may still be stored, in a
\* hidden collection (should_replace_collection_to_hidden).
GoOn ==
  /\ phase = "read" /\ answer # NoAction
  /\ \/ /\ at = "fuzzy"
        /\ update' = (update \/ answer = "fuzzy_match")
        /\ Route(update')
     \/ /\ at = "merge"
        /\ at' = "store" /\ approved' = TRUE /\ UNCHANGED <<status, update>>
     \/ /\ at = "approval"
        /\ approved' = (answer # "hep_reject" \/ "hide" \in paper)
        /\ at' = IF approved' THEN "store" ELSE "complete"
        /\ UNCHANGED <<status, update>>
     \/ /\ at = "core"
        /\ at' = "complete" /\ UNCHANGED <<status, approved, update>>
  /\ phase' = "todo"
  /\ answer' = NoAction
  /\ reached' = reached \cup ({at'} \cap AwaitTask)
  /\ UNCHANGED <<decisions, copy, paper, stray, req, inbox>>

\* store_record .. should_proceed_to_core_selection, save_workflow.
AnyNewPaper == ~update                      \* mutant: approved ones, too
ToCoreSelection == "auto" \in paper /\ ~update

Store ==
  /\ at = "store" /\ phase = "todo"
  /\ \/ ToCoreSelection /\ "first_core" \notin paper /\ at' = "core" /\ status' = copy
     \/ at' = "complete" /\ UNCHANGED status
  /\ reached' = reached \cup ({at'} \cap AwaitTask)
  /\ UNCHANGED <<decisions, phase, answer, approved, update, copy, paper, stray, req, inbox>>

\* save_and_complete_workflow
Complete ==
  /\ at = "complete" /\ phase = "todo"
  /\ status' = "completed"
  /\ at' = "end"
  /\ UNCHANGED <<decisions, phase, answer, reached, approved, update, copy, paper, stray, req, inbox>>

\* A task fails; the failure callback sets the status.
Fail ==
  /\ at # "end" /\ phase \in {"todo", "read"}
  /\ phase' = "failed"
  /\ answer' = NoAction
  /\ status' = "error"
  /\ UNCHANGED <<decisions, at, reached, approved, update, copy, paper, stray, req, inbox>>

\* clear_airflow_dag_tasks: the task and those after it run again, unless the
\* run has not come to it.
ClearFailed(k) ==                           \* mutant: only_failed
  /\ k \in reached
  /\ phase' = IF phase = "failed" THEN "todo" ELSE phase
  /\ UNCHANGED <<at, answer, reached, approved, update, copy>>
ClearTask(k) ==
  /\ at' = IF k \in reached THEN k ELSE at
  /\ phase' = IF k \in reached THEN "todo" ELSE phase
  /\ answer' = IF k \in reached THEN NoAction ELSE answer
  /\ UNCHANGED <<reached, approved, update, copy>>

-----------------------------------------------------------------------------
(* Curators                                                                *)

\* Nobody looks at the status when a decision is made: a page or a list shows
\* what the workflow waited for when it was loaded.
Timely(a) == status = TaskOf(a)
MayDecide(a) == Timely(a) \/ a \in Stale
Recorded(a) == IF Timely(a) \/ Exists(a) THEN stray ELSE stray \cup {a}

\* resolve_workflow: the decision is inserted, unless it is there already.
ResolveAdd(r, a) ==
  /\ "resolve" \in Endpoints
  /\ ~Open(r)
  /\ MayDecide(a)
  /\ ~MustWait(a)
  /\ NewStamp <= MaxStamp
  /\ Refused(a) => Exists(a)
  /\ req' = [req EXCEPT ![r] =
       [action |-> a, stamp |-> IF Exists(a) THEN 0 ELSE NewStamp, cleared |-> FALSE]]
  /\ stray' = Recorded(a)
  /\ UNCHANGED <<status, decisions, runVars, paper, inbox>>

\* The rows the transaction of r leaves behind when it commits.
Committed(r) ==
  [decisions EXCEPT ![req[r].action] = IF req[r].stamp = 0 THEN @ ELSE req[r].stamp]

\* resolve_workflow: the Airflow task is cleared ...
ResolveClear(r) ==
  /\ Open(r) /\ ~req[r].cleared
  /\ ClearTask(TaskOf(req[r].action))
  /\ req' = [req EXCEPT ![r].cleared = TRUE]
  /\ UNCHANGED <<status, decisions, paper, stray, inbox>>

\* ... then the status is saved, and the request ends.
ResolveCommit(r) ==
  /\ Open(r) /\ req[r].cleared
  /\ decisions' = Committed(r)
  /\ status' = "running"
  /\ req' = [req EXCEPT ![r] = NoRequest]
  /\ UNCHANGED <<runVars, paper, stray, inbox>>

\* Airflow does not answer: the view returns an error response, and what was
\* written is committed.
ResolveFail(r) ==
  /\ Open(r) /\ ~req[r].cleared
  /\ decisions' = Committed(r)
  /\ req' = [req EXCEPT ![r] = NoRequest]
  /\ UNCHANGED <<status, runVars, paper, stray, inbox>>

\* batch_resolve: decision and status are committed, and only then is the
\* Celery task sent.  A clash is logged, and the workflow skipped.
BatchResolve(a) ==
  /\ "batch" \in Endpoints
  /\ MayDecide(a)
  /\ ~MustWait(a)
  /\ NewStamp <= MaxStamp
  /\ ~Refused(a)
  /\ decisions' = [decisions EXCEPT ![a] = NewStamp]
  /\ status' = "running"
  /\ inbox' = inbox \cup {TaskOf(a)}
  /\ stray' = Recorded(a)
  /\ UNCHANGED <<runVars, paper, req>>

\* batch_resolve_workflows
BatchClear(k) ==
  /\ k \in inbox
  /\ inbox' = inbox \ {k}
  /\ ClearTask(k)
  /\ UNCHANGED <<status, decisions, paper, stray, req>>

\* Clearing fails: the workflow is marked as failed.
BatchFail(k) ==
  /\ k \in inbox
  /\ inbox' = inbox \ {k}
  /\ status' = "error"
  /\ UNCHANGED <<decisions, runVars, paper, stray, req>>

\* SoftTimeLimitExceeded is raised again: the task ends without a trace.
BatchTimeout(k) ==
  /\ TimeLimit
  /\ k \in inbox
  /\ inbox' = inbox \ {k}
  /\ UNCHANGED <<status, decisions, runVars, paper, stray, req>>

\* restart: the whole run is cleared.
Restart ==
  /\ status # "completed"
  /\ at' = "start" /\ phase' = "todo" /\ answer' = NoAction
  /\ reached' = {}
  /\ status' = "processing"
  /\ UNCHANGED <<decisions, approved, update, copy, paper, stray, req, inbox>>

\* restart with restart_current_task: the failed task is cleared, if any.
RestartFailed ==
  /\ status = "error"
  /\ phase' = IF phase = "failed" THEN "todo" ELSE phase
  /\ status' = "running"
  /\ UNCHANGED <<decisions, at, answer, reached, approved, update, copy, paper, stray, req, inbox>>

\* check_is_update makes the workflow an update; restoring it undoes that.
WorkflowType ==
  IF "submission" \in paper THEN "HEP_SUBMISSION"
  ELSE IF "publisher" \in paper
    THEN IF update THEN "HEP_PUBLISHER_UPDATE" ELSE "HEP_PUBLISHER_CREATE"
    ELSE IF update THEN "HEP_UPDATE" ELSE "HEP_CREATE"

\* restart_resolved_workflows, an operator's command, for some types only: by
\* default for HEP_CREATE.
Repair ==
  /\ status = "running"
  /\ WorkflowType \in RepairTypes
  /\ \E a \in Action : Decided(a)
  /\ ClearTask(TaskOf(Latest))
  /\ UNCHANGED <<status, decisions, paper, stray, req, inbox>>

-----------------------------------------------------------------------------

RunStep == Start \/ Prepare \/ ReadDecision \/ Halt \/ GoOn \/ Store \/ Complete

RequestStep(r) == ResolveClear(r) \/ ResolveCommit(r) \/ ResolveFail(r)

Next ==
  \/ RunStep \/ Fail
  \/ \E r \in Req : RequestStep(r) \/ \E a \in Action : ResolveAdd(r, a)
  \/ \E a \in Action : BatchResolve(a)
  \/ \E k \in AwaitTask : BatchClear(k) \/ BatchFail(k) \/ BatchTimeout(k)
  \/ Restart \/ RestartFailed \/ Repair

Spec == Init /\ [][Next]_vars

\* Airflow schedules a run that can go on, a request ends, Celery runs its
\* tasks.  No curator or operator has to do anything.
FairSpec ==
  /\ Spec
  /\ WF_vars(RunStep)
  /\ \A r \in Req : WF_vars(RequestStep(r))
  /\ \A k \in AwaitTask : WF_vars(BatchClear(k) \/ BatchFail(k))

-----------------------------------------------------------------------------
(* Properties                                                              *)

\* The run has stopped at k though the decision it waits for is recorded.
Stopped(k) == at = k /\ phase = "halted" /\ \E a \in Answers(k) : Decided(a)

\* Nobody is about to clear k.
NobodyClears(k) ==
  /\ k \notin inbox
  /\ \A r \in Req : Open(r) => TaskOf(req[r].action) # k

\* A decision taken in a batch gets the run that waits for it going, or the
\* workflow shows that this failed: its Celery task comes after the commit.
BatchResumes ==
  \A k \in AwaitTask :
    Stopped(k) /\ k \in inbox ~> ~Stopped(k) \/ status \in {k, "error"}

\* A decision restarts the task that waits for it: a workflow is not left
\* halted beside its decision and shown as running.
DecisionResumes ==
  \A k \in AwaitTask : Stopped(k) /\ NobodyClears(k) => status \in {k, "error"}

\* A workflow halted beside its decision can be found: it still shows that it
\* waits for the decision, so that resolving it again clears the task; or it
\* is marked as failed; or it shows as running, and then, when it is of a type
\* that restart_resolved_workflows is called for, the command clears the task it
\* is halted at.  It may clear another when a decision came out of its time.
StoppedIsRepairable ==
  \A k \in AwaitTask : Stopped(k) =>
    \/ status \in {k, "error"}
    \/ /\ status = "running"
       /\ \/ WorkflowType \notin RepairTypes
          \/ TaskOf(Latest) = k
          \/ Latest \in stray \/ {a \in Answers(k) : Decided(a)} \subseteq stray

\* A record is stored because a curator accepted it and nobody rejected it, or
\* because its data alone decides; the flag in S3 and the decisions in the
\* database agree on it, through restarts and requests that are too late.
StoredAsDecided ==
  at = "store" /\ phase = "todo" =>
    \/ update \/ paper \cap {"auto", "hide"} # {}
    \/ /\ Decided("hep_accept") \/ Decided("hep_accept_core")
       /\ ~Decided("hep_reject")

\* A run that waits for a curator can be answered: no other exclusive decision
\* stands in the way, unless one was recorded while nothing waited for it.
AnswerIsPossible ==
  \A k \in AwaitTask : at = k /\ phase = "halted" =>
    \/ \E a \in Answers(k) : Decided(a) \/ ~Refused(a)
    \/ \E b \in stray \cap Exclusive : Decided(b)
=============================================================================
