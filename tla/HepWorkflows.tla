---------------------------- MODULE HepWorkflows ----------------------------
(***************************************************************************)
(* The literature workflows of one paper: several harvests and submissions *)
(* with the same arXiv number or DOI, each a row of the backoffice and an  *)
(* Airflow run of hep_create_dag.  They must not be processed side by      *)
(* side.  No lock does that: each run publishes its status, searches the   *)
(* OpenSearch index for the others, and discards, blocks or restarts them. *)
(*                                                                         *)
(* Sources: workflows/dags/literature/hep_create_dag.py (the tasks) and    *)
(* backoffice/backoffice/hep/api/views.py (the requests they make).  A     *)
(* request is one step, except a restart, whose check of the status, call  *)
(* of Airflow and save are apart; so is each task between two requests.    *)
(* What a curator decides, and how the decision reaches the waiting run,   *)
(* is in HepDecisions.                                                     *)
(***************************************************************************)
EXTENDS Naturals, FiniteSets

CONSTANTS
  Wf,           \* the workflows of the paper
  Source,       \* acquisition sources: arXiv, a publisher, a submitter
  SourceOf,     \* the acquisition source of each workflow
  Submission,   \* the workflows that are user submissions
  Curator,      \* who else asks for restarts
  NoWf,         \* no workflow
  Faults        \* what may go wrong around the code, see Fault

Fault == {"index_lag",      \* a search does not see the latest statuses
          "late_save",      \* a restart saves its status after the run began
          "search_down"}    \* the backoffice's own search fails

ASSUME SourceAssumption == SourceOf \in [Wf -> Source]
ASSUME SubmissionAssumption == Submission \subseteq Wf
ASSUME FaultAssumption == Faults \subseteq Fault
ASSUME WfAssumption == IsFiniteSet(Wf) /\ NoWf \notin Wf /\ Curator \notin Wf

VARIABLES
  status,       \* HepWorkflow.status, "none" before the row exists
  created,      \* HepWorkflow._created_at, 0 before the row exists
  discarded,    \* workflows with a decision "discard"
  indexed,      \* the status of each workflow in the index
  pc,           \* the task the Airflow run is at
  failedAt,     \* the task a failed run failed at, otherwise "none"
  found,        \* what the run's last search found and it still has to handle
  restart,      \* the restart request of each run, and of a curator
  inbox,        \* workflows that a batch_resolve_workflows task has to clear
  saving,       \* workflows whose resolve request has yet to save the status
  late          \* history: workflows that a decision set going after they had
                \* ended, and that were not restarted since

vars == <<status, created, discarded, indexed, pc, failedAt, found, restart,
          inbox, saving, late>>
decisions == <<inbox, saving, late>>

\* The statuses a search filters on: RUNNING_STATUSES of
\* workflows/plugins/include/utils/constants.py, all approval_* and
\* missing_subject_fields as "waiting", all error* as "error".
Status == {"none", "processing", "running", "waiting", "error", "blocked", "completed"}
RunningWithoutErrors == {"running", "waiting"}  \* mutant: errors no longer block
RunningStatuses == {"running", "waiting", "error"}

\* Tasks that can fail, and those that are the start of one.
TaskStart == {"restore", "flag", "match", "check", "work", "next"}
Task == TaskStart \cup {"discard", "decide", "wake", "waking", "block"}
Pc == Task \cup {"none", "queued", "lost", "halted", "failed", "done"}

\* A restart request: the workflow it is about, and how far it is.
Request == [on : Wf \cup {NoWf}, at : {"answered", "checked", "cleared", "refused"}]
Answered == [on |-> NoWf, at |-> "answered"]

TypeOK ==
  /\ status \in [Wf -> Status]
  /\ created \in [Wf -> Nat]
  /\ discarded \subseteq Wf
  /\ indexed \in [Wf -> Status]
  /\ pc \in [Wf -> Pc]
  /\ failedAt \in [Wf -> TaskStart \cup {"none"}]
  /\ found \in [Wf -> SUBSET Wf]
  /\ restart \in [Wf \cup {Curator} -> Request]
  /\ inbox \subseteq Wf /\ saving \subseteq Wf /\ late \subseteq Wf

Init ==
  /\ status = [w \in Wf |-> "none"]
  /\ created = [w \in Wf |-> 0]
  /\ discarded = {}
  /\ indexed = [w \in Wf |-> "none"]
  /\ pc = [w \in Wf |-> "none"]
  /\ failedAt = [w \in Wf |-> "none"]
  /\ found = [w \in Wf |-> {}]
  /\ restart = [r \in Wf \cup {Curator} |-> Answered]
  /\ inbox = {} /\ saving = {} /\ late = {}

-----------------------------------------------------------------------------
(* Searching                                                               *)

\* The status of v that a search sees.
Seen(v) == IF "index_lag" \in Faults THEN indexed[v] ELSE status[v]

\* opensearch.find_matching_workflows: the other workflows of the paper.
Matching(w, statuses) == {v \in Wf \ {w} : Seen(v) \in statuses}

\* The oldest of the matches, by _created_at.
Oldest(matches) == CHOOSE v \in matches : \A u \in matches : created[v] <= created[u]

\* The signal processor's write reaches the searches.
Refresh(w) ==
  /\ "index_lag" \in Faults
  /\ indexed[w] # status[w]
  /\ indexed' = [indexed EXCEPT ![w] = status[w]]
  /\ UNCHANGED <<status, created, discarded, pc, failedAt, found, restart, decisions>>

-----------------------------------------------------------------------------
(* Creating a workflow and triggering its run                              *)

\* is_another_hep_submission_running, which ignores a search that fails.
AnotherSubmission(w) ==
  Matching(w, Status \ {"none", "completed"}) \cap Submission # {}

\* HepWorkflowViewSet.create: 409 for a submission beside another one.
Create(w) ==
  /\ status[w] = "none"
  /\ w \in Submission /\ AnotherSubmission(w) => "search_down" \in Faults
  /\ status' = [status EXCEPT ![w] = "processing"]
  /\ created' = [created EXCEPT ![w] = 1 + Cardinality({v \in Wf : created[v] # 0})]
  /\ pc' = [pc EXCEPT ![w] = "queued"]
  /\ UNCHANGED <<discarded, indexed, failedAt, found, restart, decisions>>

\* trigger_hep_workflow_initialization: the run begins, or the task gives up
\* after its retries and the workflow is left without a run.
Trigger(w) ==
  /\ pc[w] = "queued"
  /\ \E start \in {"restore", "lost"} : pc' = [pc EXCEPT ![w] = start]
  /\ UNCHANGED <<status, created, discarded, indexed, failedAt, found, restart, decisions>>

-----------------------------------------------------------------------------
(* The tasks of a run                                                      *)

\* restore_and_get_workflow_data .. validate_record: the restore request
\* refuses a completed workflow, and deletes the decisions of any other.
Restore(w) ==
  /\ pc[w] = "restore"
  /\ status[w] # "completed"
  /\ discarded' = discarded \ {w}
  /\ pc' = [pc EXCEPT ![w] = "flag"]
  /\ UNCHANGED <<status, created, indexed, failedAt, found, restart, decisions>>

\* set_workflow_status_to_running
FlagLate(w) ==                               \* mutant: searched before it shows
  /\ pc[w] = "flag"
  /\ pc' = [pc EXCEPT ![w] = "match"]
  /\ UNCHANGED <<status, created, discarded, indexed, failedAt, found, restart, decisions>>
Flag(w) ==
  /\ pc[w] = "flag"
  /\ status' = [status EXCEPT ![w] = "running"]
  /\ pc' = [pc EXCEPT ![w] = "match"]
  /\ UNCHANGED <<created, discarded, indexed, failedAt, found, restart, decisions>>

\* discard_older_wfs_w_same_source: its search, and where it leads to.
SameSource(w, matches) == {m \in matches : SourceOf[m] = SourceOf[w]}
AnyAge(w, matches) == matches                \* mutant: creation dates ignored
NotNewer(w, matches) == {m \in matches : created[w] >= created[m]}

\* Only one submission at a time: the task fails.
AnySubmission(w) == FALSE                    \* mutant: the guard dropped
SecondSubmission(w) ==
  /\ w \in Submission
  /\ Matching(w, RunningStatuses \cup {"blocked"}) \cap Submission # {}

Match(w) ==
  LET matches == Matching(w, RunningStatuses \cup {"blocked"})
      same    == SameSource(w, matches)
      older   == NotNewer(w, same)
  IN  /\ pc[w] = "match"
      /\ ~SecondSubmission(w)
      /\ \/ /\ older # {}
            /\ pc' = [pc EXCEPT ![w] = "discard"]
            /\ found' = [found EXCEPT ![w] = older]
            /\ UNCHANGED <<status, discarded>>
         \/ /\ same # {} /\ older = {}     \* discards itself and completes
            /\ pc' = [pc EXCEPT ![w] = "next"]
            /\ status' = [status EXCEPT ![w] = "completed"]
            /\ discarded' = discarded \cup {w}
            /\ UNCHANGED found
         \/ /\ same = {}
            /\ pc' = [pc EXCEPT ![w] = "check"]
            /\ UNCHANGED <<status, discarded, found>>
      /\ UNCHANGED <<created, indexed, failedAt, restart, decisions>>

\* complete_workflow: mark_airflow_dag_run_as_success, which ends the run.
RunLeftAlone(pcs, m) == pcs                  \* mutant: the run is not ended
MarkSuccess(pcs, m) == [pcs EXCEPT ![m] = "done"]

\* The discard request on one of them: its run is ended and it is completed.
Discard(w, m) ==
  LET left == found[w] \ {m} IN
  /\ pc[w] = "discard"
  /\ m \in found[w]
  /\ found' = [found EXCEPT ![w] = left, ![m] = {}]
  /\ pc' = MarkSuccess([pc EXCEPT ![w] = IF left = {} THEN "check" ELSE @], m)
  /\ status' = [status EXCEPT ![m] = "completed"]
  /\ discarded' = discarded \cup {m}
  /\ failedAt' = [failedAt EXCEPT ![m] = "none"]
  /\ UNCHANGED <<created, indexed, restart, decisions>>

\* check_for_blocking_workflows: the search.
Check(w) ==
  /\ pc[w] = "check"
  /\ pc' = [pc EXCEPT ![w] = "decide"]
  /\ found' = [found EXCEPT ![w] = Matching(w, RunningStatuses)]
  /\ UNCHANGED <<status, created, discarded, indexed, failedAt, restart, decisions>>

\* check_for_blocking_workflows: blocked, every later task is skipped; or on.
Decide(w) ==
  /\ pc[w] = "decide"
  /\ \/ /\ found[w] # {}
        /\ status' = [status EXCEPT ![w] = "blocked"]
        /\ pc' = [pc EXCEPT ![w] = "done"]
     \/ /\ found[w] = {}
        /\ status' = [status EXCEPT ![w] = "running"]
        /\ pc' = [pc EXCEPT ![w] = "work"]
  /\ found' = [found EXCEPT ![w] = {}]
  /\ UNCHANGED <<created, discarded, indexed, failedAt, restart, decisions>>

\* An await_* task without a decision sets an approval status and skips the
\* rest of the run.
Await(w) ==
  /\ pc[w] = "work"
  /\ status' = [status EXCEPT ![w] = "waiting"]
  /\ pc' = [pc EXCEPT ![w] = "halted"]
  /\ UNCHANGED <<created, discarded, indexed, failedAt, found, restart, decisions>>

\* save_and_complete_workflow
Complete(w) ==
  /\ pc[w] = "work"
  /\ status' = [status EXCEPT ![w] = "completed"]
  /\ pc' = [pc EXCEPT ![w] = "next"]
  /\ UNCHANGED <<created, discarded, indexed, failedAt, found, restart, decisions>>

\* run_next_if_necessary: the search.
NextRunning == RunningStatuses               \* mutant: blocked ones forgotten
NextStatuses == RunningStatuses \cup {"blocked"}

RunNext(w) ==
  LET matches == Matching(w, NextStatuses) IN
  /\ pc[w] = "next"
  /\ pc' = [pc EXCEPT ![w] = IF matches = {} THEN "done" ELSE "wake"]
  /\ found' = [found EXCEPT ![w] = matches]
  /\ UNCHANGED <<status, created, discarded, indexed, failedAt, restart, decisions>>

\* HepWorkflowViewSet.restart looks at the status first.
AskRestart(r, m) ==
  /\ restart[r].at \in {"answered", "refused"}
  /\ status[m] \notin {"none", "completed"}
  /\ restart' = [restart EXCEPT ![r] = [on |-> m, at |-> "checked"]]

\* run_next_if_necessary: restarts the oldest match, and waits for the answer.
Wake(w) ==
  /\ pc[w] = "wake"
  /\ AskRestart(w, Oldest(found[w]))
  /\ pc' = [pc EXCEPT ![w] = "waking"]
  /\ UNCHANGED <<status, created, discarded, indexed, failedAt, found, decisions>>

Woken(w) ==
  LET left == found[w] \ {Oldest(found[w])} IN
  /\ pc[w] = "waking"
  /\ restart[w].at = "answered"
  /\ found' = [found EXCEPT ![w] = left]
  /\ pc' = [pc EXCEPT ![w] = IF left = {} THEN "done" ELSE "block"]
  /\ UNCHANGED <<status, created, discarded, indexed, failedAt, restart, decisions>>

\* run_next_if_necessary: the block request on every other match.
Block(w, m) ==
  LET left == found[w] \ {m} IN
  /\ pc[w] = "block"
  /\ m \in found[w]
  /\ found' = [found EXCEPT ![w] = left, ![m] = {}]
  /\ pc' = MarkSuccess([pc EXCEPT ![w] = IF left = {} THEN "done" ELSE @], m)
  /\ status' = [status EXCEPT ![m] = "blocked"]
  /\ failedAt' = [failedAt EXCEPT ![m] = "none"]
  /\ UNCHANGED <<created, discarded, indexed, restart, decisions>>

\* The task a run is in starts over when the run is resumed.
StartOfSearch(task) ==                       \* mutant: resumed in the middle
  IF task \in {"discard", "decide"} THEN "match" ELSE task
StartOf(task) ==
  CASE task = "discard" -> "match"
    [] task = "decide" -> "check"
    [] task \in {"wake", "waking", "block"} -> "next"
    [] OTHER -> task

\* Any task may fail: an outage, a refused request, a validation error, a
\* second submission.  The failure callback sets the status, or fails too.
Fail(w) ==
  /\ pc[w] \in Task
  /\ \E s \in {"error", status[w]} : status' = [status EXCEPT ![w] = s]
  /\ pc' = [pc EXCEPT ![w] = "failed"]
  /\ failedAt' = [failedAt EXCEPT ![w] = StartOf(pc[w])]
  /\ found' = [found EXCEPT ![w] = {}]
  /\ restart' = [restart EXCEPT ![w] = IF @.at = "refused" THEN Answered ELSE @]
  /\ UNCHANGED <<created, discarded, indexed, decisions>>

-----------------------------------------------------------------------------
(* Decisions and restarts                                                  *)

\* Clearing the await task of a run, with all that come after it and with
\* reset_dag_runs, sets the run going again from there.  Nobody looks at the
\* status first: a run that has ended comes back too.  Whether it gets as far
\* as the work, or its skipped tasks stay skipped, is left to Airflow.
Ended(w) ==
  \/ pc[w] \in {"next", "wake", "waking", "block", "done"}
  \/ pc[w] = "failed" /\ failedAt[w] = "next"
Cleared(w) ==
  CASE Ended(w) -> {"work", "next"}
    [] pc[w] \in {"work", "halted"} -> {"work"}
    [] pc[w] = "failed" /\ failedAt[w] = "work" -> {"work", "failed"}
    [] OTHER -> {pc[w]}

ClearAwait(w) ==
  /\ pc[w] \notin {"none", "queued", "lost"}
  /\ \E task \in Cleared(w) :
       /\ pc' = [pc EXCEPT ![w] = task]
       /\ failedAt' = [failedAt EXCEPT ![w] = IF task = "failed" THEN @ ELSE "none"]
  /\ IF Ended(w)
       THEN /\ late' = late \cup {w}
            /\ found' = [found EXCEPT ![w] = {}]
            /\ restart' = [restart EXCEPT ![w] = IF @.at = "refused" THEN Answered ELSE @]
       ELSE UNCHANGED <<late, found, restart>>

\* resolve_workflow: clears the await task, and then saves the status.
ResolveClear(w) ==
  /\ status[w] # "none"
  /\ ClearAwait(w)
  /\ saving' = saving \cup {w}
  /\ UNCHANGED <<status, created, discarded, indexed, inbox>>

ResolveSave(w) ==
  /\ w \in saving
  /\ status' = [status EXCEPT ![w] = "running"]
  /\ saving' = saving \ {w}
  /\ UNCHANGED <<created, discarded, indexed, pc, failedAt, found, restart, inbox, late>>

\* batch_resolve saves the status; batch_resolve_workflows clears later, and
\* leaves the status alone, or gives up: an error, or its time limit.
BatchResolve(w) ==
  /\ status[w] # "none"
  /\ status' = [status EXCEPT ![w] = "running"]
  /\ inbox' = inbox \cup {w}
  /\ UNCHANGED <<created, discarded, indexed, pc, failedAt, found, restart, saving, late>>

BatchClear(w) ==
  /\ w \in inbox
  /\ ClearAwait(w)
  /\ inbox' = inbox \ {w}
  /\ UNCHANGED <<status, created, discarded, indexed, saving>>

BatchFail(w) ==
  /\ w \in inbox
  /\ \E s \in {"error", status[w]} : status' = [status EXCEPT ![w] = s]
  /\ inbox' = inbox \ {w}
  /\ UNCHANGED <<created, discarded, indexed, pc, failedAt, found, restart, saving, late>>

\* A curator asks for a restart of the whole run.
CuratorRestart(w) ==
  /\ AskRestart(Curator, w)
  /\ UNCHANGED <<status, created, discarded, indexed, pc, failedAt, found, decisions>>

\* The restart request clears the Airflow run, which starts from its first
\* task, and saves the status: before that task gets to run, unless late.
ClearRun(r) ==
  LET w == restart[r].on IN
  /\ restart[r].at = "checked"
  /\ pc[w] \notin {"queued", "lost"}
  /\ pc' = [pc EXCEPT ![w] = "restore"]
  /\ found' = [found EXCEPT ![w] = {}]
  /\ failedAt' = [failedAt EXCEPT ![w] = "none"]
  /\ \/ /\ status' = [status EXCEPT ![w] = "processing"]
        /\ restart' = [restart EXCEPT ![r] = Answered]
     \/ /\ "late_save" \in Faults
        /\ restart' = [restart EXCEPT ![r] = [on |-> w, at |-> "cleared"]]
        /\ UNCHANGED status
  /\ late' = late \ {w}
  /\ UNCHANGED <<created, discarded, indexed, inbox, saving>>

LateSave(r) ==
  /\ restart[r].at = "cleared"
  /\ status' = [status EXCEPT ![restart[r].on] = "processing"]
  /\ restart' = [restart EXCEPT ![r] = Answered]
  /\ UNCHANGED <<created, discarded, indexed, pc, failedAt, found, decisions>>

\* Airflow refuses: there is no run to clear, or it is down.
RefuseRestart(r) ==
  /\ restart[r].at = "checked"
  /\ restart' = [restart EXCEPT ![r] =
       IF r = Curator \/ pc[r] # "waking" THEN Answered
       ELSE [on |-> NoWf, at |-> "refused"]]
  /\ UNCHANGED <<status, created, discarded, indexed, pc, failedAt, found, decisions>>

\* The failed task alone is cleared: by a curator, the status becoming
\* running, or by restart_stuck_workflows, which leaves it.
Retry(w) ==
  /\ pc[w] = "failed"
  /\ status[w] = "error"
  /\ \E s \in {"running", "error"} : status' = [status EXCEPT ![w] = s]
  /\ pc' = [pc EXCEPT ![w] = failedAt[w]]
  /\ failedAt' = [failedAt EXCEPT ![w] = "none"]
  /\ UNCHANGED <<created, discarded, indexed, found, restart, decisions>>

-----------------------------------------------------------------------------

\* A request the task makes is refused: the task cannot but fail.
MustFail(w) ==
  \/ pc[w] = "restore" /\ status[w] = "completed"
  \/ pc[w] = "match" /\ SecondSubmission(w)
  \/ pc[w] = "wake" /\ status[Oldest(found[w])] = "completed"
  \/ pc[w] = "waking" /\ restart[w].at = "refused"

\* A step of the run that Airflow takes by itself.
RunStep(w) ==
  \/ Restore(w) \/ Flag(w) \/ Match(w) \/ Check(w) \/ Decide(w)
  \/ \E m \in Wf : Discard(w, m) \/ Block(w, m)
  \/ RunNext(w) \/ Wake(w) \/ Woken(w)
  \/ MustFail(w) /\ Fail(w)

\* A step of a curator's decision about w, alone or in a batch.
Decision(w) ==
  \/ ResolveClear(w) \/ ResolveSave(w)
  \/ BatchResolve(w) \/ BatchClear(w) \/ BatchFail(w)

\* A step of the restart request of r.
RestartStep(r) == ClearRun(r) \/ LateSave(r) \/ RefuseRestart(r)

Next ==
  \/ \E r \in Wf \cup {Curator} : RestartStep(r)
  \/ \E w \in Wf :
       \/ Create(w) \/ Trigger(w) \/ Refresh(w)
       \/ RunStep(w) \/ Await(w) \/ Complete(w) \/ Fail(w)
       \/ Decision(w) \/ CuratorRestart(w) \/ Retry(w)

Spec == Init /\ [][Next]_vars

-----------------------------------------------------------------------------
(* Properties                                                              *)

\* The run of w is past check_for_blocking_workflows and not finished: it
\* works on the record, waits for a curator, or failed on the way.
Holds(w) ==
  \/ pc[w] \in {"work", "halted"}
  \/ pc[w] = "failed" /\ failedAt[w] = "work"

\* And it came there by its checks: a run that a decision set going after it had
\* ended is not checked again.
Admitted(w) == Holds(w) /\ w \notin late

\* At most one workflow of a paper is admitted past check_for_blocking_workflows,
\* through every discard, block, failure, restart, decision and late clearing of
\* a task.
OneAtATime == \A w, v \in Wf : Admitted(w) /\ Admitted(v) => w = v

\* Seen through the workflow admitted, the workflows of a paper behave as a lock
\* that is taken when it is free and given back before another takes it: no
\* discard, restart, decision or wake-up hands the paper over in the middle.
AtWork ==
  IF \E w \in Wf : Admitted(w) THEN CHOOSE w \in Wf : Admitted(w) ELSE NoWf
Lock == INSTANCE PaperLock WITH owner <- AtWork
IsPaperLock == Lock!LockSpec

\* A workflow the backoffice shows as blocked has no run that could touch the
\* record, and one it shows as completed has at most run_next left, unless a
\* decision set it going after it had ended.
ShownAsStopped ==
  \A w \in Wf \ late :
    /\ status[w] = "blocked" => pc[w] = "done"
    /\ status[w] = "completed" =>
         \/ pc[w] \in {"next", "wake", "waking", "block", "done"}
         \/ pc[w] = "failed" /\ failedAt[w] = "next"

\* Workflows of one source discard each other without discarding all: a
\* discarded one has a newer one of its source beside it.
NewestIsKept ==
  \A w \in discarded :
    \E v \in Wf : SourceOf[v] = SourceOf[w] /\ created[v] > created[w]

\* Submissions of one paper do not throw each other away, as harvests do: what
\* is discarded is never a submission (submissions have a source of their own).
SubmissionsAreKept == discarded \cap Submission = {}

\* A workflow that is blocked waits for another one of the paper: one that has a
\* run, at work, halted or failed, or is being restarted.
BlockedIsWaiting ==
  (\E w \in Wf : status[w] = "blocked") =>
    \/ \E v \in Wf : pc[v] \notin {"none", "lost", "done"}
    \/ \E r \in Wf \cup {Curator} : restart[r].at # "answered"
    \/ inbox # {}
=============================================================================
