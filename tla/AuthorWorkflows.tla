-------------------------- MODULE AuthorWorkflows --------------------------
(***************************************************************************)
(* New authors: a submission becomes a workflow of the backoffice, which   *)
(* triggers a run that prepares it and waits for a curator; the decision   *)
(* triggers another run, which creates the author record or does not.      *)
(* Curators restart what failed, and two of them may decide.               *)
(*                                                                         *)
(* Sources: src/backoffice/backoffice/authors/api/views.py and utils.py,   *)
(* common/airflow_utils.py, and src/workflows/dags/author/author_create/.  *)
(* All the workflows are about one person.                                 *)
(***************************************************************************)
EXTENDS Naturals, FiniteSets

CONSTANTS
  Author,        \* workflows of type AUTHOR_CREATE
  WithOrcid      \* those that give the ORCID of the person

ASSUME AuthorsAssumption == WithOrcid \subseteq Author

VARIABLES
  row,           \* the workflows in the backoffice
  dag,           \* the Airflow runs of each workflow: one per DAG at most
  restarts,      \* restarts that have still to delete runs, or to trigger the first
  saving,        \* requests that have still to save: the number in the data they read
  records,       \* author records that were created for each workflow (0, 1, 2)
  spoilt,        \* history: workflows that a late save, a callback or a restart that
                 \* failed, or a decision during the first run or a restart, may have
                 \* left wrong
  lost           \* history: workflows that do not know of a record created for them

authorVars == <<row, dag, restarts, saving, records, spoilt, lost>>

Dag == {"init", "approve", "reject"}
Decision == {"approve", "reject"}

\* The tasks of each DAG that change something, in order.
FirstTask == "running"
NextTask(d, task) ==
  CASE d = "init" /\ task = "running"   -> "data"
    [] d = "init" /\ task = "data"      -> "approval"
    [] d = "approve" /\ task = "running" -> "create"
    [] d = "approve" /\ task = "create" -> "completed"
    [] d = "reject" /\ task = "running" -> "completed"
    [] OTHER                            -> "end"

DagRun == [at : {"none", "running", "data", "approval", "create", "number", "completed", "end"},
        failed : BOOLEAN]
NoRun == [at |-> "none", failed |-> FALSE]
Started == [at |-> FirstTask, failed |-> FALSE]

\* "number": whether the data hold the control number of a record.  Decisions
\* are rows that nothing here reads.
AuthorRow == [status : {"none", "processing", "running", "approval", "completed", "error"},
              number : BOOLEAN]

\* A restart: the runs it has found and not deleted, whether it has deleted any,
\* and the number in the data it read.
Restart == [left : SUBSET Dag, cut : BOOLEAN, number : BOOLEAN]

AuthorsTypeOK ==
  /\ row \in [Author -> AuthorRow]
  /\ dag \in [Author -> [Dag -> DagRun]]
  /\ restarts \in [Author -> SUBSET Restart]
  /\ saving \in [Author -> SUBSET BOOLEAN]
  /\ records \in [Author -> 0..2]
  /\ spoilt \subseteq Author /\ lost \subseteq Author

AuthorsInit ==
  /\ row = [w \in Author |-> [status |-> "none", number |-> FALSE]]
  /\ dag = [w \in Author |-> [d \in Dag |-> NoRun]]
  /\ restarts = [w \in Author |-> {}] /\ saving = [w \in Author |-> {}]
  /\ records = [w \in Author |-> 0]
  /\ spoilt = {} /\ lost = {}

Active(w) == \E d \in Dag : dag[w][d].at \notin {"none", "end"} /\ ~dag[w][d].failed
Broken(w) == {d \in Dag : dag[w][d].failed}
Executed(w) == {d \in Dag : dag[w][d].at # "none"}
SetRun(w, d, state) == dag' = [dag EXCEPT ![w][d] = state]
SetStatus(w, s) == row' = [row EXCEPT ![w].status = s]

-----------------------------------------------------------------------------
(* Requests                                                                *)

\* is_another_author_running: by ORCID, with a search that sees everything.
Blocking == {"running", "approval", "error"}
Blocked(w) ==
  \E o \in Author \ {w} : {w, o} \subseteq WithOrcid /\ row[o].status \in Blocking

\* The row stays even if the trigger fails: then it has no run.
CreateAuthor(w) ==
  /\ row[w].status = "none" /\ ~Blocked(w)
  /\ SetStatus(w, "processing")
  /\ SetRun(w, "init", Started) \/ UNCHANGED dag
  /\ UNCHANGED <<restarts, saving, records, spoilt, lost>>

\* A curator decides, in whatever state the workflow is.  A run that exists is
\* not triggered again: the request fails, and nothing of it stays.
ResolveAuthor(w, d) ==
  /\ row[w].status # "none"
  /\ dag[w][d] = NoRun
  /\ SetRun(w, d, Started)
  /\ saving' = [saving EXCEPT ![w] = @ \cup {row[w].number}]
  /\ spoilt' = IF dag[w]["init"].at = "end" /\ restarts[w] = {} THEN spoilt ELSE spoilt \cup {w}
  /\ UNCHANGED <<row, restarts, records, lost>>

FirstOf(runs) ==
  IF "init" \in runs THEN "init" ELSE IF "approve" \in runs THEN "approve" ELSE "reject"

\* restart with restart_current_task: the failed task of one run.
RestartFailedTask(w) ==
  /\ Broken(w) # {}
  /\ LET d == FirstOf(Broken(w)) IN SetRun(w, d, [at |-> dag[w][d].at, failed |-> FALSE])
  /\ saving' = [saving EXCEPT ![w] = @ \cup {row[w].number}]
  /\ UNCHANGED <<row, restarts, records, spoilt, lost>>

\* restart: accepted if a run has failed, or if there is none.
FirstOnly(w) == Executed(w) \cap {"init"}    \* mutant: the others stay
Deleted(w) == Executed(w)
AskRestart(w) ==
  /\ row[w].status # "none"
  /\ Broken(w) # {} \/ Executed(w) = {}
  /\ restarts' = [restarts EXCEPT ![w] =
                    @ \cup {[left |-> Deleted(w), cut |-> FALSE, number |-> row[w].number]}]
  /\ UNCHANGED <<row, dag, saving, records, spoilt, lost>>

\* The runs are deleted one by one.  Airflow refuses to delete one at work.
DeleteRun(w, q) ==
  /\ q.left # {}
  /\ LET d == FirstOf(q.left) IN
       /\ dag[w][d].at = "end" \/ dag[w][d].failed
       /\ SetRun(w, d, NoRun)
       /\ restarts' = [restarts EXCEPT ![w] =
                         (@ \ {q}) \cup {[q EXCEPT !.left = @ \ {d}, !.cut = TRUE]}]
  /\ UNCHANGED <<row, saving, records, spoilt, lost>>

\* Then the first is triggered, beside the run of a decision made meanwhile.
TriggerRestart(w, q) ==
  /\ q.left = {} /\ dag[w]["init"] = NoRun
  /\ SetRun(w, "init", Started)
  /\ restarts' = [restarts EXCEPT ![w] = @ \ {q}]
  /\ saving' = [saving EXCEPT ![w] = @ \cup {q.number}]
  /\ spoilt' = IF Executed(w) = {} THEN spoilt \ {w} ELSE spoilt
  /\ UNCHANGED <<row, records, lost>>

\* Any of these requests to Airflow fails: the restart ends, and nothing is saved.
FailRestart(w, q) ==
  /\ restarts' = [restarts EXCEPT ![w] = @ \ {q}]
  /\ spoilt' = IF q.cut /\ Executed(w) # {} THEN spoilt \cup {w} ELSE spoilt
  /\ UNCHANGED <<row, dag, saving, records, lost>>

\* The end of a request: the workflow as it was read is saved as "processing".
\* That is too late if the run has ended, or has stored a number, meanwhile.
SaveProcessing(w) ==
  \E number \in saving[w] :
    /\ row' = [row EXCEPT ![w].status = "processing", ![w].number = number]
    /\ saving' = [saving EXCEPT ![w] = @ \ {number}]
    /\ spoilt' = IF Active(w) THEN spoilt ELSE spoilt \cup {w}
    /\ lost' = IF row[w].number /\ ~number THEN lost \cup {w} ELSE lost
    /\ UNCHANGED <<dag, restarts, records>>

-----------------------------------------------------------------------------
(* Runs                                                                    *)

AtTask(w, d, task) == dag[w][d].at = task /\ ~dag[w][d].failed
Advance(w, d) == SetRun(w, d, [dag[w][d] EXCEPT !.at = NextTask(d, @)])

\* Tasks that set the status; the next one begins, or the run ends.
ShowStatus(w, d) ==
  \E task \in {"running", "approval", "completed"} :
    /\ AtTask(w, d, task)
    /\ SetStatus(w, task)
    /\ Advance(w, d)
    /\ UNCHANGED <<restarts, saving, records, spoilt, lost>>

\* set_schema and set_submission_number.
PrepareData(w) ==
  /\ AtTask(w, "init", "data")
  /\ Advance(w, "init")
  /\ UNCHANGED <<row, restarts, saving, records, spoilt, lost>>

\* The backend refuses an ORCID, or a control number, that a record has.
NeverTaken(w) == FALSE                       \* mutant
Taken(w) ==
  \/ row[w].number
  \/ w \in WithOrcid /\ \E o \in WithOrcid : records[o] > 0

\* create_author_on_inspire: the record is posted.  Without an answer it is
\* posted again, which makes another one if nothing tells that it is there.
PostAuthor(w) ==
  /\ AtTask(w, "approve", "create")
  /\ ~Taken(w) /\ records[w] < 2
  /\ \/ /\ records' = [records EXCEPT ![w] = @ + 1]
        /\ SetRun(w, "approve", [dag[w]["approve"] EXCEPT !.at = "number"])
        /\ UNCHANGED lost
     \/ /\ records' = [records EXCEPT ![w] = @ + 1]
        /\ lost' = lost \cup {w}
        /\ UNCHANGED dag
  /\ UNCHANGED <<row, restarts, saving, spoilt>>

\* Its control number is stored in the workflow.
StoreNumber(w) ==
  /\ AtTask(w, "approve", "number")
  /\ row' = [row EXCEPT ![w].number = TRUE]
  /\ SetRun(w, "approve", [at |-> "completed", failed |-> FALSE])
  /\ UNCHANGED <<restarts, saving, records, spoilt, lost>>

\* A task has failed for good; the callback of the DAG shows it, or fails too.
ShownFailed(w) == "error"
FailAuthorRun(w, d) ==
  /\ dag[w][d].at \notin {"none", "end"} /\ ~dag[w][d].failed
  /\ SetRun(w, d, [at |-> IF dag[w][d].at = "number" THEN "create" ELSE dag[w][d].at, failed |-> TRUE])
  /\ lost' = IF dag[w][d].at = "number" THEN lost \cup {w} ELSE lost
  /\ \/ SetStatus(w, ShownFailed(w)) /\ UNCHANGED spoilt
     \/ spoilt' = spoilt \cup {w} /\ UNCHANGED row
  /\ UNCHANGED <<restarts, saving, records>>

AuthorsNext ==
  \E w \in Author :
    \/ CreateAuthor(w) \/ RestartFailedTask(w) \/ AskRestart(w) \/ SaveProcessing(w)
    \/ \E q \in restarts[w] : DeleteRun(w, q) \/ TriggerRestart(w, q) \/ FailRestart(w, q)
    \/ PrepareData(w) \/ PostAuthor(w) \/ StoreNumber(w)
    \/ \E d \in Decision : ResolveAuthor(w, d)
    \/ \E d \in Dag : ShowStatus(w, d) \/ FailAuthorRun(w, d)

AuthorsSpec == AuthorsInit /\ [][AuthorsNext]_authorVars

-----------------------------------------------------------------------------
(* Properties                                                              *)

\* When nothing is under way, a workflow shows where it is: waiting for a
\* decision that can be carried out, completed by a run that did what was
\* decided, or in error with something to restart; unless it has no run at all,
\* which restart accepts too.
AuthorsAreShown ==
  \A w \in Author \ spoilt :
    row[w].status # "none" /\ ~Active(w) /\ restarts[w] = {} /\ saving[w] = {} /\ Executed(w) # {} =>
      CASE row[w].status = "approval"  -> Executed(w) = {"init"}
        [] row[w].status = "completed" ->
             \/ dag[w]["approve"].at = "end" /\ (row[w].number \/ w \in lost)
             \/ dag[w]["reject"].at = "end"
        [] row[w].status = "error"     -> Broken(w) # {}
        [] OTHER                       -> FALSE

\* However often a workflow fails, is restarted and is accepted again, only one
\* author record is created for it, unless it has lost track of a record; and
\* workflows with the ORCID of one person create one record between them, even
\* if the number of the first was lost.
OneRecord ==
  /\ \A w \in Author : records[w] > 1 => w \in lost
  /\ \A w, o \in WithOrcid : records[w] > 0 /\ records[o] > 0 => w = o /\ records[w] = 1
=============================================================================
