# TLA+ models of INSPIRE HEP

Specifications of the parts of this repository whose correctness depends on
the order in which several processes take their steps, with TLC configurations
that check them on small instances and TLAPS proofs of their safety properties
for instances of any size.

## The system

| Part | Where | State | Operations | What is hard |
| --- | --- | --- | --- | --- |
| Record store | `src/backend/inspirehep/records/api/base.py`, `pidstore/` | `records_metadata` (JSON, `version_id`), `pidstore_pid`, `inspire_pidstore_redirect` | create, update, delete, hard delete, merge (`deleted_records`), revert | concurrent transactions with stale sessions, merges of merges, identifiers that move |
| PID resolution | `pidstore/models.py`, `pidstore/resolvers.py` | none | follow redirections | an unbounded loop over a graph that changes |
| Indexing | `indexer/`, `records/receivers.py`, `records/tasks.py` | documents with external versions | index a record and what it cites, redirect references | tasks out of order, retried, given up, after a delete |
| Citations | `records/api/mixins.py` | `records_citations`, `records_authors` | rebuild rows and self-citation flags | flags that depend on two records changed side by side |
| ORCID | `orcid/` | works at ORCID, putcode cache in Redis | push, retry, recover putcodes, resolve clashes | sent before the commit, retry of what was done |
| HAL | `hal/` | the deposit at HAL, its id in the paper | push, retry, write the id back | the paper is edited while it is pushed |
| Disambiguation, claims | `disambiguation/`, `assign/` | links from author entries to profiles, stubs | link, claim, unclaim, remove stubs | tasks, edits, claims and cleaning of one paper |
| Backoffice | `src/backoffice/backoffice/hep/`, `authors/` | workflows (status), decision rows, an OpenSearch index | create, resolve, batch resolve, discard, block, restart, restore | requests that talk to Airflow before they commit |
| Literature DAG | `src/workflows/dags/literature/hep_create_dag.py` | the Airflow run, flags and a copy of the workflow in S3 | its tasks | workflows of one paper exclude each other by searching an index; updates that wait for a curator |
| Manual merge | `hep_manual_merge.py` | roots (`workflows_record_sources`) | merge two records | several stores, one after the other |
| Author DAGs | `src/workflows/dags/author/` | three runs per workflow | prepare, create, reject | a record posted twice |
| Harvests | `*_harvest.py`, `dags/data` | S3 buckets, daily windows | fetch, build, post | partial failure, runs side by side |
| Maintenance | `src/backoffice/backoffice/management/maintenance.py` | none | `restart_stuck_workflows`, `restart_resolved_workflows` | they repair what the races above leave |
| Others | editor locks, files, curation, matcher, search, serializers, SNOW, OAI, mailing, ui, record-editor | little or none | I/O, queries, formatting | - |

The parts meet in four places. The DAGs call the backoffice over HTTP
(`workflow_management_hook.py`) for statuses, decisions, discards, blocks and
restarts; the backoffice calls Airflow over HTTP (`common/airflow_utils.py`) to
trigger, clear and end runs; the DAGs store finished records through the
backend's API; and a commit in the backend sends Celery tasks that index,
redirect, push and disambiguate. The backoffice runs every request as one
transaction (`ATOMIC_REQUESTS`), and its signal processor copies each committed
workflow to the index the DAG searches.

`PROJECT.json` lists every component with its status, and the hazards of this
code at their lines with the properties that cover them.

What makes each part correct:

- Record store: a merge is permanent, redirections form no cycle and lead to
  PIDs that exist, a record that lives holds its control number and exactly the
  identifiers it lists.
- Resolution: a lookup ends, and never meets a redirected PID that leads nowhere.
- Indexing: once the tasks are over the index shows the latest version and the
  current count; rewriting references touches nothing else.
- Citations: a row is flagged exactly when the two records share an author.
- ORCID: once the pushes are over each live record is there once, as it is in
  INSPIRE; a cache hit is right; no push writes over another record's work.
- HAL: once the pushes are over HAL has the latest version, which names its
  deposit; writing that name undoes no edit.
- Author links: every entry gets its link, none that a curator set is changed.
- Literature workflows of one paper: one at a time works on the record; what is
  shown as stopped has stopped; the newest harvest is kept; a submission is
  never thrown away; what is blocked waits for something.
- Decisions: a decision resumes the run that waits for it; a run that is stuck
  in spite of one can be found and repaired; what is stored was accepted; a
  question the run asks can be answered.
- Updates: no edit is lost to an update, what it brings arrives, its conflicts
  are reviewed.
- Author workflows: one record per author; the status shown is true.
- Harvests: nothing delivered is left out without a failure that is told, and
  nothing is posted twice without a reason.

The code does not keep all of this. Where it does not, a model has the steps
that break it, and the property names the states or actions it excepts (`late`,
`stray`, `spoilt`, `dropped`, `unnoticed`, `nameless` and the like); the
sections below and "Findings" say how the program gets there. Such a property
says that nothing else breaks it.

## Modules

| Module | Models | Run by | Proofs |
| --- | --- | --- | --- |
| `RecordPids` | the record store | `MCRecords` | `RecordPidsProofs` |
| `RedirectWalk` | a lookup beside `RecordPids` (it extends it) | `MCRedirectWalk` | `RecordPidsProofs` |
| `MergedRecords` | what the record store promises to lookups | through `RedirectWalk` | `RecordPidsProofs` |
| `RecordIndexing` | commits, index tasks, documents, redirected references | `MCRecordIndexing` | `RecordIndexingProofs` |
| `Citations` | rows and flags of the citation table, counts in the index | `MCRecords` | `AuthorsProofs` |
| `OrcidPush` | push tasks, the works at ORCID, the cache | `MCPushes` | `PushesProofs` |
| `HalPush` | push tasks of a paper, its deposit, the id written back | `MCPushes` | `PushesProofs` |
| `AuthorLinks` | links of one paper: edits, disambiguation, claims, stubs | `MCRecords` | `AuthorsProofs` |
| `HepWorkflows` | admission of the workflows of one paper | `MCHepWorkflows` | `HepWorkflowsProofs` |
| `PaperLock` | what admission promises, as a lock | through `HepWorkflows` | `HepWorkflowsProofs` |
| `HepDecisions` | one workflow, its decisions and its run | `MCHepDecisions` | `HepDecisionsProofs` |
| `RecordUpdates` | updates and manual merges that are stored in records | `MCIncoming` | `RecordUpdatesProofs` |
| `ThreeWayRecords` | what curators may expect of updates: each one is one merge | through `RecordUpdates` | `RecordUpdatesProofs` |
| `AuthorWorkflows` | new authors: backoffice and the three DAGs | `MCRecords` | `AuthorsProofs` |
| `HarvestBatches` | Elsevier and DESY deliveries | `MCIncoming` | `HarvestsProofs` |
| `HarvestWindows` | daily harvests of changes | `MCIncoming` | `HarvestsProofs` |

`HepWorkflows` and `HepDecisions` describe the same rows and the same runs from
two sides: the first has many workflows and folds everything between admission
and completion into the task "work"; the second has one workflow and keeps the
await tasks, the decision rows and each request's transaction. `RecordUpdates`
is a third side: what the accepted runs do to the records.

`MCRecords`, `MCIncoming` and `MCPushes` check several components in one run. These share
no state; the variable `part`, chosen at the start, says which of them runs, so
each is checked as if it were alone, and the others keep one initial state.

### RecordPids

A record is named by its control number. A session loads a record and its PID
(`Begin`) and later commits one operation on it; what it loaded is `snap`.
`version_id` is what makes a stale session fail (`NotStale`). The merged records
an operation touches are read and written by the operation itself, under the
same check, so they are read and written in one step. `WriteLive` is the branch
that `create` and `update` share: delete the merged records, mint, redirect.
`CanRedirect`, `Claim`, `Release`, `DeletedStatus` are named for, and mapped to,
the pidstore functions they stand for. The error paths of the code roll the
transaction back: they are the guards, and `Rollback` may happen at any time.

Bounds: three control numbers, one external id, two sessions, `version_id` up
to 3. Three records are the least for a chain of merges to close a cycle, and
for a stale session to merge into a record that is merged meanwhile; three
writes per record allow create, merge and one write after it.

### RedirectWalk and MergedRecords

Each turn of `InspireRedirect.get_redirect` is a query of its own under READ
COMMITTED, so merges commit between turns. Weak fairness is on the walk's own
steps alone: a thread that runs a loop keeps running. Nothing is assumed of the
writers, so the walk ends however many merges commit under it. The instance has
a fourth control number of another type, for the type check of a merge; one
session is enough as the walk reads only what is committed.

`MergedRecords` is the abstract specification of the store: a status for each
control number, and the number that answers for it. There are no redirections in
it, no sessions and no versions; a merge gives one answer to all that is merged
and all that was merged into it before, and a record that answers for others is
not forgotten. `IsMergedRecords` is its specification under the mapping
`answer <- Answer(p)`, the PID without a redirection that a lookup of `p` comes
to if nothing commits meanwhile. A PID that was merged already may be merged
again, into another record: then it and what was merged into it move, and what
it had been merged into stays, which is why a merge of `MergedRecords` may take
a part of those with one answer.

### RecordIndexing

`history` is the list of committed versions of each record, and `task` the
index task of each version: sent by `index_after_commit`, queued, between
reading and writing its own record, then going through the batch of cited
records, one read and one write each (`BulkRead`, `BulkWrite`). A document
keeps the version it was written with, and a write of an older version is
refused (`Accepts`: `external_gte`). A deleted record leaves a tombstone that
keeps the version until OpenSearch forgets it. `Erase` is `hard_delete`, which
removes the document before the transaction ends, commits or rolls back.
`Merge` starts the task that finds the citing records by searching the index,
loads each and saves it unless it was saved in between (`StillLoaded`). A
record that was merged is not merged again here; hence it does not matter that
the task reads `new_record` when it begins.

A record cites while it is neither deleted nor superseded and is in the
collection (`Eligible`, mixins.py:193-198). `successor` says where
`related_records` names the record that supersedes it: `is_superseded` looks at
all of them, `get_modified_references` at the first (`ChangedRefs`). It does not
look at collections either.

`spoilt` names, per record, why its document may be wrong: an update was given
up after its retries, the writes of two bulk tasks crossed (each with the
version it read, but counts of another moment), a bulk write was refused as the
record had a newer document, a tombstone was forgotten, a record was erased
while a task was indexing it, or a record that cites it was put into or taken
out of the collection, or superseded by a related record after the first, which
the index task overlooks (`unnoticed`). The properties except exactly these, so
each is a statement about what the versions and retries do achieve, and the list
is what they do not.

Bounds: two papers and one record that cites them; two versions of the papers,
three of the citing record at most, and three new versions in all, or two when
the citing record is put aside, with the references it had; two tasks under way
and one reason at a time.

### Citations

The transaction of a change opens, looks at what is committed of the records
that cite it or that it cites (`LookUp`), and rewrites its rows and flags at its
commit. `crossed` holds the pairs that changed side by side and did not see each
other; a later change of either clears it. After the commit an index task
recomputes the counts of the records it finds affected (`ModifiedRefs`,
`Connected`). `unnoticed` holds the records whose count changed where that task
does not look.

What the model made plain: an early return of `update_refs_in_citation_table`
for a record that does not cite leaves the flags of the rows that cite it as
they were (mixins.py:193), so `FlagsAreTrue` is about cited papers; a record
that loses its last common author with a paper it cites does not cause that
paper to be indexed again, as the query of mixins.py:328 asks for common
authors as they are now; the cited records of one that becomes hidden are not
indexed again; and `get_modified_references` looks at `related_records[0]`
only, so a `successor` in another place is not noticed.

Bounds: two records, one person, two changes in all and a third once the index
is quiet.

### OrcidPush

Each worker holds one push task, which is split at its calls: load, compare
with the cache, put or post, search all works, delete, push the works that
clash, write the cache. `sent` holds tasks of versions that are not committed
yet and may never be. ORCID's own rules (a new putcode for each post, no two
works with one identifier) are external operators, taken from the errors that
`domain_models.py` handles. Answers get lost, tasks are retried and given up,
and an author may remove a work at ORCID. `spoilt` plays the part it has in
`RecordIndexing`. The Redis lock per ORCID is not taken by the push task and is
left out.

Bounds: two records that exchange identifiers from a set of two, two workers, two
works at ORCID, two updates in all, at most three tasks at a time. Two
identifiers are needed for the finding below; two records and two workers for
one push to meet the work of another.

### HalPush

`hal_push` loads the paper, waits for the lock of the paper, updates or creates
the deposit, and writes the id of a new deposit back. `text` stands for all that
is sent, by the version that wrote it. The lock is taken after the paper was
loaded, so it keeps pushes apart but not in order: `overtaken` says that an
older one came last. Writing the id back may find the paper edited; the second
attempt (`Reload`) loads it and puts in the identifiers computed from the
version before, so those of the edit are lost: `overwritten`. `HalAgrees` shows
that this is all that a push can undo. A creation that fails is never retried,
for its exceptions, time-outs included, become a `HALCreateException`
(`GiveUpPush`).

HAL is external: it refuses to create a paper that it has, naming the deposit,
as `_hal_create` expects.

Bounds: two workers, one other identifier, four versions: a creation, an edit
that it meets, the id written back, and an edit of that.

### AuthorLinks

One paper with its author entries. `edit` is an update that is sent to
`disambiguate_authors` before it commits; a task reads the paper, and plans, and
commits its links only if the paper is still the version it read
(`BaseIsPaper`). Otherwise it fails and is retried, as for any other failure,
six times at most: the tries are not counted, a task that waits may be given up
at any time (`GiveUp`). Claims (`assign_papers`) commit new versions, which send
tasks of their own. `missed` holds the entries whose change was followed by
another commit before a task saw it, as `disambiguate_authors` compares the last
two versions only; `dropped`, the versions whose task was given up.
`EntriesAreLinked` excepts the entries of both, `CuratedLinksStay` nothing.

The stub cleaner lists stubs from the index, looks for papers, and checks each
again before it deletes it. Its first check is in the serializable transaction it
began with and sees nothing newer; a profile that changed since then fails to be
removed, and the transaction goes on. The first removal commits, and lets the
other profiles expire: they are read again, and removed whatever they have become.
So the cleaner keeps no promise about links: see "Findings". It is there for what
it does to the tasks and claims beside it.

Bounds: two entries, two profiles, three versions of the paper by edits and
claims; of an update, a task, a claim and a cleaning, two are under way at a
time, and at most two tasks and one claim wait. After a task was given up, or
while the cleaner runs, one task waits at most; no claims go with the former,
no update and no running task with the latter.

### HepWorkflows and PaperLock

A row of the backoffice (`status`, `created`, `discarded`), its document in the
index (`indexed`), its Airflow run (`pc`, `failedAt`, `found`) and the restart
requests (`restart`). Every task that searches and then acts is split between
the two: `Match` and `Discard`, `Check` and `Decide`, `RunNext`, `Wake` and
`Block`. `found` is what the search returned. A restart request is split between
its check of the status and the call that clears the run, and, with the fault
`late_save`, between that call and the status it saves. `Fail` may happen to any
task: an outage, a refused request, a validation error, with the failure
callback succeeding or not.

Decisions are made in whatever state the workflow is, as neither endpoint looks
at it. `ResolveClear` clears the await task and `ResolveSave` saves the status;
`BatchResolve` saves the status, and `BatchClear` clears the task later, from
Celery, and leaves the status, or `BatchFail` gives up. Clearing with
`reset_dag_runs` brings back a run that has ended, behind its admission; then
the skipped tasks may stay skipped, so `Cleared` gives both, to work and not.
`late` is the set of workflows so revived, until they are restarted from the
beginning. `OneAtATime`, `ShownAsStopped` and `IsPaperLock` except them
(`Admitted`), and say that the workflow which was admitted, and all others, are
not led astray by them; that a revived run works beside the admitted one is
among the findings.

`Faults` names what may go wrong around the code: `index_lag` (a search does not
see the latest statuses), `late_save` (the restarted run begins before the
request has saved PROCESSING), `search_down` (the search made when a submission
is created fails). A property that needs a fault to be absent has it absent in
its run, and the corresponding theorem has it as an assumption.

`PaperLock` is the abstract specification of admission: an owner, who takes the
paper when it is free and gives it back before another takes it. The code has
no such lock. `IsPaperLock` is its specification under the mapping `owner <-
AtWork`, the workflow that was admitted; TLC checks the refinement, and
`ImplementsLock` proves it.

Bounds, by state constraints, beyond which TLC does not look; the theorems have
none of them:

- `hep_workflows`: two workflows from one source and one from another. While two
  exist, one failed run, one restart and one decision at a time; with the third,
  one of these, where the third may find what a decision has revived, and no
  further requests of curators (`OneTrouble`).
- `hep_workflows_faults`: two harvests and two submissions, of which two come to
  exist; a failed run and a restart, or a decision, at a time, and while there is
  any, the index lags behind one of the two workflows (`TwoRows`).
- `hep_workflows_blocked`: two workflows from different sources, nothing going
  wrong (`Quiet`), which is enough for the finding.

### HepDecisions

`decisions` holds the creation time of each row; `req` the open transactions,
whose row others see only when they commit, though an insert that clashes with
it waits; `at` and `phase` the task of the run; `answer` what an await task has
read before it acts; `copy` the status in the S3 copy that `save_workflow` puts
back; `approved` and `update` the flags in S3; `inbox` the Celery tasks of
`batch_resolve`. `paper` holds what the tasks make of the paper's data, chosen
once. Clearing a task has an effect only when the run has come to it
(`reached`); that a run which has ended is revived as well is left to
`HepWorkflows`.

A decision need not answer what the workflow waits for: a page or a list may be
out of date, and nobody looks at the status. `Stale` is the set of decisions
that come so, all of them in the theorems; `stray` remembers those made since
the run last started. `AnswerIsPossible` and `StoppedIsRepairable` except them
where one is in the way; `StoredAsDecided` excepts nothing.

`Repair` is `restart_resolved_workflows`, which takes workflows of given types
only, HEP_CREATE if none are given (maintenance.py:44,132): `RepairTypes`. A run
that waits at a merge is an update by then, and a submission has a type of its
own (`WorkflowType`), so by default the command does not find them.
`StoppedIsRepairable` is about the types it is called for.

Bounds: one resolve request, one Celery task for each await task, creation
times up to 3 (`MaxStamp`): three rows are the least for an exclusive decision,
a clash and a decision of another task. Of the decisions out of their time the
safety run has `core_selection_accept`, one at a time and with two requests and
Celery tasks under way (`OneStray`): it excludes
the decisions that answer an approval, and is never asked of a paper that waits
for one. The
batch run has `merge_approve`, which excludes nothing; it has no single requests,
for they write over what it promises (see the finding below), and no time limit
(`TimeLimit`), which loses a task outright; the safety run has both.

Fairness (`FairSpec`, for the batch run): Airflow schedules a run that can go on,
a request ends, Celery runs its tasks. No curator or operator has to act.

### RecordUpdates and ThreeWayRecords

A record is a version, a set of items, its `deleted_records`, and the record it
was merged into (`into`); a root is the last update of a source. A run of
`hep_create_dag` asks for the record that was matched, which may be merged by
then: the backend answers with the record that stands for it
(`FollowRedirect`). The run reads that head with its version (`ReadHead`),
merges it with the update and the root of its source (`Merge`: the three-way
merge drops what the root had and one side has not), waits for a decision if
there were conflicts, and stores only over the version it read: the check of
`is_fresh_data` and the `If-Match` header of the PUT say the same thing twice,
and the PUT is what counts (`IsHead`). Then it stores the root. Several updates
of one record may be here at once: nothing after the match keeps them apart.

A run of `hep_manual_merge_dag` merges the metadata of two records, lists the
roots of both, copies the newer ones to the head and deletes those of the other
(`ListRoots`, `CopyRoot`, `DeleteRoot`), then stores the merge with the other
record among its `deleted_records`, which redirects that one, and again all that
were merged before (`Put`). Tasks fail and are done again from the failed one
(`RestartTask`) or from the start (`RestartRun`, where an update is matched
again); both go back to the records the run was asked for, not to those that
answered.

A curator decides while the run is in any state (`Approve`), with the conflicts
on the page (`reviewed`) or with a page, or a request, that is out of date
(`late`). The first decision stays: `add_hep_decision` inserts no second one. The
clear that goes with it sends the run back to its await from wherever it is
after that (`Cleared`), and may fail. A run that is over is not revived here,
though the clear may do that (see `HepWorkflows`): it would find another version
at the store, or have stored already. Such a late decision stands in for the next
review: `ConflictsAreReviewed` excepts it, and shows that without one nothing
carries a decision over to conflicts nobody has seen.

What this shows of redirected records: a manual merge into a record that was
merged before is refused at the store, after its roots were moved, as the PUT
goes to the record it was asked for (`Accepted`). A manual merge *of* a record
that was merged before takes the metadata and the roots of the one it was
merged into, but redirects the named one only. An update is sent to the record
it has read (`merge_articles` sets the control number of the matched record on
the update, and the merger is taken to keep that of the head; were it the other
way, the PUT would be refused, which is the step `StoreRefused`).

`ThreeWayRecords` is the abstract specification: the items of each record, what
it had, what each source brought to it, and which records it may be compared
with (`lent`). An update is one step, the merge of the record *as it is*, the
update, and something that the record had from the same source before. There
are no runs, versions, roots, waiting or failures. `UpdatesAreAtomic` says that
`RecordUpdates` implements it, and that the steps that store are those of the
abstract specification with the same record, source and update.

Roots are moved before the record is stored. If the store then fails, the head
has roots whose items it may not have, and the next update of that source drops
or leaves out what those roots mention: `ahead` (`lent`) marks such pairs of
records, and the properties except them. An edit of the other record after the
merge has read it is not in the merge, and is lost with it; it counts as taken
out (`removed`). A restart of a manual merge keeps the decision of the merge
before it, for only `hep_create_dag` restores the workflow;
`ConflictsAreReviewed` is about updates.

Bounds: two records, one source, one item, two runs and three new versions in
all, one less for each run with a decision and two less for one with a late
decision. An item is put in, taken out by an edit, brought back by an update; two
runs meet on one record as update and update, update and merge, merge and
merge, and a record is merged under a run that is about it.

### AuthorWorkflows

A workflow's row, its three Airflow runs, the restarts on their way through
Airflow (`restarts`), and the requests that will still save the full row they
read (`saving`). A restart of the failed task is one call. A full restart lists
the runs of the workflow, deletes them one by one, and triggers the first
(`AskRestart`, `DeleteRun`, `TriggerRestart`); any of these calls may be refused,
and then the request ends in an error and saves nothing (`FailRestart`). A
curator may decide at any time, also during the first run or a restart
(`ResolveAuthor`). `PostAuthor` may lose its answer and be repeated; the backend
refuses a second record with the same ORCID or control number (`Taken`). `lost`
holds the workflows that do not know of a record created for them, which an
author without ORCID may lead to. `spoilt` holds those whose status was left
wrong by a failed callback, a late save, a restart that failed after it had
deleted some runs and not all, or a decision during the first run or a restart;
a restart that goes through clears that. `AuthorsAreShown` excepts them and the
workflows with no run at all, which restart accepts.

Bounds: one workflow without an ORCID, where only the control number prevents a
second record, or two with the same ORCID, one of which at a time has failed, is
restarted or waits to be saved; one restart of a workflow at a time. The theorem
has any number of each.

### HarvestBatches and HarvestWindows

`HarvestBatches` has the feed of a publisher, the bucket whose contents mean
"done", and hourly runs that may overlap. What a failed run had taken stays in
the bucket and is told (`told`); it is not taken up by the next run, and
clearing the failed download skips it as well, as the packages are found in the
bucket: only clearing the later task posts it. `repeated` collects the reasons
for a second post: two deliveries of an article, two runs that took a batch
side by side, a repeated POST, a cleared task.

`HarvestWindows` has days, and one of three sources (`origin`). A run asks for
what has a stamp since `Back` days before its own: 1 for arXiv and APS, 2 for
data. The stamp (`listed`) of a preprint or dataset is the day of its last
change; that of an article of APS is its publication, as the DAG asks by
`published` unless it is told otherwise (aps_harvest.py:37). A change is seen by
the run of its own day, if that comes later, and by those of the next `Back`
days; with catchup off a day without a run is not made up for. With `Back = 1` a
single bad day, that of the day after, loses the changes made after the run of
their day. What changes in an article of APS later than a day after its
publication is in no window, and one without a DOI (`nameless`) is passed over
and not reported (aps_harvest.py:116-118); `ChangesAreLoaded` says the first in
its bound (`listed`) and excepts the second.

Bounds: two batches with one article, two runs; two preprints, four days. Four
days hold a change, the window after it, and a run past it.

## Runs

| Run | Shows |
| --- | --- |
| `records` | Merging keeps redirections acyclic and permanent and PIDs in step with records, with two stale sessions; entries get and keep their links; new authors are created once, and their workflows show where they are; flags and counts follow concurrent changes |
| `incoming` | Updates lose no edit, and each is one merge with the record as it is, like a manual merge; conflicts are reviewed; deliveries are posted once; daily windows miss nothing that was not told, articles of APS without a DOI aside |
| `redirect_walk` | A lookup ends and never revisits a PID, while records are merged under it; what lookups answer changes by merges alone; that a lookup never meets a missing redirection is proved |
| `hep_workflows` | With searches that see what was written, one workflow of a paper at a time is admitted, the workflows implement a lock, and what is shown as stopped has stopped, whatever runs a late decision revives beside them |
| `hep_workflows_faults` | With lagging and failing searches and late saves, the newest harvest is kept and submissions never throw each other away |
| `hep_decisions` | A run stuck beside its decision can be found and repaired, if its type is looked for; what is stored was decided; what is asked can be answered |
| `hep_decisions_batch` | Batch decisions resume the run or show an error |
| `record_indexing` | The index ends with the latest versions and counts, however the tasks ran; redirections touch only what they should |
| `pushes` | ORCID and HAL end with the latest versions, the cache is right, no work is written over, the id that HAL gives undoes no edit |
| `hep_decisions_lost` | Finding: a single decision may be lost |
| `hep_workflows_blocked` | Finding: two workflows that start together block each other for good |
| `orcid_clash` | Finding: a work at ORCID is deleted instead of updated |

Every property of a passing run has a mutant in `PROJECT.json`: a change of one
definition, as a plausible bug would change the code, that makes TLC find the
property violated. The mutated forms stand next to the definitions they mutate.

To run one: `tlc -config MCRecords.cfg MCRecords`; to check the proofs:
`tlapm RecordPidsProofs.tla`.

## Findings

Checked by a run that shows the violation:

1. `resolve_workflow` clears the Airflow task before the decision it records
   has committed. The task may read no decision, halt again, and the request
   then saves RUNNING over the approval status: the workflow is halted and shown
   as running. `batch_resolve` uses `transaction.on_commit` and is right.
   `restart_resolved_workflows` exists to repair what this leaves, and
   `StoppedIsRepairable` shows that it can.
2. A push refused because another record's work has its identifiers lists that
   work once per identifier (putcode_getter.py:157). Listed twice, it is taken
   for a duplicate and deleted, and not pushed again as the comment in
   domain_models.py:134 says. Its cache entry stays, so later pushes of that
   record find nothing to do.
3. `check_for_blocking_workflows` (hep_create_dag.py:236) blocks both of two
   workflows that start together: each has shown itself as running before it
   searches. Blocked workflows are restarted by one that ends after it was
   admitted, and there is none. The backoffice answers a further submission that
   one "is currently being processed, please wait for blocking workflows to
   finish" (hep/api/views.py:165).

Met while modelling, and visible in the models as exceptions of the properties
or as assumptions of the theorems:

- `run_next_if_necessary` may leave all workflows blocked too: it restarts the
  oldest match before it blocks the others, and the restarted one blocks if it
  still finds one of those running, waiting or failed.
- A decision revives a run that has ended. `batch_resolve_workflows` clears the
  await task of a workflow that was discarded or blocked since the curator
  decided, and a page that is out of date does the same through
  `resolve_workflow`: nobody looks at the status (hep/tasks.py:43-52,
  hep/utils.py:81-104). The run goes on beside the workflow that was admitted,
  and after a batch its own is still shown as completed or blocked.
- A `merge_approve` that commits after a restart has restored the workflow, or
  comes from a page of before, is taken for the review of the new conflicts
  (hep/utils.py:81-104, hep_create_dag.py:1424-1437).
- `restart_resolved_workflows` looks at HEP_CREATE unless it is told otherwise
  (maintenance.py:44,132), so an update stuck at its merge, or a submission,
  is not found by default. A decision out of its time may also be the latest
  row, by which the command goes.
- `restart` checks the status long before it clears the run: a workflow that
  completed in between is processed again.
- The guards against a second submission search an index that lags, so two
  submissions created at the same time are both processed; the guard for author
  submissions does not count "processing" workflows either.
- Two bulk writes of one document may cross and leave the older count; a push
  to ORCID that lost its answer leaves a cache entry that does not match.
- A push to HAL that meets an edit writes back the external identifiers as they
  were before the edit; a creation at HAL that times out is not retried, though
  the task lists the time-out among what it retries.
- A manual merge moves roots before it stores the record, and keeps its approval
  over a restart that merges again. One that was asked to merge into a record
  that is merged already moves the roots and then cannot be stored; one of two
  records that were merged meanwhile redirects the named record only.
- A stub that gets its first paper after the cleaner has checked it is deleted,
  and from the second on also one that was claimed, and is no stub any more; and
  a disambiguation task may write a link to a stub that was deleted after the
  task had found it in the index.
- A disambiguation task that has used up its retries leaves the entries of its
  version without links until they change again or the repair command is run
  (disambiguation/tasks.py:211-218).
- An author restart that fails between deleting runs may leave a workflow shown
  as failed whose remaining runs have all ended: restart then refuses it
  (authors/api/views.py:303-327).
- Self-citation flags of rows that cite a superseded record stay as they were;
  some counts are not indexed again (see `Citations`). A citing record that is
  hidden, shown again, or superseded by a related record after the first changes
  counts that are not indexed again (literature.py:274-322).
- A cleared Elsevier download skips the packages it had downloaded. One day
  without a run loses changes of arXiv; changes of an APS article after its
  publication are never loaded, nor are articles without a DOI, and neither is
  reported.

## Proofs

All are safety properties, for every value of the constants that the
assumptions named below admit. Every invariant and action property that a
passing run checks is stated by a theorem. The three runs that check several
components in one have a theorem for their type invariant (`TypesOK`) as well:
a behaviour of such a run is one of each of its components (`PushPartsAreParts`,
`IncomingPartsAreParts`, `RecordPartsAreParts`), so what is proved of the
components holds of the run. `PROJECT.json` lists the theorems with their
modules.

**RecordPids** (`RecordPidsProofs`). The inductive invariant `Inv` is the
conjunction of `TypeOK`, `RedirectedIsMerged`, `PidsMatchRecord`,
`NoRedirectCycle` and `SnapshotsCurrent`. The last is the strengthening: what a
session loaded is what the database holds as long as the version is the same.
Without it an update could act on a PID status of the past, and none of the
others would be inductive. Acyclicity is stated without paths (every non-empty
set of PIDs has a member that is not redirected into it), which makes its step
first-order: a merge points some PIDs at one that is registered, so not
redirected, and a set closed under the new redirections without that target was
closed before. `MergesPermanent` follows from `Inv` at each step. Assumptions:
`NoRecid` is no control number, `TypeOf` is a function on control numbers.

**RedirectWalk** (`RecordPidsProofs`). The PIDs ahead of the walk lie in a set
that no redirection leaves and that holds nothing visited (`AheadIsNew`); a
merge only points PIDs at one that is not redirected (`RedirectStep`), and that
one can be added to the set as it cannot have been visited.

**MergedRecords** (`RecordPidsProofs`). `ImplementsMergedRecords`: initial states
map to initial states, and every step of the store is a step of `MergedRecords`
or a stutter. Every lookup has one answer (`OneAnswer`): the PIDs without an
answer, or with two, would each be redirected into their own set, against
`NoRedirectCycle`. `MergeAnswers` says what a merge does to answers: the PIDs
from which a lookup comes to a merged one are answered by the record it was
merged into, as a set around them that no redirection leaves and that lacks this
record would have been such a set before; all others keep their answer, as their
way meets no merged PID. The invariant added is `TypesAgree`: redirections keep
the type.

**RecordIndexing** (`RecordIndexingProofs`). `IndexingInv` says that every
version has its task (`VersionsHold`), what a task holds between reading and
writing is a version that exists (`TaskHolds`), and the core, `DocHolds`: a
document is some committed version, and at least as new as every version whose
task has written. With that a record none of whose tasks is left to write its
own document has the document of its last version. `RedirectHolds` gives
`RedirectOnlyRedirects`: the version the task loaded exists, and its save
succeeds only if that is still the latest. It assumes that the citing records
are finitely many (`RecAssumption`), for the counts.

`CountFollows` needs more (`CountInv`), for a count is read in one step and
written in another. A paper is `Due` when some task will yet read it for its
count: a task that has not read its own record and has the paper among the
records its version changed, a batch with the paper left in it. A count in the
index is right, or the paper is due, or a task that has read the right count is
about to write it (`CountShown`). What a task has read is the count of now
unless the paper is due (`Held`), and unless a reason is noted it is alone
between reading and writing that paper (`Alone`), so the last write is the one
that counts. A batch is never more than what its version changed (`TodoHolds`),
so a retry, which begins the batch again, loses nothing. The step that makes
counts wrong is a commit, and a commit that changes whether a record cites a
paper puts the paper among what its own task will visit, or is `unnoticed`: this is what
`ChangedRefs` is for, and dropping the references that were removed is one of
the mutants. Deletions and redirected references are never overlooked
(`NothingOverlooked`), so a save is the only way to be `unnoticed`. A paper that is deleted stays so, hence its count stays of no
interest.

**Citations** (`AuthorsProofs`). `FlagsInv`: what an open transaction saw of
another record still holds, unless that one committed since, and then the pair
is `crossed` when both have committed (`SeenIsSo`). So the flags a transaction
writes are right of everything but what it could not see. `CountsInv` adds
`CountComes`: a count in the index that is wrong, and not `unnoticed`, has a
task whose targets include the record. Works are finitely many
(`WorksAssumption`), for a count is a number.

**AuthorLinks** (`AuthorsProofs`). `PlanIsOpen`: a task plans nothing for a
curated entry as long as the paper is what it read. `EntriesAreLinked` rests on
`EntriesInv`: an entry that is not settled is `missed`, or due in a version that
no task has read; such a version has its task, waiting or under way, or that was
`dropped`; and the plan of a task that read the latest version covers every entry that was due in
it. A commit, by whomever, leaves only those entries unsettled that it changed,
and these are due in the version it makes.

**AuthorWorkflows** (`AuthorsProofs`). `RecordIsKnown`: a workflow that
has not lost track has posted at most one record, and if one, holds its number
or is about to store it; so the backend refuses another. `OrcidIsOnce` needs no
number: workflows with one ORCID have one record between them, lost or not.
`AuthorsAreShown` rests on `ShownInv`: of the three runs of a workflow those of
a decision begin after the first has ended (`InOrder`), so among the runs that
have ended or failed one is the last, and its callback set the status; a request
that has still to save its row is noted (`saving`) until then. A restart on its
way lists every run that it has not deleted (`RestartsHold`), and one that has
deleted any is remembered as cut, so that a workflow it leaves with some of its
runs is `spoilt`.

**OrcidPush** (`PushesProofs`), in four invariants, each using those before it.

- `OwnInv`: a putcode is for ever of the record it was given for, wherever it is
  held: at ORCID, in the cache, in what a task has listed, in the putcode it is
  about to use. ORCID gives a new putcode for each new work, and refuses a
  second work with an identifier of another, of which the control number is
  one. So `NoForeignWork`: a put by a stale
  putcode meets the record's own work or none.
- `HitInv`: unless pushes of a record overlap, one worker is at it
  (`Uncrossed`); between the write and the note in the cache its one work is
  what was sent (`WrittenHolds`); otherwise the cache says what ORCID has
  (`CacheTrue`). So `CacheHitIsTrue`.
- `FreshInv`: a task has what is committed, or a later task of the record
  waits. `LeftInv`: what a task has listed, what it is about to delete, and the
  putcode in the cache between them cover all works of the record, so that what
  is deleted leaves none behind.
- `Arrives`: the latest version of a record is under way or arrived. The last
  step of a task is where it could go wrong: it ends having written the latest
  version, or having found nothing to do by a true cache, or having deleted all
  works of a deleted record, or with a later task waiting. `WorkIsLatest`
  follows for a record that is quiet.

It assumes that putcodes are numbered up to a bound and `NoRec` is no record
(`PushAssumption`). The clash that the finding shows is in the invariants as
what it is: a work deleted for another reason (`dropped`).

**HalPush** (`PushesProofs`). `HalInv`: the text of the paper is that of the
last edit, and a text that has named its deposit goes on naming it
(`PaperHolds`, `EditIsLast`); one worker has the lock of the paper, and while
it has, the deposit is what it sent (`LockHolds`, `PusherHolds`); the task of
the last edit waits or runs, or what it had to bring has arrived (`TaskHolds`).
It assumes that versions are bounded by a number (`VersionsAssumption`).

**RecordUpdates** (`RecordUpdatesProofs`). `UpdatesInv` relates every run to the
record it works on. `UpdateHolds`: if the head is still the version the run has
read, what the run is about to send is the three-way merge of the head as it is
with something that `Stands` there, which is what updates of its own source
brought and the record had. `RootsAreStored`: every root stands where it is, or
stood in a record whose roots were moved here. This is what makes the three-way
merge safe, as what it drops is what the root had. `ManualHolds` says that a
manual merge keeps all of the head and adds only what the other record had,
`DecisionHolds` that a decision which lets conflicts pass is about this merge or
was late. Most steps are
`Calm`: they forget nothing that a record had or a source brought, and then
everything a run holds is kept (`CalmRuns`).

`UpdatesAreAtomicHolds` is the refinement of `ThreeWayRecords`: `StoreUpdate` is
its update (the old value is the one in `UpdateHolds`, and the head is current
as the PUT is accepted), `StoreManual` its join, `CopyRoot` its loan of roots, an
edit its edit, and no other step is seen. `EditsSurvive`, `UpdateArrives` and
`ConflictsAreReviewed` follow at the step that stores. `UpdateArrives`, that
what an update brings is in the record when it is stored unless it was taken out
before, is proved and not run, since `UpdatesAreAtomic` says more.

**HepWorkflows** (`HepWorkflowsProofs`). `HepTypeCorrect` needs `WakesSome` (a
run restarts another only when it found one, so the oldest match exists).
`OneAdmitted` rests on the invariant `Admission`: every run that searches, or that
was admitted, is `Visible` in a running status, at most one has an empty search
behind it or was admitted (`OneOwner`), and no restart has its status still to
save (`NoLateSave`). A decision never hides a run
that holds the paper: what it saves is RUNNING or an error, and both are found. It assumes that searches see what was written and restarts save
before the run begins; the submissions that are processed side by side show
that the assumption on searches cannot be dropped. `ImplementsLock` has the
same assumptions: initial states map to a free lock, and `LockStep` shows that a
step between two states with one owner each takes, releases or leaves it,
because no step replaces one owner by another (`NoTakeover`). `ShownIsTrue`
needs the assumption on restarts only.

The discards are proved with every fault allowed.
`NewestKept` rests on `Ages`: only what has a row is searched, found or
restarted; no two rows have the same creation time; and what a run is about to
discard is of its source and older than its own workflow. So the newest of a
source can discard and is never discarded, whatever the searches miss.
`SubmissionsKept` rests on `NoneAtRisk`: no run holds a submission it is about
to discard. The guard against a second submission and the discards read the
same search result, so what the first misses the second misses too. It assumes
that submissions and harvests have different sources (`SourcesApart`), as they
do: `submitter` is the source of submissions only.

**HepDecisions** (`HepDecisionsProofs`). `DecidedHolds` says what rows, requests
and run have to do with each other: no two rows, and no two open requests,
exclude each other (`RowsExclude`); rows are about what this paper is asked
(`RowsFit`); the tasks a run has come to, which the status and its copy in S3
name, follow from the paper and the flags (`ReachedHolds`): the fuzzy question
and at most one of merge, approval and CORE; behind the fuzzy question its
decision stands and agrees with the flag (`FuzzyHolds`); and the flag that lets
the record be stored has a reason (`ApprovedHolds`). `StoredAsDecided` and
`AnswerIsPossible` follow: what contradicts an answer to the present question
would be a row about another one, or one that is `stray`. For `StoppedIsRepairable` the order in time
matters, and two more parts: a row that is not committed yet is later than all
rows of other tasks (`StampsHold`), and a decision that is there while the run
waits for it is the latest of all (`WaitHolds`). Hence the task that
`restart_resolved_workflows` derives from the latest row is the one at which
the run is stuck, if none of the rows in question is `stray`; that it is also the
task the command clears holds for the types it is called for.

**HarvestWindows** (`HarvestsProofs`). No run is ahead of its day and a day has
one run (`DaysHold`); what the run under way did not fetch was changed on its
day or later, or stamped before its window (`FetchedHolds`). It assumes that days are
numbered (`DaysAssumption`).

**HarvestBatches** (`HarvestsProofs`). `RunHolds`: what a run has taken or made
ready lies in the bucket, and is told when the run fails. `NoneLeftOut`: an
article of a batch in the bucket that was not posted is kept by some run or
told. `NoneTwice`: an article without a reason for repetition comes in one
batch (`OneBatch`); while one run will post it no other will, or may take the
batch (`OnePosts`), and none does once it is posted (`PostedAtMostOnce`).

The named assumptions about constants are evaluated by TLC in every run that
uses their module: markers like `NoRecid` are no members of the sets they mark
the absence of, bounds are numbers, and the sets that are counted are finite.

Model-checked only: the liveness properties `WalkEnds` and `BatchResumes`, which
are out of the prover's reach, and the three findings.

## Limits of the models

- `RecordPids` leaves out `force_undelete`, an update that changes the control
  number, and `InspireRedirect.delete`, which nothing calls.
- In `RecordIndexing` a record that was merged is not merged again
  (base.py:436-439 allows it); `RecordPids` and `MergedRecords` have such merges.
- `OrcidPush` assumes that ORCID never has two works of one identifier, the
  control number included. A second work of one record in the listing, which
  `_delete_works_with_duplicated_putcodes` removes (domain_models.py:213-232) and
  a test is about, is left out for that reason.
- In `HepWorkflows` the rows of decisions are left to `HepDecisions`, a retry of a
  failed task is one step, and the full-row updates of the tasks between admission
  and completion leave the status within the running statuses, so they are not
  separate steps. A decision during the first tasks of a run finds nothing to
  clear. What Airflow makes of the skipped tasks of a run that is cleared after it
  ended is left open: it works again, or only its last task does.
- In `AuthorLinks` the tries of a task are not counted.
- A run's discard and block requests, with their call of Airflow, and the discard
  of itself are one step each; only a restart is split. Discard and block requests
  that a curator makes are left out.
- Two workflows of a paper have different creation times (`_created_at` has
  microseconds); with equal ones the `>=` of the discards would hold both ways.
- A task that Airflow stops when its run is marked as ended may still write for
  a moment; that is left out.
- The documents of one workflow may reach the index out of order; `Refresh`
  always writes the latest status.
- `Prepare` starts when no resolve request is open: the tasks it stands for call
  two services and take longer than a request.
- Decision rows without a task (`auto_accept_core`, `auto_reject`, `discard`)
  are left out. `restart_resolved_workflows` skips a workflow whose latest row
  is one of them; such a run is past every await task, so it is not halted.
- `Citations` leaves out row locks between two transactions that write the same
  rows, hard deletion, the CLI that rebuilds relations, and self references.
  Collaborations are treated as further persons.
- `HarvestWindows` has one run at a time; `HarvestBatches` leaves out a delivery
  that is listed while the publisher still uploads it.
- In `AuthorLinks` matching is any profile the search may find; a paper has one
  update open at a time. In `AuthorWorkflows` tickets and `author_update`,
  which creates nothing, are left out.
- Components checked in one run do not interact in it: what joins them in the
  code is that each commits records through the record store, and each model
  has the part of that store (versions, stale sessions) it depends on.
- The state constraints and the small sets above bound the runs, not the proofs.

## Not modelled

- Editor locks (`editor/editor_soft_lock.py`): advisory entries in Redis that
  expire; no write is refused because of one, so no property of the records
  depends on them.
- Files, search, serializers, formatting, matcher, OAI, SNOW, mailing:
  queries, conversions and calls of other services, without state of their own
  that two processes share.
- Curation tools: bulk edits through `InspireRecord.update`.
- ui and record-editor: they appear as the requests curators make.

## Plan

1. The relations of conferences, institutions, experiments and journals, which
   follow the pattern of `Citations` without its flags.
2. The tasks between admission and decision of `hep_create_dag`, and the bulk
   edits of the curation tools, as far as they change state.
