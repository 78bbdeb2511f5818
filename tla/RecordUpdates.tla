--------------------------- MODULE RecordUpdates ---------------------------
(***************************************************************************)
(* How accepted updates get into records: a run of hep_create_dag merges   *)
(* an update with the record it matched (the head) and the last update of  *)
(* the same source (the root), and a run of hep_manual_merge_dag merges    *)
(* two records.  Both may wait for a curator, while the head is edited,    *)
(* and send what they merged only if the head is still what they read.     *)
(*                                                                         *)
(* Sources: src/workflows/dags/literature/hep_create_dag.py,               *)
(* hep_manual_merge.py and store_root_task.py, and what they call of       *)
(* src/workflows/plugins/ and of records/views.py of the backend.  The     *)
(* metadata of a record is a set of items; the run of a task is split at   *)
(* its calls to the backend.                                               *)
(***************************************************************************)
EXTENDS Naturals, FiniteSets

CONSTANTS
  Paper,        \* records of the backend
  Source,       \* sources of updates: arxiv, publisher, submitter
  Item,         \* pieces of metadata
  Run,          \* workflow runs
  NoPaper,      \* no record
  LastVersion   \* bound on the versions of a record

ASSUME UpdatesAssumption == NoPaper \notin Paper

VARIABLES
  head,         \* the records: version, items, deleted_records, and what each was merged into
  root,         \* workflows_record_sources: none or one update per source
  run,          \* what each run does
  ahead,        \* pairs of records: the first has roots of the second that it may
                \* not have the items of
  removed,      \* history: items that were taken out of each record
  brought       \* history: items that updates of each source put into it

updatesVars == <<head, root, run, ahead, removed, brought>>
historyVars == <<removed, brought>>

Roots == SUBSET (SUBSET Item)
Head == [version : Nat, items : SUBSET Item, deleted : SUBSET Paper, into : Paper \cup {NoPaper}]

\* "asked" and "named" are the records that the run is about, "rec" and "other"
\* those that answer for them.  "base", "merged" and "deleted" are what the run
\* read and what it will send; "roots" are the roots of the other record as they
\* were listed, "copies" the sources of those that are newer; "failed" is the
\* task that failed.  "conflicts" are those of the last merge, "approved" a
\* decision about conflicts.  History: "reviewed", whether a curator who had the
\* conflicts of the last merge on the page decided; "late", whether the decision
\* came from a page that did not have those of the moment.
Place == {"idle", "start", "head", "merged", "await", "roots", "moving", "store", "root",
          "done", "failed"}
RunState ==
  [at : Place, kind : {"update", "manual"}, asked : Paper \cup {NoPaper},
   named : Paper \cup {NoPaper}, rec : Paper \cup {NoPaper}, other : Paper \cup {NoPaper},
   source : Source, update : SUBSET Item, base : Nat, read : SUBSET Item,
   merged : SUBSET Item, deleted : SUBSET Paper, roots : [Source -> Roots],
   copies : SUBSET Source, conflicts : BOOLEAN, approved : BOOLEAN, reviewed : BOOLEAN,
   late : BOOLEAN, failed : Place \ {"failed"}]

NoRoots == [s \in Source |-> {}]
Fresh(s) ==
  [at |-> "idle", kind |-> "update", asked |-> NoPaper, named |-> NoPaper, rec |-> NoPaper,
   other |-> NoPaper, source |-> s, update |-> {}, base |-> 0, read |-> {}, merged |-> {},
   deleted |-> {}, roots |-> NoRoots, copies |-> {}, conflicts |-> FALSE, approved |-> FALSE,
   reviewed |-> FALSE, late |-> FALSE, failed |-> "idle"]

UpdatesTypeOK ==
  /\ head \in [Paper -> Head]
  /\ root \in [Paper -> [Source -> Roots]]
  /\ run \in [Run -> RunState]
  /\ ahead \subseteq Paper \X Paper
  /\ removed \in [Paper -> SUBSET Item]
  /\ brought \in [Paper -> [Source -> SUBSET Item]]

UpdatesInit ==
  /\ \E items \in [Paper -> SUBSET Item] :
       head = [p \in Paper |-> [version |-> 1, items |-> items[p], deleted |-> {}, into |-> NoPaper]]
  /\ root = [p \in Paper |-> NoRoots]
  /\ \E s \in Source : run = [w \in Run |-> Fresh(s)]
  /\ ahead = {}
  /\ removed = [p \in Paper |-> {}]
  /\ brought = [p \in Paper |-> NoRoots]

Go(w, state) == run' = [run EXCEPT ![w] = state]
At(w, place) == run[w].at = place
Stored(p) == head[p].into = NoPaper

\* What a record has or had.
Had(p) == head[p].items \cup removed[p]

-----------------------------------------------------------------------------
(* Edits                                                                   *)

\* Another version of a record; its deleted_records, which may be merged already,
\* are redirected to it, each time.
Put(p, items, deleted) ==
  head' = [q \in Paper |->
    IF q = p THEN [head[q] EXCEPT !.version = @ + 1, !.items = items, !.deleted = deleted]
    ELSE IF q \in deleted THEN [head[q] EXCEPT !.version = @ + 1, !.into = p]
    ELSE head[q]]

\* The items that the record does not have any more.
Lose(p, items, had) == removed' = [removed EXCEPT ![p] = had \ items]

\* A curator edits a record (with a version check of its own).
EditRecord(p) ==
  /\ Stored(p) /\ head[p].version < LastVersion
  /\ \E i \in Item :
       LET items == IF i \in head[p].items THEN head[p].items \ {i} ELSE head[p].items \cup {i}
       IN Put(p, items, head[p].deleted) /\ Lose(p, items, Had(p))
  /\ UNCHANGED <<root, run, ahead, brought>>

-----------------------------------------------------------------------------
(* Starting and merging                                                    *)

\* The record that was matched, or that the curator asked for, may be merged by
\* now; and several updates of one record may be here.
StartUpdate(w) ==
  /\ At(w, "idle")
  /\ \E p \in Paper, s \in Source, update \in SUBSET Item :
       Go(w, [Fresh(s) EXCEPT !.at = "start", !.asked = p, !.rec = p, !.update = update])
  /\ UNCHANGED <<head, root, ahead, historyVars>>

StartManual(w) ==
  /\ At(w, "idle")
  /\ \E p, o \in Paper :
       /\ p # o
       /\ Go(w, [Fresh(run[w].source) EXCEPT !.at = "start", !.kind = "manual",
                                             !.asked = p, !.named = o, !.rec = p, !.other = o])
  /\ UNCHANGED <<head, root, ahead, historyVars>>

\* The backend answers for a merged record with the one it was merged into.
FollowRedirect(w) ==
  LET r == run[w] IN
  /\ \/ /\ At(w, "start") /\ ~Stored(r.rec)
        /\ Go(w, [r EXCEPT !.rec = head[r.rec].into])
     \/ /\ At(w, "head") /\ r.kind = "manual" /\ ~Stored(r.other)
        /\ Go(w, [r EXCEPT !.other = head[r.other].into])
  /\ UNCHANGED <<head, root, ahead, historyVars>>

\* get_record: the head, with its version.
ReadHead(w) ==
  LET h == head[run[w].rec] IN
  /\ At(w, "start") /\ Stored(run[w].rec)
  /\ Go(w, [run[w] EXCEPT !.at = "head", !.base = h.version, !.read = h.items,
                          !.deleted = h.deleted])
  /\ UNCHANGED <<head, root, ahead, historyVars>>

\* The three-way merge of inspire_json_merger: what only one side changed.
Merged(items, old, update) ==
  {i \in items \cup update : i \in old => i \in items \cap update}

RootItems(p, s) == UNION root[p][s]

\* merge_articles and merge_records: there may be conflicts, which count as
\* reviewed only by a decision that is made about them.
Merge(w) ==
  LET r == run[w] IN
  /\ At(w, "head")
  /\ \E conflicts \in BOOLEAN :
       LET next == [r EXCEPT !.at = "merged", !.read = {}, !.conflicts = conflicts,
                             !.reviewed = FALSE]
       IN
       \/ /\ r.kind = "update"
          /\ Go(w, [next EXCEPT !.merged = Merged(r.read, RootItems(r.rec, r.source), r.update)])
       \/ /\ r.kind = "manual" /\ Stored(r.other)
          /\ Go(w, [next EXCEPT !.merged = Merged(r.read, {}, head[r.other].items),
                                !.deleted = @ \cup head[r.other].deleted \cup {r.named}])
  /\ UNCHANGED <<head, root, ahead, historyVars>>

\* await_merge_conflicts_resolved: waits if there are conflicts and no decision.
Resolved(w) == ~run[w].conflicts \/ run[w].approved
Await(w) ==
  /\ At(w, "merged")
  /\ \/ /\ ~Resolved(w)
        /\ Go(w, [run[w] EXCEPT !.at = "await"])
     \/ /\ Resolved(w) /\ run[w].kind = "update"
        /\ Go(w, [run[w] EXCEPT !.at = "store"])
     \/ /\ Resolved(w) /\ run[w].kind = "manual"
        /\ Go(w, [run[w] EXCEPT !.at = "roots"])
  /\ UNCHANGED <<head, root, ahead, historyVars>>

\* resolve clears the await task, with what comes after it, unless the run is not
\* there yet.  Runs that are over are left out: they would find another version.
Passed == {"merged", "await", "roots", "moving", "store", "root"}
Cleared(r) ==
  IF r.at \in Passed \/ (r.at = "failed" /\ r.failed \in Passed)
    THEN [r EXCEPT !.at = "merged", !.failed = "idle", !.roots = NoRoots, !.copies = {}]
    ELSE r

\* A curator decides, whatever the run does meanwhile: from the page with the
\* conflicts, or from one that is out of date.  The first decision stays.  The
\* clear may fail, or come before the decision can be seen.
Approve(w) ==
  LET r == run[w] IN
  /\ r.at \notin {"idle", "done"}
  /\ \E seen \in {r.at = "await", FALSE} :
       LET decided == [r EXCEPT !.approved = TRUE, !.reviewed = @ \/ seen,
                                !.late = @ \/ (~r.approved /\ ~seen)]
       IN Go(w, Cleared(decided)) \/ Go(w, decided)
  /\ UNCHANGED <<head, root, ahead, historyVars>>

-----------------------------------------------------------------------------
(* Storing                                                                 *)

\* save_roots lists the roots of both records.  Those of the other one that are
\* newer, or that the head has none of, are copied to the head; all are deleted.
ListRoots(w) ==
  LET r == run[w] IN
  /\ At(w, "roots")
  /\ \E newer \in SUBSET Source :
       /\ \A s \in Source : root[r.rec][s] = {} => s \in newer
       /\ Go(w, [r EXCEPT !.at = "moving", !.roots = root[r.other],
                          !.copies = {s \in newer : root[r.other][s] # {}}])
  /\ UNCHANGED <<head, root, ahead, historyVars>>

\* Records whose roots a record may hold when it has got one of another.
Origins(p, o) == ({o} \cup {q \in Paper : <<o, q>> \in ahead}) \ {p}

CopyRoot(w, s) ==
  LET r == run[w] IN
  /\ At(w, "moving") /\ s \in r.copies
  /\ root' = [root EXCEPT ![r.rec][s] = r.roots[s]]
  /\ ahead' = ahead \cup {<<r.rec, o>> : o \in Origins(r.rec, r.other)}
  /\ Go(w, [r EXCEPT !.copies = @ \ {s}])
  /\ UNCHANGED <<head, historyVars>>

DeleteRoot(w, s) ==
  LET r == run[w] IN
  /\ At(w, "moving") /\ r.roots[s] # {} /\ s \notin r.copies
  /\ root' = [root EXCEPT ![r.other][s] = {}]
  /\ Go(w, [r EXCEPT !.roots[s] = {}])
  /\ UNCHANGED <<head, ahead, historyVars>>

RootsSaved(w) ==
  /\ At(w, "moving") /\ run[w].roots = NoRoots
  /\ Go(w, [run[w] EXCEPT !.at = "store"])
  /\ UNCHANGED <<head, root, ahead, historyVars>>

FailedInPlace(w) == [run[w] EXCEPT !.at = "error"]  \* mutant: which task is lost
Failed(w) == [run[w] EXCEPT !.at = "failed", !.failed = run[w].at]

\* If-Match: the record is what was read.  is_fresh_data asks the same before.
AnyBase(w) == TRUE                           \* mutant: no version check
IsHead(w) == head[run[w].rec].version = run[w].base

\* A merged record takes no update.  A manual merge sends to the record it was
\* asked for, an update to the one it has read.
Accepted(w) ==
  /\ IsHead(w) /\ Stored(run[w].rec)
  /\ run[w].kind = "manual" => run[w].rec = run[w].asked

\* store_record of an update.  The PUT is repeated when its answer is lost, and
\* then refused.
StoreUpdate(w) ==
  LET r == run[w] IN
  /\ At(w, "store") /\ r.kind = "update"
  /\ Accepted(w) /\ head[r.rec].version < LastVersion
  /\ Put(r.rec, r.merged, r.deleted) /\ Lose(r.rec, r.merged, Had(r.rec))
  /\ brought' = [brought EXCEPT ![r.rec][r.source] = @ \cup r.update]
  /\ Go(w, [r EXCEPT !.at = "root"]) \/ Go(w, Failed(w))
  /\ UNCHANGED <<root, ahead>>

\* store_record of a manual merge: deleted_records makes the backend merge the
\* record that was named into the head, in the same transaction.
StoreManual(w) ==
  LET r == run[w] IN
  /\ At(w, "store") /\ r.kind = "manual"
  /\ Accepted(w) /\ head[r.rec].version < LastVersion
  /\ Put(r.rec, r.merged, r.deleted) /\ Lose(r.rec, r.merged, Had(r.rec) \cup Had(r.other))
  /\ brought' = [brought EXCEPT
       ![r.rec] = [s \in Source |-> @[s] \cup brought[r.other][s]]]
  /\ ahead' = ahead \ {<<r.rec, r.other>>}
  /\ Go(w, [Fresh(r.source) EXCEPT !.at = "done"]) \/ Go(w, Failed(w))
  /\ UNCHANGED root

\* The record was changed or merged since it was read, or the one that was asked
\* for before: the run fails.
StoreRefused(w) ==
  /\ At(w, "store")
  /\ ~Accepted(w)
  /\ Go(w, Failed(w))
  /\ UNCHANGED <<head, root, ahead, historyVars>>

\* store_root: the update, as it came, is the root of the next one.
RootReady(w) == run[w].at \in {"store", "root"}  \* mutant: before the record
RecordStored(w) == At(w, "root")
StoreRoot(w) ==
  LET r == run[w] IN
  /\ RecordStored(w) /\ r.kind = "update"
  /\ root' = [root EXCEPT ![r.rec][r.source] = {r.update}]
  /\ Go(w, [Fresh(r.source) EXCEPT !.at = "done"])
  /\ UNCHANGED <<head, ahead, historyVars>>

-----------------------------------------------------------------------------
(* Failures and restarts                                                   *)

FailRun(w) ==
  /\ run[w].at \notin {"idle", "failed", "done", "await"}
  /\ Go(w, Failed(w))
  /\ UNCHANGED <<head, root, ahead, historyVars>>

\* Reading begins with the records that the run is about.
Afresh(r, p) ==
  [r EXCEPT !.at = "start", !.failed = "idle", !.asked = p, !.rec = p, !.other = r.named,
            !.base = 0, !.read = {}, !.deleted = {}]

\* restart_current_task: the failed task runs again, from its beginning.
RestartTask(w) ==
  LET r == run[w] IN
  /\ At(w, "failed")
  /\ \/ r.failed \in {"start", "head"} /\ Go(w, Afresh(r, r.asked))
     \/ /\ r.failed = "moving"
        /\ Go(w, [r EXCEPT !.at = "roots", !.failed = "idle", !.roots = NoRoots, !.copies = {}])
     \/ /\ r.failed \notin {"start", "head", "moving"}
        /\ Go(w, [r EXCEPT !.at = r.failed, !.failed = "idle"])
  /\ UNCHANGED <<head, root, ahead, historyVars>>

\* restart: hep_create_dag restores the workflow first, which deletes its
\* decisions, and matches it again; hep_manual_merge_dag does not.
KeepAll(r) == TRUE                           \* mutant: nothing is restored
KeepsDecisions(r) == r.kind = "manual"
RestartRun(w) ==
  LET r == run[w] IN
  /\ r.at \in {"failed", "await"}
  /\ \E p \in Paper :
       /\ r.kind = "manual" => p = r.asked
       /\ Go(w, [Afresh(r, p) EXCEPT !.merged = {}, !.roots = NoRoots, !.copies = {},
                                     !.conflicts = FALSE, !.reviewed = FALSE,
                                     !.approved = KeepsDecisions(r) /\ @,
                                     !.late = KeepsDecisions(r) /\ @])
  /\ UNCHANGED <<head, root, ahead, historyVars>>

-----------------------------------------------------------------------------

UpdatesNext ==
  \/ \E p \in Paper : EditRecord(p)
  \/ \E w \in Run :
       \/ StartUpdate(w) \/ StartManual(w) \/ FollowRedirect(w) \/ ReadHead(w)
       \/ Merge(w) \/ Await(w) \/ Approve(w) \/ ListRoots(w)
       \/ RootsSaved(w) \/ StoreUpdate(w) \/ StoreManual(w) \/ StoreRefused(w) \/ StoreRoot(w)
       \/ FailRun(w) \/ RestartTask(w) \/ RestartRun(w)
       \/ \E s \in Source : CopyRoot(w, s) \/ DeleteRoot(w, s)

UpdatesSpec == UpdatesInit /\ [][UpdatesNext]_updatesVars

-----------------------------------------------------------------------------
(* Properties                                                              *)

Ahead(p) == \E o \in Paper : <<p, o>> \in ahead

\* No edit is lost to an update, however long it waited and whatever failed and
\* was restarted: an update takes out of the record only what updates of its
\* own source brought, unless roots of another record were moved to it ahead of
\* a merge.
EditsSurvive ==
  [][\A w \in Run :
       LET p == run[w].rec IN
       StoreUpdate(w) /\ ~Ahead(p) =>
         head[p].items \ head'[p].items \subseteq brought[p][run[w].source] \ run[w].update
    ]_updatesVars

\* What an update brings is in the record when it is stored, except for what
\* was taken out of the record before, with the same exception.
UpdateArrives ==
  [][\A w \in Run :
       LET p == run[w].rec IN
       StoreUpdate(w) /\ ~Ahead(p) =>
         run[w].update \ head'[p].items \subseteq removed[p]]_updatesVars

\* What a curator decided about one merge does not pass the conflicts of another,
\* though the run waits, fails, is restarted and merges again in between: an
\* update that conflicts is stored only when somebody who saw these conflicts has
\* decided, or somebody whose page was out of date when the decision was stored,
\* which resolve does not refuse.
ConflictsAreReviewed ==
  [][\A w \in Run :
       StoreUpdate(w) /\ run[w].conflicts => run[w].reviewed \/ run[w].late]_updatesVars

\* To whom looks at the records an update is one step, though a run reads, merges,
\* waits and stores: the three-way merge with the record as it is when it is
\* stored.  A manual merge is one step too, which takes nothing out of the record.
Records == INSTANCE ThreeWayRecords WITH
  items <- [p \in Paper |-> head[p].items], had <- [p \in Paper |-> Had(p)], lent <- ahead
UpdatesAreAtomic ==
  /\ Records!RecordsSpec
  /\ [][\A w \in Run :
          LET r == run[w] IN
          /\ StoreUpdate(w) => Records!Update(r.rec, r.source, r.update)
          /\ StoreManual(w) => Records!Join(r.rec, r.other)]_updatesVars
=============================================================================
