--------------------------- MODULE RecordIndexing ---------------------------
(***************************************************************************)
(* The search index beside the records: every commit of a record sends a   *)
(* task that indexes the version it committed, and then all records whose  *)
(* citation count the new references change.  Tasks run in any order, two  *)
(* at a time, are retried and given up; OpenSearch keeps the document with *)
(* the highest version.  A merge sends a task that finds the references to *)
(* the merged record in that index and rewrites them in the records.       *)
(*                                                                         *)
(* Sources: src/backend/inspirehep/indexer/, records/receivers.py,         *)
(* records/tasks.py, and what they call of records/api/.  The data of a    *)
(* record is what these tell apart: its references, whether it is deleted, *)
(* superseded or out of the collection, and what it was merged into.  A    *)
(* record that was merged is not merged again.                             *)
(***************************************************************************)
EXTENDS Naturals, Sequences, FiniteSets

CONSTANTS
  Paper,        \* records that are cited
  Citer,        \* records that cite them
  NoRec,        \* no record
  MaxVersion    \* bound on the versions of a record

Rec == Paper \cup Citer

ASSUME RecAssumption ==
  IsFiniteSet(Citer) /\ Paper \cap Citer = {} /\ NoRec \notin Rec

VARIABLES
  history,      \* the committed versions of each record
  erasing,      \* records an open transaction hard deletes
  erased,       \* records that were hard deleted
  removing,     \* hard deleted records with a task that removes their document
  doc,          \* the document of each record in the index
  task,         \* the index task of each version of a record
  redirect,     \* the task that redirects the references to a merged record
  spoilt        \* which document may be wrong, and why

recVars == <<history, erasing, erased, removing>>
indexingVars == <<history, erasing, erased, removing, doc, task, redirect, spoilt>>

\* "successor" is where related_records names one: not at all, in the first entry,
\* or in later ones only; "listed", whether the record is in the collection.
Data == [refs : SUBSET Paper, gone : BOOLEAN, into : Paper \cup {NoRec},
         successor : {"none", "first", "later"}, listed : BOOLEAN]

\* A document; one that is not live is a tombstone that keeps its version.
Document == [live : BOOLEAN, version : Nat, refs : SUBSET Paper, count : Nat]
Tombstone(v) == [live |-> FALSE, version |-> v, refs |-> {}, count |-> 0]

\* An index task: what it has read of record "on" and not yet written, and
\* the cited records it still has to index.
Task == [at : {"queued", "own", "batch", "bulk", "lost"}, todo : SUBSET Paper,
         on : Rec \cup {NoRec}, version : Nat, count : Nat]
Queued == [at |-> "queued", todo |-> {}, on |-> NoRec, version |-> 0, count |-> 0]

Redirection == [at : {"idle", "queued", "scan", "loaded"}, todo : SUBSET Citer,
                on : Citer \cup {NoRec}, version : Nat]
Idle == [at |-> "idle", todo |-> {}, on |-> NoRec, version |-> 0]

\* An update was given up, two writes of a document crossed, a delete lost
\* against a newer version, a tombstone was forgotten, a record was erased, or
\* began or ceased to cite without the index task looking at that.
Reason == {"outage", "crossed", "conflict", "forgotten", "erased", "unnoticed"}

IndexingTypeOK ==
  /\ history \in [Rec -> Seq(Data)]
  /\ erasing \subseteq Citer /\ erased \subseteq Citer /\ removing \subseteq Citer
  /\ doc \in [Rec -> Document]
  /\ task \in [Rec -> Seq(Task)]
  /\ redirect \in [Paper -> Redirection]
  /\ spoilt \subseteq Reason \X Rec

\* Every record is there and indexed.
IndexingInit ==
  \E refs \in [Citer -> SUBSET Paper] :
    LET cited(r) == IF r \in Citer THEN refs[r] ELSE {}
        count(r) == Cardinality({c \in Citer : r \in refs[c]})
    IN  /\ history = [r \in Rec |-> <<[refs |-> cited(r), gone |-> FALSE, into |-> NoRec,
                                        successor |-> "none", listed |-> TRUE]>>]
        /\ doc = [r \in Rec |-> [live |-> TRUE, version |-> 1, refs |-> cited(r), count |-> count(r)]]
        /\ erasing = {} /\ erased = {} /\ removing = {}
        /\ task = [r \in Rec |-> <<[Queued EXCEPT !.at = "batch"]>>]
        /\ redirect = [p \in Paper |-> Idle]
        /\ spoilt = {}

Latest(r) == history[r][Len(history[r])]
Blame(why, recs) == {why} \X recs

-----------------------------------------------------------------------------
(* Commits                                                                 *)

\* models_committed: the task for the version is sent when it is there.
Committed(r, data) ==
  /\ history' = [history EXCEPT ![r] = Append(@, data)]
  /\ task' = [task EXCEPT ![r] = Append(@, Queued)]

CanSave(r) == Len(history[r]) < MaxVersion /\ r \notin erased

\* What the index task overlooks of an update: that the record is put into or
\* taken out of the collection, or superseded by a related record after the first.
Overlooked(old, new) ==
  IF new.listed # old.listed \/ {new.successor, old.successor} = {"none", "later"}
  THEN new.refs ELSE {}

\* An update of a record: one that cites may get other references, a successor,
\* or another collection.
Save(r) ==
  /\ CanSave(r)
  /\ \/ Committed(r, Latest(r)) /\ UNCHANGED spoilt
     \/ \E refs \in SUBSET Paper, successor \in {"none", "first", "later"}, listed \in BOOLEAN :
          LET data == [Latest(r) EXCEPT !.refs = refs, !.successor = successor, !.listed = listed] IN
          /\ r \in Citer
          /\ Committed(r, data)
          /\ spoilt' = spoilt \cup Blame("unnoticed", Overlooked(Latest(r), data))
  /\ UNCHANGED <<erasing, erased, removing, doc, redirect>>

DeleteRecord(r) ==
  /\ CanSave(r) /\ ~Latest(r).gone
  /\ Committed(r, [Latest(r) EXCEPT !.gone = TRUE])
  /\ UNCHANGED <<erasing, erased, removing, doc, redirect, spoilt>>

\* p is merged into q: both are written in one transaction.
Merge(p, q) ==
  LET merged == [Latest(p) EXCEPT !.gone = TRUE, !.into = q] IN
  /\ p # q /\ CanSave(p) /\ CanSave(q)
  /\ ~Latest(p).gone /\ ~Latest(q).gone
  /\ history' = [history EXCEPT ![p] = Append(@, merged), ![q] = Append(@, Latest(q))]
  /\ task' = [task EXCEPT ![p] = Append(@, Queued), ![q] = Append(@, Queued)]
  /\ redirect' = [redirect EXCEPT ![p] = [Idle EXCEPT !.at = "queued"]]
  /\ UNCHANGED <<erasing, erased, removing, doc, spoilt>>

-----------------------------------------------------------------------------
(* Writes to the index                                                     *)

\* citation_count: the rows of the citation table, which every commit of the
\* citing record rebuilds; one that is deleted, superseded or not in the collection
\* has none.
Eligible(data) == ~data.gone /\ data.successor = "none" /\ data.listed
Cites(c, p) == c \notin erased /\ Eligible(Latest(c)) /\ p \in Latest(c).refs
Count(p) == Cardinality({c \in Citer : Cites(c, p)})

\* version_type external_gte: a lower version is refused.
Always(r, v) == TRUE                         \* mutant: versions ignored
Accepts(r, v) == v >= doc[r].version

\* The document of version v of r, with the count that was read before.
Put(r, v, count) ==
  IF history[r][v].gone THEN Tombstone(v)
  ELSE [live |-> TRUE, version |-> v, refs |-> history[r][v].refs, count |-> count]

\* get_modified_references: the difference from the previous version, or all
\* when the record was deleted, or its first related record is a successor now or
\* was before.
OnlyAdded(r, v) ==                           \* mutant: removed ones forgotten
  IF v = 1 THEN history[r][1].refs ELSE history[r][v].refs \ history[r][v-1].refs
ChangedRefs(r, v) ==
  LET new == history[r][v]
      old == IF v = 1 THEN [new EXCEPT !.refs = {}, !.gone = FALSE] ELSE history[r][v-1]
      changed == (new.refs \ old.refs) \cup (old.refs \ new.refs)
  IN  IF new.gone # old.gone \/ (new.successor = "first") # (old.successor = "first")
      THEN new.refs \cup changed ELSE changed

\* Another task has read r and not yet written it.
Crossing(r, v, rec) ==
  \E o \in Rec : \E n \in DOMAIN task[o] : <<o, n>> # <<r, v>> /\ task[o][n].on = rec

\* The data of version n of rec is read, and its citations are counted.
Fetch(r, v, at, rec, n) ==
  /\ task' = [task EXCEPT ![r][v] =
       [@ EXCEPT !.at = at, !.on = rec, !.version = n, !.count = Count(rec)]]
  /\ spoilt' = spoilt \cup (IF Crossing(r, v, rec) THEN Blame("crossed", {rec}) ELSE {})
  /\ UNCHANGED <<recVars, doc, redirect>>

\* index_record: reads the version it was sent for from the versions table.
ReadOwn(r, v) ==
  /\ task[r][v].at = "queued"
  /\ Fetch(r, v, "own", r, v)

\* InspireRecordIndexer.index, and get_references_to_update.  A conflict is
\* ignored, except by a delete: the task is retried (and gives up).
WriteOwn(r, v) ==
  LET batch == [Queued EXCEPT !.at = "batch", !.todo = ChangedRefs(r, v)]
      refused == ~Accepts(r, v) /\ history[r][v].gone
  IN  /\ task[r][v].at = "own"
      /\ doc' = [doc EXCEPT ![r] = IF Accepts(r, v) THEN Put(r, v, task[r][v].count) ELSE @]
      /\ \/ /\ ~refused
            /\ task' = [task EXCEPT ![r][v] = batch]
            /\ UNCHANGED spoilt
         \/ /\ refused
            /\ task' = [task EXCEPT ![r][v] = Queued]
            /\ UNCHANGED spoilt
         \/ /\ refused
            /\ task' = [task EXCEPT ![r][v] = [Queued EXCEPT !.at = "lost"]]
            /\ spoilt' = spoilt \cup Blame("conflict", ChangedRefs(r, v))
      /\ UNCHANGED <<recVars, redirect>>

\* batch_index: reads the latest version of each record.
BulkRead(r, v, p) ==
  /\ task[r][v].at = "batch" /\ p \in task[r][v].todo
  /\ Fetch(r, v, "bulk", p, Len(history[p]))

BulkWrite(r, v) ==
  LET t == task[r][v] IN
  /\ t.at = "bulk"
  /\ doc' = [doc EXCEPT ![t.on] =
       IF Accepts(t.on, t.version) THEN Put(t.on, t.version, t.count) ELSE @]
  /\ task' = [task EXCEPT ![r][v] =
       [Queued EXCEPT !.at = "batch", !.todo = t.todo \ {t.on}]]
  /\ UNCHANGED <<recVars, redirect, spoilt>>

Unfinished(t) == t.at \in {"queued", "own", "bulk"} \/ (t.at = "batch" /\ t.todo # {})

\* An exception of the database or of OpenSearch: the task starts over.
Retry(r, v) ==
  /\ Unfinished(task[r][v])
  /\ task' = [task EXCEPT ![r][v] = Queued]
  /\ UNCHANGED <<recVars, doc, redirect, spoilt>>

\* The retries are over, the worker dies, or a bulk request fails.
GiveUp(r, v) ==
  /\ Unfinished(task[r][v])
  /\ task' = [task EXCEPT ![r][v] = [Queued EXCEPT !.at = "lost"]]
  /\ spoilt' = spoilt \cup Blame("outage", {r} \cup ChangedRefs(r, v))
  /\ UNCHANGED <<recVars, doc, redirect>>

\* OpenSearch forgets the version of a document some time after its deletion.
Forget(r) ==
  /\ ~doc[r].live /\ doc[r].version > 0
  /\ doc' = [doc EXCEPT ![r] = Tombstone(0)]
  /\ spoilt' = spoilt \cup Blame("forgotten", {r})
  /\ UNCHANGED <<recVars, task, redirect>>

-----------------------------------------------------------------------------
(* Hard deletes                                                            *)

Quiet(r) == \A v \in DOMAIN task[r] : ~Unfinished(task[r][v])

\* hard_delete removes the document before the transaction commits, without
\* looking at versions, and nothing indexes what the record cites.
Erase(c) ==
  /\ c \notin erasing \cup erased
  /\ erasing' = erasing \cup {c}
  /\ doc' = [doc EXCEPT ![c] = IF @.live THEN Tombstone(@.version + 1) ELSE @]
  /\ UNCHANGED <<history, erased, removing, task, redirect, spoilt>>

EraseCommit(c) ==
  /\ c \in erasing
  /\ erasing' = erasing \ {c} /\ erased' = erased \cup {c}
  /\ removing' = removing \cup {c}
  /\ spoilt' = spoilt \cup Blame("erased", Latest(c).refs \cup (IF Quiet(c) THEN {} ELSE {c}))
  /\ UNCHANGED <<history, doc, task, redirect>>

EraseRollback(c) ==
  /\ c \in erasing
  /\ erasing' = erasing \ {c}
  /\ spoilt' = spoilt \cup Blame("erased", {c})
  /\ UNCHANGED <<history, erased, removing, doc, task, redirect>>

\* After the commit a task removes the document again (force_delete), or fails.
RemoveErased(c) ==
  /\ c \in removing
  /\ removing' = removing \ {c}
  /\ \/ /\ doc' = [doc EXCEPT ![c] = IF Accepts(c, Len(history[c])) THEN Tombstone(Len(history[c])) ELSE @]
        /\ UNCHANGED spoilt
     \/ /\ spoilt' = spoilt \cup Blame("outage", {c})
        /\ UNCHANGED doc
  /\ UNCHANGED <<history, erasing, erased, task, redirect>>

-----------------------------------------------------------------------------
(* Redirecting the references to a merged record                           *)

\* A worker that dies leaves its task to the next one (acks_late).
RedirectSearch(p) ==
  /\ redirect[p].at # "idle"
  /\ redirect' = [redirect EXCEPT ![p] =
       [Idle EXCEPT !.at = "scan", !.todo = {c \in Citer : doc[c].live /\ p \in doc[c].refs}]]
  /\ UNCHANGED <<recVars, doc, task, spoilt>>

\* The latest version of a match is loaded; it may not cite p any more.
RedirectLoad(p, c) ==
  /\ redirect[p].at = "scan" /\ c \in redirect[p].todo \ erased
  /\ redirect' = [redirect EXCEPT ![p] =
       IF p \in Latest(c).refs
       THEN [@ EXCEPT !.at = "loaded", !.on = c, !.version = Len(history[c])]
       ELSE [@ EXCEPT !.todo = redirect[p].todo \ {c}]]
  /\ UNCHANGED <<recVars, doc, task, spoilt>>

Redirected(refs, p) == (refs \ {p}) \cup {Latest(p).into}

\* The update is refused when the record was saved since: all starts over.
AnyVersion(p) == redirect[p].at = "loaded"   \* mutant: no version check
StillLoaded(p) ==
  redirect[p].at = "loaded" /\ Len(history[redirect[p].on]) = redirect[p].version

RedirectStore(p) ==
  LET c == redirect[p].on
      loaded == history[c][redirect[p].version]
  IN  /\ StillLoaded(p) /\ CanSave(c)
      /\ Committed(c, [loaded EXCEPT !.refs = Redirected(@, p)])
      /\ redirect' = [redirect EXCEPT ![p] =
           [Idle EXCEPT !.at = "scan", !.todo = redirect[p].todo \ {c}]]
      /\ UNCHANGED <<erasing, erased, removing, doc, spoilt>>

RedirectDone(p) ==
  /\ redirect[p].at = "scan" /\ redirect[p].todo = {}
  /\ redirect' = [redirect EXCEPT ![p] = Idle]
  /\ UNCHANGED <<recVars, doc, task, spoilt>>

-----------------------------------------------------------------------------

TaskStep(r, v) ==
  \/ ReadOwn(r, v) \/ WriteOwn(r, v)
  \/ BulkWrite(r, v) \/ \E p \in Paper : BulkRead(r, v, p)

RedirectStep(p) ==
  RedirectStore(p) \/ RedirectDone(p) \/ \E c \in Citer : RedirectLoad(p, c)

IndexingNext ==
  \/ \E r \in Rec : Save(r) \/ DeleteRecord(r) \/ Forget(r)
  \/ \E p, q \in Paper : Merge(p, q)
  \/ \E c \in Citer : Erase(c) \/ EraseCommit(c) \/ EraseRollback(c) \/ RemoveErased(c)
  \/ \E r \in Rec : \E v \in DOMAIN task[r] :
       TaskStep(r, v) \/ Retry(r, v) \/ GiveUp(r, v)
  \/ \E p \in Paper : RedirectSearch(p) \/ RedirectStep(p)

IndexingSpec == IndexingInit /\ [][IndexingNext]_indexingVars

-----------------------------------------------------------------------------
(* Properties                                                              *)

Spoilt(reasons, r) == \E why \in reasons : <<why, r>> \in spoilt

\* Whatever the order of tasks, retries and conflicts: a record that no task
\* is about to index has the document of its latest version, and none when it
\* is deleted, unless its own update was given up, its tombstone forgotten, or
\* it was hard deleted while it was being indexed.
DocIsLatest ==
  \A r \in Rec :
    Quiet(r) /\ r \notin erasing \cup removing /\ ~Spoilt({"outage", "forgotten", "erased"}, r) =>
      IF r \in erased \/ Latest(r).gone THEN ~doc[r].live
      ELSE /\ doc[r].live
           /\ doc[r].version = Len(history[r]) /\ doc[r].refs = Latest(r).refs

\* A task that is going to write the document of p with a count yet to be read.
WillCount(p) ==
  \E r \in Rec : \E v \in DOMAIN task[r] :
    LET t == task[r][v] IN
    \/ t.on = p
    \/ t.at \in {"queued", "own"} /\ (r = p \/ p \in ChangedRefs(r, v))
    \/ t.at \in {"batch", "bulk"} /\ p \in t.todo

\* The index shows the citation count of a record, unless a task is on its way
\* to it: no commit of a citing record, and no order of the tasks, leaves it
\* behind, except where two writes of the document crossed, or a refresh was
\* dropped (given up, lost against a newer version of the citing record, or
\* not sent: by a hard delete, or because the record began or ceased to cite in a
\* way that the task overlooks).
CountFollows ==
  \A p \in Paper :
    ~Latest(p).gone /\ ~WillCount(p) /\ ~Spoilt(Reason, p) => doc[p].count = Count(p)

\* Redirecting references changes those to the merged record and no others,
\* even when the citing record is saved at the same time.
RedirectOnlyRedirects ==
  [][\A p \in Paper, c \in Citer :
       redirect[p].on = c /\ RedirectStore(p) =>
         Latest(c)' = [Latest(c) EXCEPT !.refs = Redirected(@, p)]]_indexingVars
=============================================================================
