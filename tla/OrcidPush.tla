----------------------------- MODULE OrcidPush -----------------------------
(***************************************************************************)
(* The records of one author pushed to ORCID: src/backend/inspirehep/      *)
(* orcid/.  An update of a record sends a task before its transaction      *)
(* commits.  The task compares the record with what the cache says was     *)
(* pushed, and posts, puts or deletes the work.  Tasks are interleaved     *)
(* call by call, retried and given up; ORCID refuses two works that share  *)
(* an identifier, so identifiers that move from one record to another make *)
(* a push push the record they came from first.                            *)
(***************************************************************************)
EXTENDS Naturals, Sequences, FiniteSets

CONSTANTS
  Rec,          \* records of the author
  Id,           \* identifiers of papers: DOIs, arXiv numbers, ISBNs
  Job,          \* workers that run push tasks
  NoRec,        \* no record
  MaxVersion,   \* bound on the versions of a record
  MaxPutcode    \* bound on the works ORCID ever had

ASSUME PushAssumption == NoRec \notin Rec /\ MaxPutcode \in Nat \ {0}

VARIABLES
  history,      \* the committed versions of each record
  pending,      \* the version an open transaction is about to commit, if any
  sent,         \* push tasks to run: the record and the version it was at
  job,          \* what each worker does
  work,         \* the works at ORCID, by putcode
  issued,       \* the last putcode ORCID gave
  cache,        \* Redis: the putcode and the content of each record's work
  spoilt        \* which record's work may be wrong, and why

vars == <<history, pending, sent, job, work, issued, cache, spoilt>>
recVars == <<history, pending>>
orcidVars == <<work, issued>>

Content == [ids : SUBSET Id, gone : BOOLEAN]
Putcode == 1..MaxPutcode

\* What a task does: the record it pushes (first its own, then perhaps others),
\* as it was loaded, and the putcode it has for it.  "found" is a listing of
\* the works at ORCID; "drop" and "todo" are the works to delete and the records
\* to push because their works clash with "mine", the identifiers it pushes.
JobState ==
  [at : {"idle", "loaded", "push", "search", "missing", "listed", "relisted", "again",
         "clash", "clashes", "post", "delete", "written", "deleted"},
   task : (Rec \X Nat) \cup {<<>>}, rec : Rec \cup {NoRec}, ids : SUBSET Id,
   gone : BOOLEAN, putcode : 0..MaxPutcode, found : SUBSET (Putcode \X Rec),
   drop : SUBSET Putcode, todo : SUBSET Rec, mine : SUBSET Id, after : {"post", "retry"}]

Free ==
  [at |-> "idle", task |-> <<>>, rec |-> NoRec, ids |-> {}, gone |-> FALSE, putcode |-> 0,
   found |-> {}, drop |-> {}, todo |-> {}, mine |-> {}, after |-> "retry"]

NoWork == [rec |-> NoRec, ids |-> {}]
Uncached == [putcode |-> 0, hash |-> {}]

\* The work was changed at ORCID and the cache not told; two pushes of a
\* record, or a listing and the end of its work, overlapped; a push was given
\* up; the author removed the work, or the push of another record did, and it
\* was not written since.
Reason == {"unanswered", "crossed", "outage", "removed", "dropped"}

PushTypeOK ==
  /\ history \in [Rec -> Seq(Content)]
  /\ pending \in [Rec -> SUBSET Content]
  /\ sent \subseteq Rec \X Nat
  /\ job \in [Job -> JobState]
  /\ work \in [Putcode -> [rec : Rec \cup {NoRec}, ids : SUBSET Id]]
  /\ issued \in 0..MaxPutcode
  /\ cache \in [Rec -> [putcode : 0..MaxPutcode, hash : SUBSET (SUBSET Id)]]
  /\ spoilt \subseteq Reason \X Rec

\* New records, one of which may be at ORCID since before there was a cache.
Init ==
  /\ \E ids \in [Rec -> SUBSET Id] :
       /\ \A r, o \in Rec : r # o => ids[r] \cap ids[o] = {}
       /\ history = [r \in Rec |-> <<[ids |-> ids[r], gone |-> FALSE]>>]
  /\ pending = [r \in Rec |-> {}]
  /\ sent = Rec \X {1}
  /\ job = [j \in Job |-> Free]
  /\ issued \in 0..1
  /\ \E r \in Rec : work = [p \in Putcode |-> IF p <= issued THEN [rec |-> r, ids |-> history[r][1].ids] ELSE NoWork]
  /\ cache = [r \in Rec |-> Uncached]
  /\ spoilt = {}

Latest(r) == history[r][Len(history[r])]
Live(p) == work[p].rec # NoRec
Works(r) == {p \in Putcode : work[p].rec = r}

-----------------------------------------------------------------------------
(* Updates of records                                                      *)

\* Two live records do not have an identifier in common.
Unshared(ids, r) ==
  \A o \in Rec \ {r} : \A c \in {Latest(o)} \cup pending[o] : c.gone \/ c.ids \cap ids = {}

\* The task is sent in the transaction, with the version it will commit.
Update(r) ==
  /\ pending[r] = {} /\ ~Latest(r).gone /\ Len(history[r]) < MaxVersion
  /\ \E c \in Content :
       /\ c.ids # Latest(r).ids \/ c.gone
       /\ c.gone => c.ids = Latest(r).ids
       /\ Unshared(c.ids, r)
       /\ pending' = [pending EXCEPT ![r] = {c}]
  /\ sent' = sent \cup {<<r, Len(history[r]) + 1>>}
  /\ UNCHANGED <<history, job, orcidVars, cache, spoilt>>

Commit(r) ==
  /\ \E c \in pending[r] : history' = [history EXCEPT ![r] = Append(@, c)]
  /\ pending' = [pending EXCEPT ![r] = {}]
  /\ UNCHANGED <<sent, job, orcidVars, cache, spoilt>>

Rollback(r) ==
  /\ pending[r] # {}
  /\ pending' = [pending EXCEPT ![r] = {}]
  /\ UNCHANGED <<history, sent, job, orcidVars, cache, spoilt>>

-----------------------------------------------------------------------------
(* A push                                                                  *)

On(j, at) == job[j].at = at
Nested(j) == job[j].rec # job[j].task[1]
Go(j, state) == job' = [job EXCEPT ![j] = state]

Busy(r) == \E j \in Job : job[j].at # "idle" /\ r \in {job[j].rec, job[j].task[1]}

\* The record is loaded: a push that overlaps another one of the record.
Crossing(j, r) ==
  IF \E k \in Job \ {j} : job[k].at # "idle" /\ r \in {job[k].rec, job[k].task[1]}
  THEN {<<"crossed", r>>} ELSE {}

\* _get_inspire_record: a task ahead of its commit is retried, unchanged.
AnyVersion(r, v) == TRUE                      \* mutant: no version check
Committed(r, v) == Len(history[r]) >= v

Load(j) ==
  /\ On(j, "idle")
  /\ \E t \in sent :
       /\ Committed(t[1], t[2])
       /\ sent' = sent \ {t}
       /\ Go(j, [Free EXCEPT !.at = "loaded", !.task = t, !.rec = t[1],
                             !.ids = Latest(t[1]).ids, !.gone = Latest(t[1]).gone])
       /\ spoilt' = spoilt \cup Crossing(j, t[1])
  /\ UNCHANGED <<recVars, orcidVars, cache>>

-----------------------------------------------------------------------------
(* The calls to ORCID (the lock of an author makes each of them atomic)    *)

\* ORCID refuses a work that shares an identifier with another one; the recid
\* is an identifier of every work.
Clashing(j, p) ==
  \/ work[p].rec = job[j].rec
  \/ Live(p) /\ work[p].ids \cap job[j].ids # {}
Refused(j, putcode) == \E p \in Putcode \ {putcode} : Clashing(j, p)

Put(j, putcode) == work' = [work EXCEPT ![putcode] = [rec |-> job[j].rec, ids |-> job[j].ids]]

\* put_updated_work, or post_new_work without a putcode.
Write(j) ==
  LET putcode == IF job[j].putcode = 0 THEN issued + 1 ELSE job[j].putcode IN
  /\ putcode \in Putcode
  /\ job[j].putcode # 0 => Live(putcode)
  /\ ~Refused(j, putcode)
  /\ Put(j, putcode)
  /\ issued' = IF job[j].putcode = 0 THEN putcode ELSE issued
  /\ Go(j, [job[j] EXCEPT !.at = "written", !.putcode = putcode])
  /\ spoilt' = spoilt \ ({"removed", "dropped"} \X {job[j].rec})
  /\ UNCHANGED <<recVars, sent, cache>>

\* push returns: the task is over, or back to the works it clashes with.
Returned(j) ==
  IF Nested(j)
  THEN [job[j] EXCEPT !.at = "clashes", !.rec = job[j].task[1], !.ids = job[j].mine,
                      !.gone = FALSE, !.putcode = 0, !.found = {}]
  ELSE Free

\* The task raises an exception for which it is retried; or for good.
Retried(j) ==
  /\ sent' = sent \cup {job[j].task}
  /\ Go(j, Free)
  /\ UNCHANGED <<recVars, orcidVars, cache>>
Over(j) ==
  /\ Go(j, Free)
  /\ UNCHANGED <<recVars, sent, orcidVars, cache>>

\* What a task leaves behind when it stops before its end.
Unanswered(j) ==
  IF job[j].at \in {"written", "deleted"} THEN {<<"unanswered", job[j].rec>>} ELSE {}
Blamed(j) == {"outage"} \X {job[j].rec, job[j].task[1]}

-----------------------------------------------------------------------------
(* The steps of a push                                                     *)

\* push: compares the record with the cache.
Compare(j) ==
  LET c == cache[job[j].rec]
      hit == c.hash = {job[j].ids}
  IN
  /\ On(j, "loaded")
  /\ \/ /\ ~job[j].gone /\ hit
        /\ Go(j, Returned(j))
     \/ /\ ~job[j].gone /\ ~hit
        /\ Go(j, [job[j] EXCEPT !.at = "push", !.putcode = c.putcode])
     \/ /\ job[j].gone
        /\ Go(j, [job[j] EXCEPT !.at = IF c.putcode = 0 THEN "search" ELSE "delete",
                                !.putcode = c.putcode])
  /\ UNCHANGED <<recVars, sent, orcidVars, cache, spoilt>>

Push(j) == On(j, "push") /\ Write(j)

\* WorkAlreadyExists, DuplicatedExternalIdentifier, PutcodeNotFoundPut.
PushRefused(j) ==
  LET post == job[j].putcode = 0
      missing == ~post /\ ~Live(job[j].putcode)
  IN
  /\ On(j, "push")
  /\ missing \/ Refused(j, job[j].putcode)
  /\ \/ /\ missing
        /\ Go(j, [job[j] EXCEPT !.at = "missing", !.putcode = 0])
        /\ UNCHANGED sent
     \/ /\ ~missing /\ ~Nested(j)
        /\ Go(j, [job[j] EXCEPT !.at = IF post THEN "search" ELSE "clash"])
        /\ UNCHANGED sent
     \/ /\ ~missing /\ Nested(j)
        /\ Go(j, Free) /\ sent' = sent \cup {job[j].task}
  /\ UNCHANGED <<recVars, orcidVars, cache, spoilt>>

\* get_all_inspire_putcodes_and_recids_iter.
EveryWork == {<<p, work[p].rec>> : p \in 1..issued}  \* mutant: with deleted ones
AllWorks == {<<p, work[p].rec>> : p \in {q \in Putcode : Live(q)}}

Search(j) ==
  /\ On(j, "search")
  /\ Go(j, [job[j] EXCEPT !.at = "listed", !.found = AllWorks])
  /\ UNCHANGED <<recVars, sent, orcidVars, cache, spoilt>>

\* The putcode in the cache is not at ORCID any more.
Missing(j) ==
  /\ On(j, "missing")
  /\ cache' = [cache EXCEPT ![job[j].rec] = Uncached]
  /\ Go(j, [job[j] EXCEPT !.at = "relisted", !.found = AllWorks])
  /\ UNCHANGED <<recVars, sent, orcidVars, spoilt>>

\* _cache_all_author_putcodes: the putcodes, not what was pushed.
AnyPutcode(j) ==                              \* mutant: another record's putcode
  IF job[j].found = {} THEN 0 ELSE (CHOOSE w \in job[j].found : TRUE)[1]
OwnPutcode(j) ==
  LET own == {w[1] : w \in {f \in job[j].found : f[2] = job[j].rec}}
  IN  IF own = {} THEN 0 ELSE CHOOSE p \in own : TRUE
CacheAll(j) ==
  LET own == OwnPutcode(j)
      next == [job[j] EXCEPT !.found = {}, !.putcode = own]
  IN
  /\ job[j].at \in {"listed", "relisted"}
  /\ spoilt' = spoilt \cup
       {<<"crossed", w[2]>> : w \in {f \in job[j].found : work[f[1]].rec # f[2]}}
  /\ cache' = [r \in Rec |->
       IF \E p \in Putcode : <<p, r>> \in job[j].found
       THEN [cache[r] EXCEPT !.putcode = CHOOSE p \in Putcode : <<p, r>> \in job[j].found]
       ELSE cache[r]]
  /\ \/ /\ job[j].gone
        /\ Go(j, IF own = 0 THEN Returned(j) ELSE [next EXCEPT !.at = "delete"])
     \/ /\ ~job[j].gone
        /\ Go(j, IF On(j, "listed") /\ own = 0
                 THEN [next EXCEPT !.at = "clash", !.after = "post"]
                 ELSE [next EXCEPT !.at = "again"])
  /\ UNCHANGED <<recVars, sent, orcidVars>>

\* The second attempt.  What ORCID refuses now fails the task, or retries it
\* when it posts after it pushed the clashing works.
Again(j) == job[j].at \in {"again", "post"} /\ Write(j)
AgainRefused(j) ==
  LET refused == Refused(j, job[j].putcode) IN
  /\ job[j].at \in {"again", "post"}
  /\ refused \/ (job[j].putcode # 0 /\ ~Live(job[j].putcode))
  /\ \/ /\ On(j, "post") \/ (Nested(j) /\ job[j].putcode = 0 /\ job[j].after = "post")
        /\ Retried(j) /\ UNCHANGED spoilt
     \/ /\ On(j, "again") /\ ~(Nested(j) /\ job[j].putcode = 0 /\ job[j].after = "post")
        /\ Over(j) /\ spoilt' = spoilt \cup Blamed(j)

\* write_work_putcode: the hash is of the record that was loaded.
LatestHash(j) == {Latest(job[j].rec).ids}     \* mutant: of the record as it is now
Hash(j) == {job[j].ids}
CacheWritten(j) ==
  /\ On(j, "written")
  /\ cache' = [cache EXCEPT ![job[j].rec] = [putcode |-> job[j].putcode, hash |-> Hash(j)]]
  /\ Go(j, Returned(j))
  /\ spoilt' = spoilt \ {<<"unanswered", job[j].rec>>}
  /\ UNCHANGED <<recVars, sent, orcidVars>>

\* _delete_work
Delete(j) ==
  /\ On(j, "delete")
  /\ work' = [work EXCEPT ![job[j].putcode] = NoWork]
  /\ Go(j, [job[j] EXCEPT !.at = "deleted"])
  /\ UNCHANGED <<recVars, sent, issued, cache, spoilt>>
CacheDeleted(j) ==
  /\ On(j, "deleted")
  /\ cache' = [cache EXCEPT ![job[j].rec] = Uncached]
  /\ Go(j, Returned(j))
  /\ UNCHANGED <<recVars, sent, orcidVars, spoilt>>

\* get_putcodes_and_recids_by_identifiers_iter yields a work once for each
\* identifier that matches, and a recid that comes twice has its work deleted.
ListClashes(j) ==
  LET shared(p) == work[p].ids \cap job[j].ids
      clashing == {p \in Putcode : Live(p) /\ shared(p) # {}}
  IN
  /\ On(j, "clash")
  /\ Go(j, [job[j] EXCEPT !.at = "clashes", !.mine = job[j].ids, !.putcode = 0,
              !.drop = {p \in clashing : Cardinality(shared(p)) > 1},
              !.todo = {work[p].rec : p \in clashing} \ {job[j].rec}])
  /\ UNCHANGED <<recVars, sent, orcidVars, cache, spoilt>>

\* _delete_work forgets the putcode of the record that is pushed.
DropClashing(j, p) ==
  /\ On(j, "clashes") /\ p \in job[j].drop
  /\ work' = [work EXCEPT ![p] = NoWork]
  /\ cache' = [cache EXCEPT ![job[j].rec] = Uncached]
  /\ Go(j, [job[j] EXCEPT !.drop = @ \ {p}])
  /\ spoilt' = spoilt \cup {<<"dropped", r>> : r \in {work[p].rec} \ {NoRec}}
  /\ UNCHANGED <<recVars, sent, issued>>

\* orcid_push is called with pushing_duplicated_identifier.
PushClashing(j, r) ==
  /\ On(j, "clashes") /\ job[j].drop = {} /\ r \in job[j].todo
  /\ Go(j, [job[j] EXCEPT !.at = "loaded", !.rec = r, !.todo = @ \ {r},
                          !.ids = Latest(r).ids, !.gone = Latest(r).gone])
  /\ spoilt' = spoilt \cup Crossing(j, r)
  /\ UNCHANGED <<recVars, sent, orcidVars, cache>>

PushedClashing(j) ==
  /\ On(j, "clashes") /\ job[j].drop = {} /\ job[j].todo = {}
  /\ \/ /\ job[j].after = "post"
        /\ Go(j, [job[j] EXCEPT !.at = "post", !.mine = {}])
        /\ UNCHANGED <<recVars, sent, orcidVars, cache>>
     \/ job[j].after = "retry" /\ Retried(j)
  /\ UNCHANGED spoilt

-----------------------------------------------------------------------------
(* Failures                                                                *)

\* A network error, a lost answer or the soft time limit: the task is retried.
Interrupt(j) ==
  /\ ~On(j, "idle")
  /\ Retried(j)
  /\ spoilt' = spoilt \cup Unanswered(j)

\* The retries are over, or the worker is killed.
GiveUp(j) ==
  /\ ~On(j, "idle")
  /\ Over(j)
  /\ spoilt' = spoilt \cup Unanswered(j) \cup Blamed(j)

\* The retries of a task ahead of its commit are over.
DropTask(t) ==
  /\ t \in sent /\ ~Committed(t[1], t[2])
  /\ sent' = sent \ {t}
  /\ spoilt' = spoilt \cup (IF pending[t[1]] = {} THEN {} ELSE {<<"outage", t[1]>>})
  /\ UNCHANGED <<recVars, job, orcidVars, cache>>

\* The author deletes a work at ORCID.
RemoveWork(p) ==
  /\ Live(p)
  /\ work' = [work EXCEPT ![p] = NoWork]
  /\ spoilt' = spoilt \cup {<<"removed", work[p].rec>>}
  /\ UNCHANGED <<recVars, sent, job, issued, cache>>

-----------------------------------------------------------------------------

Step(j) ==
  \/ Load(j) \/ Compare(j) \/ Push(j) \/ PushRefused(j)
  \/ Search(j) \/ Missing(j) \/ CacheAll(j) \/ Again(j) \/ AgainRefused(j)
  \/ CacheWritten(j) \/ Delete(j) \/ CacheDeleted(j)
  \/ ListClashes(j) \/ PushedClashing(j)
  \/ \E p \in Putcode : DropClashing(j, p)
  \/ \E r \in Rec : PushClashing(j, r)

Next ==
  \/ \E r \in Rec : Update(r) \/ Commit(r) \/ Rollback(r)
  \/ \E j \in Job : Step(j) \/ Interrupt(j) \/ GiveUp(j)
  \/ \E t \in sent : DropTask(t)
  \/ \E p \in Putcode : RemoveWork(p)

Spec == Init /\ [][Next]_vars

-----------------------------------------------------------------------------
(* Properties                                                              *)

Spoilt(reasons, r) == \E why \in reasons : <<why, r>> \in spoilt
Quiet(r) == pending[r] = {} /\ ~Busy(r) /\ \A t \in sent : t[1] # r

\* When its pushes are over a live record is at ORCID once, as it is in INSPIRE,
\* and a deleted one is not: whatever moved to it or away from it, and however
\* often they were retried.
WorkIsLatest ==
  \A r \in Rec : Quiet(r) /\ ~Spoilt(Reason, r) =>
    IF Latest(r).gone THEN Works(r) = {}
    ELSE \E p \in Putcode : Works(r) = {p} /\ work[p].ids = Latest(r).ids

\* A push that would be skipped had nothing to do: even after a push was given
\* up, the content in the cache is at ORCID.
CacheHitIsTrue ==
  \A r \in Rec :
    /\ ~Busy(r) /\ ~Spoilt(Reason \ {"outage"}, r)
    /\ ~Latest(r).gone /\ cache[r].hash = {Latest(r).ids}
    => \E p \in Works(r) : work[p].ids = Latest(r).ids

\* No push writes over the work of another record.
NoForeignWork ==
  [][\A p \in Putcode : Live(p) /\ Live(p)' => work'[p].rec = work[p].rec]_vars

\* As WorkIsLatest, with nothing excused but a work that the push of another
\* record deleted: that push updates the works it clashes with.
ClashIsUpdated ==
  \A r \in Rec : Quiet(r) /\ ~Spoilt(Reason \ {"dropped"}, r) /\ ~Latest(r).gone =>
    Works(r) # {}
=============================================================================
