------------------------ MODULE RecordIndexingProofs ------------------------
(* The document of a record is its latest version when its tasks are over, *)
(* its citation count is right unless a task is on its way, and a          *)
(* redirection changes no reference but the one it redirects: for every    *)
(* number of records and versions.                                         *)
EXTENDS RecordIndexing, TLAPS, FiniteSetTheorems

\* Reasons for which the document of a record may not be its latest version.
Excused(r) == Spoilt({"outage", "forgotten", "erased"}, r)

\* Every version has its task.
VersionsHold(r) == Len(history[r]) >= 1 /\ Len(task[r]) = Len(history[r])

\* What a task holds between reading and writing.
TaskHolds(r, v) ==
  LET t == task[r][v] IN
  /\ t.at = "own" => t.on = r /\ t.version = v
  /\ t.at = "bulk" => t.on \in Paper /\ t.version \in 1..Len(history[t.on])

\* The document is some version of the record, and not an older one than any
\* that was indexed; the tasks of an erased record are over.
DocHolds(r) ==
  /\ doc[r].live => /\ doc[r].version \in 1..Len(history[r])
                    /\ doc[r].refs = history[r][doc[r].version].refs
                    /\ ~history[r][doc[r].version].gone
  /\ r \notin erasing \cup erased /\ ~Excused(r) =>
       /\ doc[r].version \in 1..Len(history[r])
       /\ doc[r].live \/ history[r][doc[r].version].gone
       /\ \A v \in DOMAIN task[r] :
            task[r][v].at \in {"batch", "bulk", "lost"} => doc[r].version >= v
  /\ r \in erased /\ ~Excused(r) => Quiet(r) /\ (doc[r].live => r \in removing)

\* Only references to a merged record are redirected.
RedirectHolds(p) ==
  /\ redirect[p].at # "idle" => Latest(p).into \in Paper
  /\ redirect[p].at = "loaded" =>
       redirect[p].on \in Citer /\ redirect[p].version \in 1..Len(history[redirect[p].on])

IndexingInv ==
  /\ IndexingTypeOK
  /\ removing \subseteq erased
  /\ \A r \in Rec : VersionsHold(r) /\ DocHolds(r)
  /\ \A r \in Rec : \A v \in DOMAIN task[r] : TaskHolds(r, v)
  /\ \A p \in Paper : RedirectHolds(p)

-----------------------------------------------------------------------------
(* Versions, tasks and counts                                              *)

LEMMA CountIsNat == \A p : Count(p) \in Nat
<1> TAKE p
<1>1. {c \in Citer : Cites(c, p)} \subseteq Citer
  OBVIOUS
<1>2. IsFiniteSet({c \in Citer : Cites(c, p)})
  BY <1>1, RecAssumption, FS_Subset
<1> QED BY <1>2, FS_CardinalityType DEF Count

\* A record has a latest version, and each version a task.
LEMMA LatestVersion ==
  ASSUME IndexingInv, NEW r \in Rec
  PROVE  /\ Len(history[r]) \in Nat /\ Len(history[r]) >= 1 /\ Latest(r) \in Data
         /\ \A v \in 1..Len(history[r]) : history[r][v] \in Data
         /\ DOMAIN task[r] = 1..Len(history[r])
         /\ \A v \in DOMAIN task[r] : v \in Nat /\ task[r][v] \in Task
BY DEF IndexingInv, IndexingTypeOK, VersionsHold, Latest

\* A task begins queued, with nothing to do.
LEMMA QueuedType == Queued \in Task /\ Queued.at = "queued" /\ Queued.todo = {}
BY DEF Queued, Task

\* What a record cites in one version or the one before.
LEMMA ChangedType ==
  ASSUME IndexingInv, NEW r \in Rec, NEW v \in DOMAIN task[r]
  PROVE  ChangedRefs(r, v) \subseteq Paper
<1>1. v \in 1..Len(history[r]) /\ history[r][v] \in Data
  BY LatestVersion
<1>2. v # 1 => history[r][v-1] \in Data
  <2>1. v # 1 => v - 1 \in 1..Len(history[r])
    BY <1>1, LatestVersion
  <2> QED BY <2>1, LatestVersion
<1>3. history[r][v].refs \subseteq Paper /\ (v # 1 => history[r][v-1].refs \subseteq Paper)
  BY <1>1, <1>2 DEF Data
<1>4. CASE v = 1
  <2>1. [history[r][v] EXCEPT !.refs = {}, !.gone = FALSE].refs = {}
    BY <1>1 DEF Data
  <2> QED BY <1>3, <1>4, <2>1 DEF ChangedRefs
<1>5. CASE v # 1
  BY <1>3, <1>5 DEF ChangedRefs
<1> QED BY <1>4, <1>5

\* One task changes.
LEMMA OneTask ==
  ASSUME IndexingInv, NEW r \in Rec, NEW v \in DOMAIN task[r], NEW t \in Task,
         task' = [task EXCEPT ![r][v] = t]
  PROVE  /\ task' \in [Rec -> Seq(Task)]
         /\ task'[r][v] = t
         /\ \A o \in Rec : Len(task'[o]) = Len(task[o]) /\ DOMAIN task'[o] = DOMAIN task[o]
         /\ \A o \in Rec : \A n \in DOMAIN task[o] : <<o, n>> # <<r, v>> => task'[o][n] = task[o][n]
<1>1. task \in [Rec -> Seq(Task)] /\ task[r] \in Seq(Task)
  BY DEF IndexingInv, IndexingTypeOK
<1>2. PICK s : s = [task[r] EXCEPT ![v] = t]
  OBVIOUS
<1>3. /\ s \in Seq(Task) /\ Len(s) = Len(task[r]) /\ DOMAIN s = DOMAIN task[r] /\ s[v] = t
      /\ \A n \in DOMAIN task[r] : n # v => s[n] = task[r][n]
  BY <1>1, <1>2
<1>4. task' = [task EXCEPT ![r] = s]
  BY <1>1, <1>2
<1>5. /\ task' \in [Rec -> Seq(Task)] /\ task'[r] = s
      /\ \A o \in Rec : o # r => task'[o] = task[o]
  BY <1>1, <1>3, <1>4
<1> QED BY <1>3, <1>5

\* Documents and reasons that a step leaves alone.
LEMMA ExcuseStays ==
  ASSUME spoilt \subseteq spoilt', NEW r
  PROVE  Excused(r) => Excused(r)'
BY DEF Excused, Spoilt

-----------------------------------------------------------------------------
(* Commits                                                                 *)

\* Only what a commit leaves unnoticed becomes a reason.
OnlyUnnoticed == spoilt \subseteq spoilt' /\ spoilt' \subseteq spoilt \cup ({"unnoticed"} \X Rec)

\* Records get another version, and its task.
Commits(R, data) ==
  /\ R \subseteq Rec \ erased /\ data \in [Rec -> Data]
  /\ history' \in [Rec -> Seq(Data)] /\ task' \in [Rec -> Seq(Task)]
  /\ \A r \in Rec :
       /\ history'[r] = IF r \in R THEN Append(history[r], data[r]) ELSE history[r]
       /\ task'[r] = IF r \in R THEN Append(task[r], Queued) ELSE task[r]
  /\ UNCHANGED <<erasing, erased, removing, doc>> /\ OnlyUnnoticed

\* A commit adds a version and its task, and leaves the documents.
LEMMA CommitsHold ==
  ASSUME IndexingInv, NEW R, NEW data, Commits(R, data)
  PROVE  /\ \A r \in Rec : VersionsHold(r)' /\ DocHolds(r)'
         /\ \A r \in Rec : \A v \in DOMAIN task'[r] : TaskHolds(r, v)'
         /\ \A r \in Rec : Len(history'[r]) >= Len(history[r])
         /\ \A r \in Rec : Latest(r)' = IF r \in R THEN data[r] ELSE Latest(r)
<1> USE DEF Commits
<1>1. history \in [Rec -> Seq(Data)] /\ task \in [Rec -> Seq(Task)]
  BY DEF IndexingInv, IndexingTypeOK
<1>2. ASSUME NEW r \in Rec
      PROVE  /\ history'[r] \in Seq(Data) /\ task'[r] \in Seq(Task)
             /\ Len(history'[r]) >= Len(history[r])
             /\ Len(task'[r]) = Len(history'[r])
             /\ \A v \in 1..Len(history[r]) : history'[r][v] = history[r][v] /\ task'[r][v] = task[r][v]
             /\ \A v \in DOMAIN task'[r] : v \in DOMAIN task[r] \/ task'[r][v] = Queued
             /\ r \notin R => task'[r] = task[r] /\ history'[r] = history[r]
             /\ Latest(r)' = IF r \in R THEN data[r] ELSE Latest(r)
  <2>1. Len(task[r]) = Len(history[r]) /\ Len(history[r]) >= 1
    BY DEF IndexingInv, VersionsHold
  <2>2. CASE r \in R
    <3>1. history'[r] = Append(history[r], data[r]) /\ task'[r] = Append(task[r], Queued)
      BY <2>2
    <3> QED BY <1>1, <2>1, <2>2, <3>1, QueuedType DEF Latest
  <2>3. CASE r \notin R
    <3>1. history'[r] = history[r] /\ task'[r] = task[r]
      BY <2>3
    <3> QED BY <1>1, <2>1, <2>3, <3>1 DEF Latest
  <2> QED BY <2>2, <2>3
<1>3. history' \in [Rec -> Seq(Data)] /\ task' \in [Rec -> Seq(Task)]
  OBVIOUS
<1>4. \A r \in Rec : VersionsHold(r)'
  BY <1>2 DEF VersionsHold, IndexingInv, IndexingTypeOK
<1>5. ASSUME NEW r \in Rec, NEW v \in DOMAIN task'[r] PROVE TaskHolds(r, v)'
  <2>1. CASE v \in DOMAIN task[r]
    <3>1. task'[r][v] = task[r][v] /\ TaskHolds(r, v)
      BY <1>2, <2>1, LatestVersion DEF IndexingInv
    <3>2. task[r][v].at = "bulk" =>
            task[r][v].on \in Rec /\ Len(history'[task[r][v].on]) >= Len(history[task[r][v].on])
      BY <1>2, <3>1 DEF TaskHolds, Rec
    <3>3. \A o \in Rec : Len(history[o]) \in Nat /\ Len(history'[o]) \in Nat
      BY <1>1, <1>3
    <3> QED BY <3>1, <3>2, <3>3 DEF TaskHolds
  <2>2. CASE task'[r][v] = Queued
    BY <2>2, QueuedType DEF TaskHolds
  <2> QED BY <1>2, <2>1, <2>2
<1>6. ASSUME NEW r \in Rec PROVE DocHolds(r)'
  <2>1. Excused(r)' = Excused(r)
    BY DEF Excused, Spoilt, OnlyUnnoticed
  <2>2. DocHolds(r)
    BY DEF IndexingInv
  <2>3. DOMAIN task[r] = 1..Len(history[r]) /\ Len(history[r]) \in Nat /\ Len(history'[r]) \in Nat
    BY <1>1, <1>3, LatestVersion
  <2>4. r \in erased => Quiet(r)' = Quiet(r)
    BY <1>2 DEF Quiet
  <2>5. \A v \in DOMAIN task'[r] :
          task'[r][v].at \in {"batch", "bulk", "lost"} => v \in DOMAIN task[r] /\ task'[r][v] = task[r][v]
    BY <1>2, <2>3, QueuedType
  <2>6. \A v \in 1..Len(history[r]) : history'[r][v] = history[r][v] /\ v \in 1..Len(history'[r])
    BY <1>2, <2>3
  <2>7. doc'[r] = doc[r] /\ erasing' = erasing /\ erased' = erased /\ removing' = removing
    OBVIOUS
  <2> QED BY <2>1, <2>2, <2>4, <2>5, <2>6, <2>7 DEF DocHolds
<1> QED BY <1>2, <1>3, <1>4, <1>5, <1>6

\* Redirections that go on when records get more versions.
LEMMA RedirectsStay ==
  ASSUME IndexingInv, NEW p \in Paper, redirect'[p] = redirect[p],
         \A r \in Rec : Len(history'[r]) \in Nat /\ Len(history'[r]) >= Len(history[r]),
         Latest(p).into \in Paper => Latest(p).into' \in Paper
  PROVE  RedirectHolds(p)'
<1>1. RedirectHolds(p) /\ \A r \in Rec : Len(history[r]) \in Nat
  BY DEF IndexingInv, IndexingTypeOK
<1> QED BY <1>1 DEF RedirectHolds, Rec

\* The commit of one record, beside redirections under way.
LEMMA OneCommit ==
  ASSUME IndexingInv, NEW r \in Rec, CanSave(r), NEW d \in Data, Committed(r, d),
         d.into = Latest(r).into,
         UNCHANGED <<erasing, erased, removing, doc>>, OnlyUnnoticed
  PROVE  /\ history' \in [Rec -> Seq(Data)] /\ task' \in [Rec -> Seq(Task)]
         /\ \A o \in Rec : VersionsHold(o)' /\ DocHolds(o)'
         /\ \A o \in Rec : \A v \in DOMAIN task'[o] : TaskHolds(o, v)'
         /\ \A p \in Paper : redirect'[p] = redirect[p] => RedirectHolds(p)'
         /\ \A p \in Paper : Latest(p).into \in Paper => Latest(p).into' \in Paper
         /\ \A o \in Rec : Len(history'[o]) \in Nat /\ Len(history'[o]) >= Len(history[o])
         /\ Latest(r)' = d
<1>1. PICK R, data : R = {r} /\ data = [o \in Rec |-> d]
  OBVIOUS
<1>2. /\ history' \in [Rec -> Seq(Data)] /\ task' \in [Rec -> Seq(Task)]
      /\ \A o \in Rec :
           /\ history'[o] = IF o \in R THEN Append(history[o], data[o]) ELSE history[o]
           /\ task'[o] = IF o \in R THEN Append(task[o], Queued) ELSE task[o]
  BY <1>1, QueuedType DEF Committed, IndexingInv, IndexingTypeOK
<1>3. /\ \A o \in Rec : VersionsHold(o)' /\ DocHolds(o)'
      /\ \A o \in Rec : \A v \in DOMAIN task'[o] : TaskHolds(o, v)'
      /\ \A o \in Rec : Len(history'[o]) >= Len(history[o])
      /\ \A o \in Rec : Latest(o)' = IF o \in R THEN data[o] ELSE Latest(o)
  <2>1. Commits(R, data)
    BY <1>1, <1>2 DEF Commits, CanSave
  <2> QED BY <2>1, CommitsHold
<1>4. \A p \in Paper : Latest(p).into \in Paper => Latest(p).into' \in Paper
  <2> TAKE p \in Paper
  <2>1. p \in Rec
    BY DEF Rec
  <2>2. Latest(p)' = IF p = r THEN d ELSE Latest(p)
    BY <1>1, <1>3, <2>1
  <2> QED BY <2>2
<1>5. \A o \in Rec : Len(history'[o]) \in Nat
  BY <1>2
<1> QED BY <1>1, <1>2, <1>3, <1>4, <1>5, RedirectsStay

\* An update commits data, and says what its index task overlooks of it.
LEMMA SavedData ==
  ASSUME IndexingInv, NEW r \in Rec, Save(r)
  PROVE  /\ OnlyUnnoticed
         /\ \E d \in Data :
              /\ Committed(r, d) /\ d.into = Latest(r).into /\ d.gone = Latest(r).gone
              /\ r \in Citer => \A p \in Overlooked(Latest(r), d) : <<"unnoticed", p>> \in spoilt'
<1>1. Latest(r) \in Data
  BY LatestVersion
<1>2. CASE Committed(r, Latest(r)) /\ UNCHANGED spoilt
  <2>1. Overlooked(Latest(r), Latest(r)) = {}
    BY DEF Overlooked
  <2> QED BY <1>1, <1>2, <2>1 DEF OnlyUnnoticed
<1>3. CASE ~(Committed(r, Latest(r)) /\ UNCHANGED spoilt)
  <2>1. PICK refs \in SUBSET Paper, successor \in {"none", "first", "later"}, listed \in BOOLEAN :
          LET data == [Latest(r) EXCEPT !.refs = refs, !.successor = successor, !.listed = listed] IN
          /\ r \in Citer
          /\ Committed(r, data)
          /\ spoilt' = spoilt \cup Blame("unnoticed", Overlooked(Latest(r), data))
    BY <1>3 DEF Save
  <2>2. PICK d : d = [Latest(r) EXCEPT !.refs = refs, !.successor = successor, !.listed = listed]
    OBVIOUS
  <2>3. /\ d \in Data /\ d.into = Latest(r).into /\ d.gone = Latest(r).gone
        /\ d.refs \subseteq Paper
    BY <1>1, <2>2 DEF Data
  <2>4. Committed(r, d) /\ spoilt' = spoilt \cup ({"unnoticed"} \X Overlooked(Latest(r), d))
    BY <2>1, <2>2 DEF Blame
  <2>5. Overlooked(Latest(r), d) \subseteq Rec
    BY <2>3 DEF Overlooked, Rec
  <2>6. OnlyUnnoticed
    BY <2>4, <2>5 DEF OnlyUnnoticed
  <2>7. \A p \in Overlooked(Latest(r), d) : <<"unnoticed", p>> \in spoilt'
    BY <2>4
  <2> QED BY <2>3, <2>4, <2>6, <2>7
<1> QED BY <1>2, <1>3

\* Edits and deletions keep the invariant.
LEMMA SaveHolds ==
  ASSUME IndexingInv, NEW r \in Rec, Save(r) \/ DeleteRecord(r)
  PROVE  IndexingInv'
<1>1. Latest(r) \in Data /\ CanSave(r)
  BY LatestVersion DEF Save, DeleteRecord
<1>2. PICK d \in Data : Committed(r, d) /\ d.into = Latest(r).into
  <2>1. CASE Save(r)
    BY <2>1, SavedData
  <2>2. CASE DeleteRecord(r)
    <3>1. /\ [Latest(r) EXCEPT !.gone = TRUE] \in Data
          /\ [Latest(r) EXCEPT !.gone = TRUE].into = Latest(r).into
      BY <1>1 DEF Data
    <3> QED BY <2>2, <3>1 DEF DeleteRecord
  <2> QED BY <2>1, <2>2
<1>3. UNCHANGED <<erasing, erased, removing, doc, redirect>> /\ OnlyUnnoticed
  <2>1. CASE Save(r)
    BY <2>1, SavedData DEF Save
  <2>2. CASE DeleteRecord(r)
    BY <2>2 DEF DeleteRecord, OnlyUnnoticed
  <2> QED BY <2>1, <2>2
<1>4. /\ history' \in [Rec -> Seq(Data)] /\ task' \in [Rec -> Seq(Task)]
      /\ \A o \in Rec : VersionsHold(o)' /\ DocHolds(o)'
      /\ \A o \in Rec : \A v \in DOMAIN task'[o] : TaskHolds(o, v)'
      /\ \A p \in Paper : RedirectHolds(p)'
  BY <1>1, <1>2, <1>3, OneCommit
<1>5. IndexingTypeOK'
  BY <1>3, <1>4 DEF IndexingInv, IndexingTypeOK, OnlyUnnoticed, Reason
<1> QED BY <1>3, <1>4, <1>5 DEF IndexingInv

\* So does a merge, which commits two records and starts a redirection.
LEMMA MergeHolds ==
  ASSUME IndexingInv, NEW p \in Paper, NEW q \in Paper, Merge(p, q)
  PROVE  IndexingInv'
<1>1. p \in Rec /\ q \in Rec /\ p # q
  BY DEF Rec, Merge
<1>2. PICK merged : merged = [Latest(p) EXCEPT !.gone = TRUE, !.into = q]
  OBVIOUS
<1>3. merged \in Data /\ merged.into = q /\ Latest(q) \in Data
  BY <1>1, <1>2, LatestVersion DEF Data
<1>4. PICK R, data :
        R = {p, q} /\ data = [r \in Rec |-> IF r = p THEN merged ELSE Latest(r)]
  OBVIOUS
<1>d. R \subseteq Rec \ erased /\ data \in [Rec -> Data]
  BY <1>1, <1>3, <1>4, LatestVersion DEF Merge, CanSave
<1>5. /\ history' \in [Rec -> Seq(Data)] /\ task' \in [Rec -> Seq(Task)]
      /\ \A r \in Rec :
           /\ history'[r] = IF r \in R THEN Append(history[r], data[r]) ELSE history[r]
           /\ task'[r] = IF r \in R THEN Append(task[r], Queued) ELSE task[r]
  <2>1. history \in [Rec -> Seq(Data)] /\ task \in [Rec -> Seq(Task)]
    BY DEF IndexingInv, IndexingTypeOK
  <2>2. PICK hp, hq, tp, tq :
          /\ hp = Append(history[p], merged) /\ hq = Append(history[q], Latest(q))
          /\ tp = Append(task[p], Queued) /\ tq = Append(task[q], Queued)
    OBVIOUS
  <2>3. hp \in Seq(Data) /\ hq \in Seq(Data) /\ tp \in Seq(Task) /\ tq \in Seq(Task)
    BY <1>1, <1>3, <2>1, <2>2, QueuedType
  <2>4. history' = [history EXCEPT ![p] = hp, ![q] = hq] /\ task' = [task EXCEPT ![p] = tp, ![q] = tq]
    BY <1>1, <1>2, <2>1, <2>2 DEF Merge
  <2>5. /\ history' \in [Rec -> Seq(Data)] /\ history'[p] = hp /\ history'[q] = hq
        /\ \A r \in Rec : r \notin {p, q} => history'[r] = history[r]
    BY <1>1, <2>1, <2>3, <2>4
  <2>6. /\ task' \in [Rec -> Seq(Task)] /\ task'[p] = tp /\ task'[q] = tq
        /\ \A r \in Rec : r \notin {p, q} => task'[r] = task[r]
    BY <1>1, <2>1, <2>3, <2>4
  <2> QED BY <1>1, <1>4, <2>2, <2>5, <2>6
<1>6. UNCHANGED <<erasing, erased, removing, doc, spoilt>>
  BY DEF Merge
<1>7. /\ \A r \in Rec : VersionsHold(r)' /\ DocHolds(r)'
      /\ \A r \in Rec : \A v \in DOMAIN task'[r] : TaskHolds(r, v)'
      /\ \A r \in Rec : Len(history'[r]) >= Len(history[r])
      /\ \A r \in Rec : Latest(r)' = IF r \in R THEN data[r] ELSE Latest(r)
  <2>1. Commits(R, data)
    BY <1>5, <1>6, <1>d DEF Commits, OnlyUnnoticed
  <2> QED BY <2>1, CommitsHold
<1>8. redirect' = [redirect EXCEPT ![p] = [Idle EXCEPT !.at = "queued"]]
  BY DEF Merge
<1>9. PICK queued : queued = [Idle EXCEPT !.at = "queued"]
  OBVIOUS
<1>a. queued \in Redirection /\ queued.at = "queued"
  BY <1>9 DEF Idle, Redirection
<1>10. /\ redirect' \in [Paper -> Redirection] /\ redirect'[p] = queued
       /\ \A o \in Paper : o # p => redirect'[o] = redirect[o]
  BY <1>8, <1>9, <1>a DEF IndexingInv, IndexingTypeOK
<1>11. ASSUME NEW o \in Paper PROVE RedirectHolds(o)'
  <2>1. o \in Rec
    BY DEF Rec
  <2>2. CASE o = p
    <3>1. Latest(p)' = merged
      BY <1>1, <1>4, <1>7
    <3> QED BY <1>3, <1>a, <1>10, <2>2, <3>1 DEF RedirectHolds
  <2>3. CASE o # p
    <3>1. Latest(o)' = Latest(o)
      BY <1>4, <1>7, <2>1, <2>3
    <3>2. \A r \in Rec : Len(history'[r]) \in Nat
      BY <1>5
    <3> QED BY <1>7, <1>10, <2>3, <3>1, <3>2, RedirectsStay
  <2> QED BY <2>2, <2>3
<1>12. IndexingTypeOK'
  BY <1>5, <1>6, <1>10 DEF IndexingInv, IndexingTypeOK
<1> QED BY <1>6, <1>7, <1>11, <1>12 DEF IndexingInv

-----------------------------------------------------------------------------
(* Index tasks                                                             *)

\* A document is written: a version that is not older than what it has.
Writes(r) ==
  /\ doc' \in [Rec -> Document]
  /\ \A o \in Rec :
       \/ doc'[o] = doc[o]
       \/ /\ o = r \/ o \in Paper
          /\ \E n \in 1..Len(history[o]), k \in Nat : n >= doc[o].version /\ doc'[o] = Put(o, n, k)

\* A step of the task of version v of r.
Moves(r, v, t) ==
  /\ r \in Rec /\ v \in DOMAIN task[r] /\ t \in Task /\ task' = [task EXCEPT ![r][v] = t]
  /\ Unfinished(task[r][v])
  /\ Writes(r)
  /\ t.at = "own" => t.on = r /\ t.version = v
  /\ t.at = "bulk" => t.on \in Paper /\ t.version \in 1..Len(history[t.on])
  /\ t.at \in {"batch", "bulk", "lost"} =>
       task[r][v].at \in {"batch", "bulk", "lost"} \/ doc'[r].version >= v \/ Excused(r)'
  /\ spoilt \subseteq spoilt' /\ spoilt' \subseteq Reason \X Rec
  /\ UNCHANGED <<recVars, redirect>>

\* The document written from a version.
LEMMA PutIs ==
  ASSUME IndexingInv, NEW o \in Rec, NEW n \in 1..Len(history[o]), NEW k \in Nat
  PROVE  /\ Put(o, n, k) \in Document /\ Put(o, n, k).version = n
         /\ Put(o, n, k).live <=> ~history[o][n].gone
         /\ Put(o, n, k).live => Put(o, n, k).refs = history[o][n].refs
<1>1. history[o][n] \in Data /\ n \in Nat
  BY LatestVersion
<1> QED BY <1>1 DEF Put, Tombstone, Document, Data

\* A task that moves on without reading or writing keeps the invariant.
LEMMA MovesHold ==
  ASSUME IndexingInv, NEW r, NEW v, NEW t, Moves(r, v, t)
  PROVE  IndexingInv'
<1> USE DEF Moves
<1>1. /\ r \in Rec /\ v \in DOMAIN task[r] /\ t \in Task
      /\ task' \in [Rec -> Seq(Task)] /\ task'[r][v] = t
      /\ \A o \in Rec : Len(task'[o]) = Len(task[o]) /\ DOMAIN task'[o] = DOMAIN task[o]
      /\ \A o \in Rec : \A n \in DOMAIN task[o] : <<o, n>> # <<r, v>> => task'[o][n] = task[o][n]
  BY OneTask
<1>2. UNCHANGED <<history, erasing, erased, removing, redirect>>
  BY DEF recVars
<1>3. IndexingTypeOK'
  BY <1>1, <1>2 DEF IndexingInv, IndexingTypeOK, Writes
<1>4. \A o \in Rec : VersionsHold(o)'
  BY <1>1, <1>2 DEF IndexingInv, VersionsHold
<1>5. \A o \in Rec : \A n \in DOMAIN task'[o] : TaskHolds(o, n)'
  <2> TAKE o \in Rec
  <2> TAKE n \in DOMAIN task'[o]
  <2>1. n \in DOMAIN task[o] /\ TaskHolds(o, n)
    BY <1>1 DEF IndexingInv
  <2> QED BY <1>1, <1>2, <2>1 DEF TaskHolds
<1>6. \A p \in Paper : RedirectHolds(p)'
  BY <1>2 DEF IndexingInv, RedirectHolds, Latest
<1>7. ASSUME NEW o \in Rec PROVE DocHolds(o)'
  <2>1. DocHolds(o) /\ VersionsHold(o) /\ doc[o] \in Document /\ doc'[o] \in Document
    BY <1>3 DEF IndexingInv, IndexingTypeOK
  <2>2. Excused(o) => Excused(o)'
    BY ExcuseStays
  <2>3. o \in erased /\ ~Excused(o)' => task'[o] = task[o] /\ doc'[o] = doc[o]
    <3> SUFFICES ASSUME o \in erased, ~Excused(o)' PROVE task'[o] = task[o] /\ doc'[o] = doc[o]
      OBVIOUS
    <3>1. Quiet(o)
      BY <2>1, <2>2 DEF DocHolds
    <3>2. o # r
      BY <1>1, <3>1 DEF Quiet
    <3>3. o \notin Paper
      BY RecAssumption DEF IndexingInv, IndexingTypeOK
    <3>4. task'[o] = task[o]
      BY <1>1, <3>2 DEF IndexingInv, IndexingTypeOK
    <3> QED BY <3>2, <3>3, <3>4 DEF Writes
  <2>4. /\ doc'[o].version >= doc[o].version
        /\ doc[o] = doc'[o] \/ /\ doc'[o].version \in 1..Len(history[o])
                               /\ doc'[o].live <=> ~history[o][doc'[o].version].gone
                               /\ doc'[o].live => doc'[o].refs = history[o][doc'[o].version].refs
    <3>1. CASE doc'[o] = doc[o]
      BY <2>1, <3>1 DEF Document
    <3>2. CASE \E n \in 1..Len(history[o]), k \in Nat : n >= doc[o].version /\ doc'[o] = Put(o, n, k)
      <4>1. PICK n \in 1..Len(history[o]), k \in Nat : n >= doc[o].version /\ doc'[o] = Put(o, n, k)
        BY <3>2
      <4>2. /\ doc'[o].version = n
            /\ doc'[o].live <=> ~history[o][n].gone
            /\ doc'[o].live => doc'[o].refs = history[o][n].refs
        BY <4>1, PutIs
      <4> QED BY <4>1, <4>2
    <3> QED BY <3>1, <3>2 DEF Writes
  <2>5. ASSUME ~Excused(o)', o \notin erasing \cup erased, NEW n \in DOMAIN task'[o],
               task'[o][n].at \in {"batch", "bulk", "lost"}
        PROVE  doc'[o].version >= n
    <3>1. n \in DOMAIN task[o] /\ n \in Nat
      BY <1>1, <2>5, LatestVersion
    <3>2. task[o][n].at \in {"batch", "bulk", "lost"} => doc[o].version >= n
      BY <2>1, <2>2, <2>5, <3>1 DEF DocHolds
    <3>3. task[o][n].at \in {"batch", "bulk", "lost"} \/ doc'[o].version >= n
      BY <1>1, <2>5, <3>1
    <3> QED BY <2>1, <2>4, <3>1, <3>2, <3>3 DEF Document
  <2>6. Quiet(o) /\ task'[o] = task[o] => Quiet(o)'
    BY DEF Quiet
  <2>7. /\ doc'[o].live => /\ doc'[o].version \in 1..Len(history[o])
                           /\ doc'[o].refs = history[o][doc'[o].version].refs
                           /\ ~history[o][doc'[o].version].gone
        /\ o \notin erasing \cup erased /\ ~Excused(o)' =>
             /\ doc'[o].version \in 1..Len(history[o])
             /\ doc'[o].live \/ history[o][doc'[o].version].gone
    BY <2>1, <2>2, <2>4 DEF DocHolds
  <2> QED BY <1>2, <2>1, <2>2, <2>3, <2>5, <2>6, <2>7 DEF DocHolds
<1> QED BY <1>2, <1>3, <1>4, <1>5, <1>6, <1>7 DEF IndexingInv

\* A step that leaves the index writes nothing older.
LEMMA WritesNothing ==
  ASSUME IndexingInv, UNCHANGED doc, NEW r
  PROVE  Writes(r)
BY DEF Writes, IndexingInv, IndexingTypeOK

\* A task that has read holds a version that exists.
LEMMA FetchHolds ==
  ASSUME IndexingInv, NEW r \in Rec, NEW v \in DOMAIN task[r], Unfinished(task[r][v]),
         NEW at, NEW rec \in Rec, NEW n \in 1..Len(history[rec]), Fetch(r, v, at, rec, n),
         \/ at = "own" /\ rec = r /\ n = v
         \/ at = "bulk" /\ rec \in Paper /\ task[r][v].at = "batch"
  PROVE  IndexingInv'
<1>1. task[r][v] \in Task /\ n \in Nat /\ Count(rec) \in Nat
  BY LatestVersion, CountIsNat
<1>2. PICK t : t = [task[r][v] EXCEPT !.at = at, !.on = rec, !.version = n, !.count = Count(rec)]
  OBVIOUS
<1>3. t \in Task /\ t.at = at /\ t.on = rec /\ t.version = n
  BY <1>1, <1>2 DEF Task
<1>4. task \in [Rec -> Seq(Task)]
  BY DEF IndexingInv, IndexingTypeOK
<1>5. task' = [task EXCEPT ![r][v] = t]
  BY <1>2, <1>4 DEF Fetch
<1>6. spoilt \subseteq spoilt' /\ spoilt' \subseteq Reason \X Rec
  BY DEF Fetch, Blame, Reason, IndexingInv, IndexingTypeOK
<1>7. Writes(r)
  BY WritesNothing DEF Fetch
<1>8. Moves(r, v, t)
  BY <1>3, <1>5, <1>6, <1>7 DEF Moves, Fetch
<1> QED BY <1>8, MovesHold

\* So the reads of a task keep the invariant.
LEMMA ReadsHold ==
  ASSUME IndexingInv, NEW r \in Rec, NEW v \in DOMAIN task[r],
         ReadOwn(r, v) \/ \E p \in Paper : BulkRead(r, v, p)
  PROVE  IndexingInv'
<1>1. CASE ReadOwn(r, v)
  <2>1. v \in 1..Len(history[r]) /\ Unfinished(task[r][v])
    BY <1>1, LatestVersion DEF ReadOwn, Unfinished
  <2> QED BY <1>1, <2>1, FetchHolds DEF ReadOwn
<1>2. CASE \E p \in Paper : BulkRead(r, v, p)
  <2>1. PICK p \in Paper : BulkRead(r, v, p)
    BY <1>2
  <2>2. p \in Rec /\ Unfinished(task[r][v])
    BY <2>1 DEF Rec, BulkRead, Unfinished
  <2>3. Len(history[p]) \in 1..Len(history[p])
    BY <2>2, LatestVersion
  <2> QED BY <2>1, <2>2, <2>3, FetchHolds DEF BulkRead
<1> QED BY <1>1, <1>2

\* The write of a task's own record: the version check keeps the newer document.
LEMMA WriteOwnHolds ==
  ASSUME IndexingInv, NEW r \in Rec, NEW v \in DOMAIN task[r], WriteOwn(r, v)
  PROVE  IndexingInv'
<1> DEFINE batch == [Queued EXCEPT !.at = "batch", !.todo = ChangedRefs(r, v)]
           lost == [Queued EXCEPT !.at = "lost"]
<1>1. ChangedRefs(r, v) \subseteq Paper
  BY ChangedType
<1>2. batch \in Task /\ batch.at = "batch" /\ lost \in Task /\ lost.at = "lost"
  BY <1>1 DEF Queued, Task
<1>3. v \in 1..Len(history[r]) /\ v \in Nat /\ task[r][v].count \in Nat /\ doc[r] \in Document
  BY LatestVersion DEF Task, IndexingInv, IndexingTypeOK
<1>4. PICK t : /\ task' = [task EXCEPT ![r][v] = t]
               /\ t \in {batch, lost, Queued}
               /\ t = lost => ~Accepts(r, v)
  <2>1. \/ task' = [task EXCEPT ![r][v] = batch]
        \/ task' = [task EXCEPT ![r][v] = Queued]
        \/ task' = [task EXCEPT ![r][v] = lost] /\ ~Accepts(r, v)
    BY DEF WriteOwn
  <2>2. batch # lost /\ Queued # lost
    BY <1>2, QueuedType
  <2> HIDE DEF batch, lost
  <2> QED BY <2>1, <2>2
<1>5. t \in Task /\ t.at \in {"batch", "lost", "queued"}
  BY <1>2, <1>4, QueuedType
<1>6. spoilt \subseteq spoilt' /\ spoilt' \subseteq Reason \X Rec
  <2>1. Blame("conflict", ChangedRefs(r, v)) \subseteq Reason \X Rec
    BY <1>1 DEF Blame, Reason, Rec
  <2> QED BY <2>1 DEF WriteOwn, IndexingInv, IndexingTypeOK
<1>7. Put(r, v, task[r][v].count) \in Document /\ Put(r, v, task[r][v].count).version = v
  BY <1>3, PutIs
<1>8. doc' = [doc EXCEPT ![r] = IF Accepts(r, v) THEN Put(r, v, task[r][v].count) ELSE @]
  BY DEF WriteOwn
<1>9. Writes(r)
  BY <1>3, <1>7, <1>8 DEF Writes, Accepts, IndexingInv, IndexingTypeOK
<1>10. doc'[r].version >= v
  BY <1>3, <1>7, <1>8 DEF Accepts, IndexingInv, IndexingTypeOK, Document
<1>11. task[r][v].at = "own" /\ UNCHANGED <<recVars, redirect>>
  BY DEF WriteOwn
<1>12. Moves(r, v, t)
  BY <1>4, <1>5, <1>6, <1>9, <1>10, <1>11 DEF Moves, Unfinished
<1> QED BY <1>12, MovesHold

\* The same for the cited records of its batch.
LEMMA BulkWriteHolds ==
  ASSUME IndexingInv, NEW r \in Rec, NEW v \in DOMAIN task[r], BulkWrite(r, v)
  PROVE  IndexingInv'
<1>1. PICK old \in Task : old = task[r][v]
  BY LatestVersion
<1>2. old.at = "bulk" /\ old.on \in Paper /\ old.version \in 1..Len(history[old.on])
  BY <1>1 DEF BulkWrite, TaskHolds, IndexingInv
<1>3. old.on \in Rec /\ old.count \in Nat /\ old.todo \subseteq Paper
  BY <1>2 DEF Rec, Task
<1>4. PICK t : t = [Queued EXCEPT !.at = "batch", !.todo = old.todo \ {old.on}]
  OBVIOUS
<1>5. t \in Task /\ t.at = "batch"
  BY <1>3, <1>4 DEF Queued, Task
<1>6. PICK o \in Rec, n, k \in Nat : o = old.on /\ n = old.version /\ k = old.count /\ n \in 1..Len(history[o])
  BY <1>2, <1>3
<1>7. doc' = [doc EXCEPT ![o] = IF Accepts(o, n) THEN Put(o, n, k) ELSE @]
  BY <1>1, <1>6 DEF BulkWrite
<1>8. Put(o, n, k) \in Document
  BY <1>6, PutIs
<1>9. Writes(r)
  BY <1>2, <1>6, <1>7, <1>8 DEF Writes, Accepts, IndexingInv, IndexingTypeOK
<1>10. /\ task' = [task EXCEPT ![r][v] = t] /\ UNCHANGED <<recVars, redirect, spoilt>>
  BY <1>1, <1>4 DEF BulkWrite
<1>11. Moves(r, v, t)
  BY <1>1, <1>2, <1>5, <1>9, <1>10 DEF Moves, Unfinished, IndexingInv, IndexingTypeOK
<1> QED BY <1>11, MovesHold

\* A task that is retried or given up keeps the invariant.
LEMMA FailuresHold ==
  ASSUME IndexingInv, NEW r \in Rec, NEW v \in DOMAIN task[r], Retry(r, v) \/ GiveUp(r, v)
  PROVE  IndexingInv'
<1>1. Unfinished(task[r][v]) /\ Writes(r) /\ UNCHANGED <<recVars, redirect>>
  BY WritesNothing DEF Retry, GiveUp
<1>2. CASE Retry(r, v)
  <2>1. Moves(r, v, Queued)
    BY <1>1, <1>2, QueuedType DEF Retry, Moves, IndexingInv, IndexingTypeOK
  <2> QED BY <2>1, MovesHold
<1>3. CASE GiveUp(r, v)
  <2>1. PICK t : t = [Queued EXCEPT !.at = "lost"]
    OBVIOUS
  <2>2. t \in Task /\ t.at = "lost"
    BY <2>1 DEF Queued, Task
  <2>3. ChangedRefs(r, v) \subseteq Rec
    BY ChangedType DEF Rec
  <2>4. /\ spoilt \subseteq spoilt' /\ spoilt' \subseteq Reason \X Rec
        /\ <<"outage", r>> \in spoilt'
    BY <1>3, <2>3 DEF GiveUp, Blame, Reason, IndexingInv, IndexingTypeOK
  <2>5. Excused(r)'
    BY <2>4 DEF Excused, Spoilt
  <2>6. Moves(r, v, t)
    BY <1>1, <1>3, <2>1, <2>2, <2>4, <2>5 DEF GiveUp, Moves
  <2> QED BY <2>6, MovesHold
<1> QED BY <1>2, <1>3

-----------------------------------------------------------------------------
(* Deletions, and what OpenSearch forgets                                  *)

\* The document of one record is deleted, or left alone.
Drops(c) ==
  /\ c \in Rec
  /\ doc' \in [Rec -> Document]
  /\ \A r \in Rec : r # c => doc'[r] = doc[r]
  /\ doc'[c] = doc[c] \/ ~doc'[c].live
  /\ spoilt \subseteq spoilt' /\ spoilt' \subseteq Reason \X Rec
  /\ erasing' \subseteq Citer /\ erased' \subseteq Citer /\ removing' \subseteq Citer
  /\ removing' \subseteq erased'
  /\ \A r \in Rec : r # c => /\ r \in erasing' <=> r \in erasing
                             /\ r \in erased' <=> r \in erased
                             /\ r \in removing' <=> r \in removing
  /\ c \notin erasing' \cup erased' => Excused(c)'
  /\ c \in erased' => Excused(c)' \/ (Quiet(c) /\ (doc'[c].live => c \in removing'))
  /\ UNCHANGED <<history, task, redirect>>

\* Removing a document on the way of a hard deletion is excused.
LEMMA DropsHold ==
  ASSUME IndexingInv, NEW c, Drops(c)
  PROVE  IndexingInv'
<1> USE DEF Drops
<1>1. IndexingTypeOK'
  BY DEF IndexingInv, IndexingTypeOK
<1>2. \A r \in Rec : VersionsHold(r)' /\ \A v \in DOMAIN task'[r] : TaskHolds(r, v)'
  BY DEF IndexingInv, VersionsHold, TaskHolds
<1>3. \A p \in Paper : RedirectHolds(p)'
  BY DEF IndexingInv, RedirectHolds, Latest
<1>4. ASSUME NEW r \in Rec PROVE DocHolds(r)'
  <2>1. DocHolds(r) /\ Quiet(r)' = Quiet(r)
    BY DEF IndexingInv, Quiet
  <2>2. Excused(r) => Excused(r)'
    BY ExcuseStays
  <2>3. CASE r # c
    BY <2>1, <2>2, <2>3 DEF DocHolds
  <2>4. CASE r = c
    BY <2>1, <2>4 DEF DocHolds
  <2> QED BY <2>3, <2>4
<1> QED BY <1>1, <1>2, <1>3, <1>4 DEF IndexingInv

\* A tombstone is a document that is not live.
LEMMA TombstoneType == \A v \in Nat : Tombstone(v) \in Document /\ ~Tombstone(v).live
BY DEF Tombstone, Document

\* Hard deletion keeps the invariant.
LEMMA ErasingHolds ==
  ASSUME IndexingInv, NEW c \in Citer, Erase(c) \/ EraseCommit(c) \/ EraseRollback(c) \/ RemoveErased(c)
  PROVE  IndexingInv'
<1>1. c \in Rec
  BY DEF Rec
<1>2. doc[c] \in Document /\ doc[c].version \in Nat /\ doc[c].version + 1 \in Nat /\ Len(history[c]) \in Nat
  BY <1>1, LatestVersion DEF IndexingInv, IndexingTypeOK, Document
<1>3. DocHolds(c)
  BY <1>1 DEF IndexingInv
<1>4. CASE Erase(c)
  <2>1. PICK new : new = Tombstone(doc[c].version + 1)
    OBVIOUS
  <2>2. new \in Document /\ ~new.live
    BY <1>2, <2>1, TombstoneType
  <2>3. doc' = [doc EXCEPT ![c] = IF doc[c].live THEN new ELSE doc[c]]
    BY <1>1, <1>4, <2>1 DEF Erase, IndexingInv, IndexingTypeOK
  <2>4. Drops(c)
    BY <1>1, <1>2, <1>4, <2>2, <2>3 DEF Erase, Drops, IndexingInv, IndexingTypeOK
  <2> QED BY <2>4, DropsHold
<1>5. CASE EraseCommit(c)
  <2>1. Latest(c).refs \subseteq Rec
    BY <1>1, LatestVersion DEF Data, Rec
  <2>2. spoilt' \subseteq Reason \X Rec /\ spoilt \subseteq spoilt'
    BY <1>1, <1>5, <2>1 DEF EraseCommit, Blame, Reason, IndexingInv, IndexingTypeOK
  <2>3. ~Quiet(c) => Excused(c)'
    BY <1>5 DEF EraseCommit, Blame, Excused, Spoilt
  <2>4. Drops(c)
    BY <1>1, <1>5, <2>2, <2>3 DEF EraseCommit, Drops, IndexingInv, IndexingTypeOK
  <2> QED BY <2>4, DropsHold
<1>6. CASE EraseRollback(c)
  <2>1. /\ spoilt' \subseteq Reason \X Rec /\ spoilt \subseteq spoilt'
        /\ <<"erased", c>> \in spoilt'
    BY <1>1, <1>6 DEF EraseRollback, Blame, Reason, IndexingInv, IndexingTypeOK
  <2>2. Excused(c)'
    BY <2>1 DEF Excused, Spoilt
  <2>3. Drops(c)
    BY <1>1, <1>6, <2>1, <2>2 DEF EraseRollback, Drops, IndexingInv, IndexingTypeOK
  <2> QED BY <2>3, DropsHold
<1>7. CASE RemoveErased(c)
  <2>1. PICK new : new = Tombstone(Len(history[c]))
    OBVIOUS
  <2>2. new \in Document /\ ~new.live
    BY <1>2, <2>1, TombstoneType
  <2>3. doc[c].live => Accepts(c, Len(history[c]))
    BY <1>2, <1>3 DEF DocHolds, Accepts
  <2>4. \/ /\ doc' = [doc EXCEPT ![c] = IF Accepts(c, Len(history[c])) THEN new ELSE @]
           /\ spoilt' = spoilt
        \/ /\ doc' = doc
           /\ spoilt' = spoilt \cup Blame("outage", {c})
    BY <1>7, <2>1 DEF RemoveErased
  <2>5. /\ doc' \in [Rec -> Document]
        /\ \A r \in Rec : r # c => doc'[r] = doc[r]
        /\ ~doc'[c].live \/ (doc'[c] = doc[c] /\ <<"outage", c>> \in spoilt')
    BY <1>1, <1>2, <2>2, <2>3, <2>4 DEF Blame, IndexingInv, IndexingTypeOK
  <2>6. spoilt' \subseteq Reason \X Rec /\ spoilt \subseteq spoilt'
    BY <1>1, <2>4 DEF Blame, Reason, IndexingInv, IndexingTypeOK
  <2>7. <<"outage", c>> \in spoilt' => Excused(c)'
    BY DEF Excused, Spoilt
  <2>8. c \in erased /\ UNCHANGED <<history, erasing, erased, task, redirect>> /\ removing' = removing \ {c}
    BY <1>7 DEF RemoveErased, IndexingInv
  <2>9. Quiet(c) \/ Excused(c)'
    BY <1>3, <2>6, <2>8, ExcuseStays DEF DocHolds
  <2>10. Drops(c)
    BY <1>1, <2>5, <2>6, <2>7, <2>8, <2>9 DEF Drops, IndexingInv, IndexingTypeOK
  <2> QED BY <2>10, DropsHold
<1> QED BY <1>4, <1>5, <1>6, <1>7

\* A tombstone that is forgotten is excused.
LEMMA ForgetHolds ==
  ASSUME IndexingInv, NEW r \in Rec, Forget(r)
  PROVE  IndexingInv'
<1>1. PICK new \in Document : new = Tombstone(0) /\ ~new.live
  BY TombstoneType
<1>2. doc' = [doc EXCEPT ![r] = new]
  BY <1>1 DEF Forget
<1>3. /\ spoilt' \subseteq Reason \X Rec /\ spoilt \subseteq spoilt'
      /\ <<"forgotten", r>> \in spoilt'
  BY DEF Forget, Blame, Reason, IndexingInv, IndexingTypeOK
<1>4. Excused(r)'
  BY <1>3 DEF Excused, Spoilt
<1>5. Drops(r)
  BY <1>1, <1>2, <1>3, <1>4 DEF Forget, Drops, recVars, IndexingInv, IndexingTypeOK
<1> QED BY <1>5, DropsHold

-----------------------------------------------------------------------------
(* Redirections                                                            *)

\* One redirection goes on, and nothing else happens.
LEMMA RedirectionHolds ==
  ASSUME IndexingInv, NEW p \in Paper, NEW state \in Redirection,
         redirect' = [redirect EXCEPT ![p] = state],
         state.at = "idle" \/ redirect[p].at # "idle",
         state.at = "loaded" => state.on \in Citer /\ state.version \in 1..Len(history[state.on]),
         UNCHANGED <<recVars, doc, task, spoilt>>
  PROVE  IndexingInv'
<1>1. /\ redirect' \in [Paper -> Redirection] /\ redirect'[p] = state
      /\ \A o \in Paper : o # p => redirect'[o] = redirect[o]
  BY DEF IndexingInv, IndexingTypeOK
<1>2. IndexingTypeOK' /\ removing' \subseteq erased'
  BY <1>1 DEF IndexingInv, IndexingTypeOK, recVars
<1>3. \A r \in Rec : VersionsHold(r)' /\ DocHolds(r)' /\ \A v \in DOMAIN task'[r] : TaskHolds(r, v)'
  BY DEF IndexingInv, VersionsHold, DocHolds, TaskHolds, Excused, Spoilt, Quiet, recVars
<1>4. \A o \in Paper : RedirectHolds(o)'
  <2> TAKE o \in Paper
  <2>1. RedirectHolds(o)
    BY DEF IndexingInv
  <2> QED BY <1>1, <2>1 DEF RedirectHolds, Latest, recVars
<1> QED BY <1>2, <1>3, <1>4 DEF IndexingInv

\* A redirection begins idle.
LEMMA IdleType == Idle \in Redirection /\ Idle.at = "idle"
BY DEF Idle, Redirection

\* A redirection that searches or loads keeps the invariant.
LEMMA RedirectsHold ==
  ASSUME IndexingInv, NEW p \in Paper,
         RedirectSearch(p) \/ RedirectDone(p) \/ \E c \in Citer : RedirectLoad(p, c)
  PROVE  IndexingInv'
<1>1. CASE RedirectSearch(p)
  <2>1. PICK state : state = [Idle EXCEPT !.at = "scan", !.todo = {c \in Citer : doc[c].live /\ p \in doc[c].refs}]
    OBVIOUS
  <2>2. state \in Redirection /\ state.at = "scan"
    BY <2>1 DEF Idle, Redirection
  <2> QED BY <1>1, <2>1, <2>2, RedirectionHolds DEF RedirectSearch
<1>2. CASE RedirectDone(p)
  BY <1>2, IdleType, RedirectionHolds DEF RedirectDone
<1>3. CASE \E c \in Citer : RedirectLoad(p, c)
  <2>1. PICK c \in Citer : RedirectLoad(p, c)
    BY <1>3
  <2>2. c \in Rec /\ redirect[p] \in Redirection
    BY DEF Rec, IndexingInv, IndexingTypeOK
  <2>3. PICK n \in Nat : n = Len(history[c]) /\ n \in 1..Len(history[c])
    BY <2>2, LatestVersion
  <2>4. PICK loaded, skipped :
          /\ loaded = [redirect[p] EXCEPT !.at = "loaded", !.on = c, !.version = n]
          /\ skipped = [redirect[p] EXCEPT !.todo = redirect[p].todo \ {c}]
    OBVIOUS
  <2>5. /\ loaded \in Redirection /\ loaded.at = "loaded" /\ loaded.on = c /\ loaded.version = n
        /\ skipped \in Redirection /\ skipped.at = redirect[p].at
    BY <2>2, <2>4 DEF Redirection
  <2>6. redirect[p].at = "scan" /\ UNCHANGED <<recVars, doc, task, spoilt>>
    BY <2>1 DEF RedirectLoad
  <2>7. \/ redirect' = [redirect EXCEPT ![p] = loaded]
        \/ redirect' = [redirect EXCEPT ![p] = skipped]
    <3>1. CASE p \in Latest(c).refs
      <4>1. redirect' = [redirect EXCEPT ![p] = [@ EXCEPT !.at = "loaded", !.on = c, !.version = Len(history[c])]]
        BY <2>1, <3>1 DEF RedirectLoad
      <4> QED BY <2>3, <2>4, <4>1
    <3>2. CASE p \notin Latest(c).refs
      <4>1. redirect' = [redirect EXCEPT ![p] = [@ EXCEPT !.todo = redirect[p].todo \ {c}]]
        BY <2>1, <3>2 DEF RedirectLoad
      <4> QED BY <2>4, <4>1
    <3> QED BY <3>1, <3>2
  <2> QED BY <2>3, <2>5, <2>6, <2>7, RedirectionHolds
<1> QED BY <1>1, <1>2, <1>3

\* What a redirection stores is the latest version, but for the reference.
LEMMA RedirectStoreFacts ==
  ASSUME IndexingInv, NEW p \in Paper, RedirectStore(p)
  PROVE  LET c == redirect[p].on
             d == [Latest(c) EXCEPT !.refs = Redirected(@, p)]
         IN  /\ c \in Citer /\ CanSave(c) /\ d \in Data /\ d.into = Latest(c).into
             /\ Committed(c, d)
             /\ redirect' = [redirect EXCEPT ![p] =
                  [Idle EXCEPT !.at = "scan", !.todo = redirect[p].todo \ {c}]]
             /\ UNCHANGED <<erasing, erased, removing, doc, spoilt>>
<1>1. PICK c : c = redirect[p].on
  OBVIOUS
<1>2. /\ redirect[p].at = "loaded" /\ Len(history[c]) = redirect[p].version /\ CanSave(c)
      /\ Committed(c, [history[c][redirect[p].version] EXCEPT !.refs = Redirected(@, p)])
      /\ redirect' = [redirect EXCEPT ![p] = [Idle EXCEPT !.at = "scan", !.todo = redirect[p].todo \ {c}]]
      /\ UNCHANGED <<erasing, erased, removing, doc, spoilt>>
  BY <1>1 DEF RedirectStore, StillLoaded
<1>3. c \in Citer /\ c \in Rec /\ Latest(p).into \in Paper
  BY <1>1, <1>2 DEF IndexingInv, RedirectHolds, Rec
<1>4. Latest(c) \in Data /\ Latest(c) = history[c][redirect[p].version]
  BY <1>2, <1>3, LatestVersion DEF Latest
<1>5. Redirected(Latest(c).refs, p) \subseteq Paper
  BY <1>3, <1>4 DEF Redirected, Data
<1>6. PICK d : d = [Latest(c) EXCEPT !.refs = Redirected(@, p)]
  OBVIOUS
<1>7. d \in Data /\ d.into = Latest(c).into
  BY <1>4, <1>5, <1>6 DEF Data
<1> QED BY <1>1, <1>2, <1>3, <1>4, <1>6, <1>7

\* Its save succeeds only over the version it loaded.
LEMMA RedirectStoreHolds ==
  ASSUME IndexingInv, NEW p \in Paper, RedirectStore(p)
  PROVE  IndexingInv'
<1>1. PICK c \in Citer, d \in Data :
        /\ CanSave(c) /\ d.into = Latest(c).into /\ Committed(c, d)
        /\ redirect' = [redirect EXCEPT ![p] = [Idle EXCEPT !.at = "scan", !.todo = redirect[p].todo \ {c}]]
        /\ UNCHANGED <<erasing, erased, removing, doc, spoilt>>
  BY RedirectStoreFacts
<1>2. c \in Rec
  BY DEF Rec
<1>3. /\ history' \in [Rec -> Seq(Data)] /\ task' \in [Rec -> Seq(Task)]
      /\ \A o \in Rec : VersionsHold(o)' /\ DocHolds(o)'
      /\ \A o \in Rec : \A v \in DOMAIN task'[o] : TaskHolds(o, v)'
      /\ \A o \in Paper : redirect'[o] = redirect[o] => RedirectHolds(o)'
      /\ \A o \in Paper : Latest(o).into \in Paper => Latest(o).into' \in Paper
  BY <1>1, <1>2, OneCommit DEF OnlyUnnoticed
<1>4. PICK state : state = [Idle EXCEPT !.at = "scan", !.todo = redirect[p].todo \ {c}]
  OBVIOUS
<1>5. state \in Redirection /\ state.at = "scan"
  BY <1>4 DEF Idle, Redirection, IndexingInv, IndexingTypeOK
<1>6. /\ redirect' \in [Paper -> Redirection] /\ redirect'[p] = state
      /\ \A o \in Paper : o # p => redirect'[o] = redirect[o]
  BY <1>1, <1>4, <1>5 DEF IndexingInv, IndexingTypeOK
<1>7. Latest(p).into \in Paper
  BY DEF RedirectStore, StillLoaded, IndexingInv, RedirectHolds
<1>8. \A o \in Paper : RedirectHolds(o)'
  <2> TAKE o \in Paper
  <2>1. CASE o = p
    BY <1>3, <1>5, <1>6, <1>7, <2>1 DEF RedirectHolds
  <2>2. CASE o # p
    BY <1>3, <1>6, <2>2
  <2> QED BY <2>1, <2>2
<1>9. IndexingTypeOK'
  BY <1>1, <1>3, <1>6 DEF IndexingInv, IndexingTypeOK
<1> QED BY <1>1, <1>3, <1>8, <1>9 DEF IndexingInv

-----------------------------------------------------------------------------
(* The invariant                                                           *)

LEMMA IndexingInitInv == IndexingInit => IndexingInv
<1> SUFFICES ASSUME IndexingInit PROVE IndexingInv
  OBVIOUS
<1> DEFINE Count0(refs, r) == Cardinality({c \in Citer : r \in refs[c]})
           Refs0(refs, r) == IF r \in Citer THEN refs[r] ELSE {}
<1>1. PICK refs \in [Citer -> SUBSET Paper] :
        /\ history = [r \in Rec |-> <<[refs |-> Refs0(refs, r), gone |-> FALSE, into |-> NoRec,
                                  successor |-> "none", listed |-> TRUE]>>]
        /\ doc = [r \in Rec |-> [live |-> TRUE, version |-> 1, refs |-> Refs0(refs, r), count |-> Count0(refs, r)]]
        /\ erasing = {} /\ erased = {} /\ removing = {}
        /\ task = [r \in Rec |-> <<[Queued EXCEPT !.at = "batch"]>>]
        /\ redirect = [p \in Paper |-> Idle]
        /\ spoilt = {}
  BY DEF IndexingInit
<1>2. ASSUME NEW r PROVE Count0(refs, r) \in Nat
  <2>1. {c \in Citer : r \in refs[c]} \subseteq Citer
    OBVIOUS
  <2>2. IsFiniteSet({c \in Citer : r \in refs[c]})
    BY <2>1, RecAssumption, FS_Subset
  <2> QED BY <2>2, FS_CardinalityType
<1>3. ASSUME NEW r PROVE Refs0(refs, r) \subseteq Paper
  OBVIOUS
<1> HIDE DEF Count0, Refs0
<1>4. PICK t : t = [Queued EXCEPT !.at = "batch"]
  OBVIOUS
<1>5. t \in Task /\ t.at = "batch"
  BY <1>4 DEF Queued, Task
<1>6. ASSUME NEW r \in Rec
      PROVE  /\ history[r] \in Seq(Data) /\ Len(history[r]) = 1
             /\ history[r][1].refs = Refs0(refs, r) /\ ~history[r][1].gone
             /\ task[r] \in Seq(Task) /\ Len(task[r]) = 1 /\ task[r][1] = t
             /\ doc[r] \in Document /\ doc[r].version = 1 /\ doc[r].live
             /\ doc[r].refs = Refs0(refs, r)
  <2>1. PICK d : d = [refs |-> Refs0(refs, r), gone |-> FALSE, into |-> NoRec,
                      successor |-> "none", listed |-> TRUE]
    OBVIOUS
  <2>2. d \in Data /\ d.refs = Refs0(refs, r) /\ ~d.gone
    BY <1>3, <2>1 DEF Data
  <2>3. history[r] = <<d>> /\ task[r] = <<t>>
    BY <1>1, <1>4, <2>1
  <2>4. /\ doc[r] \in Document /\ doc[r].version = 1 /\ doc[r].live
        /\ doc[r].refs = Refs0(refs, r)
    BY <1>1, <1>2, <1>3 DEF Document
  <2> QED BY <1>5, <2>2, <2>3, <2>4
<1>7. IndexingTypeOK
  <2>1. DOMAIN history = Rec /\ DOMAIN task = Rec /\ DOMAIN doc = Rec
    BY <1>1
  <2>2. history \in [Rec -> Seq(Data)] /\ task \in [Rec -> Seq(Task)] /\ doc \in [Rec -> Document]
    BY <1>1, <1>6, <2>1
  <2>3. redirect \in [Paper -> Redirection]
    BY <1>1, IdleType
  <2> QED BY <1>1, <2>2, <2>3 DEF IndexingTypeOK
<1>8. \A r \in Rec : VersionsHold(r) /\ DocHolds(r)
  BY <1>1, <1>6 DEF VersionsHold, DocHolds
<1>9. \A r \in Rec : \A v \in DOMAIN task[r] : TaskHolds(r, v)
  BY <1>5, <1>6 DEF TaskHolds
<1>10. \A p \in Paper : RedirectHolds(p)
  BY <1>1, IdleType DEF RedirectHolds
<1> QED BY <1>1, <1>7, <1>8, <1>9, <1>10 DEF IndexingInv

\* Every step keeps the invariant.
LEMMA IndexingStepInv == IndexingInv /\ [IndexingNext]_indexingVars => IndexingInv'
<1> SUFFICES ASSUME IndexingInv, [IndexingNext]_indexingVars PROVE IndexingInv'
  OBVIOUS
<1>1. CASE UNCHANGED indexingVars
  BY <1>1 DEF indexingVars, IndexingInv, IndexingTypeOK, VersionsHold, DocHolds, TaskHolds,
              RedirectHolds, Excused, Spoilt, Quiet, Latest
<1>2. CASE \E r \in Rec : Save(r) \/ DeleteRecord(r) \/ Forget(r)
  BY <1>2, SaveHolds, ForgetHolds
<1>3. CASE \E p, q \in Paper : Merge(p, q)
  BY <1>3, MergeHolds
<1>4. CASE \E c \in Citer : Erase(c) \/ EraseCommit(c) \/ EraseRollback(c) \/ RemoveErased(c)
  BY <1>4, ErasingHolds
<1>5. ASSUME NEW r \in Rec, NEW v \in DOMAIN task[r], TaskStep(r, v) \/ Retry(r, v) \/ GiveUp(r, v)
      PROVE  IndexingInv'
  BY <1>5, ReadsHold, WriteOwnHolds, BulkWriteHolds, FailuresHold DEF TaskStep
<1>6. ASSUME NEW p \in Paper, RedirectSearch(p) \/ RedirectStep(p)
      PROVE  IndexingInv'
  BY <1>6, RedirectsHold, RedirectStoreHolds DEF RedirectStep
<1> QED BY <1>1, <1>2, <1>3, <1>4, <1>5, <1>6 DEF IndexingNext

\* The invariant: no document is ahead of its record or behind an index task
\* that is over.
THEOREM IndexingInvHolds == IndexingSpec => []IndexingInv
<1> QED BY IndexingInitInv, IndexingStepInv, PTL DEF IndexingSpec

\* Versions, documents and tasks are what the table, the index and the queue
\* hold.
THEOREM IndexingTypes == IndexingSpec => []IndexingTypeOK
<1>1. IndexingInv => IndexingTypeOK
  BY DEF IndexingInv
<1> QED BY <1>1, IndexingInvHolds, PTL

\* A record whose tasks are over has the document of its latest version
\* (InspireRecordIndexer.index and batch_index with external_gte): see
\* DocIsLatest.
THEOREM DocIsLatestHolds == IndexingSpec => []DocIsLatest
<1>1. ASSUME IndexingInv PROVE DocIsLatest
  <2> SUFFICES ASSUME NEW r \in Rec, Quiet(r), r \notin erasing \cup removing, ~Excused(r)
               PROVE  IF r \in erased \/ Latest(r).gone THEN ~doc[r].live
                      ELSE /\ doc[r].live
                           /\ doc[r].version = Len(history[r]) /\ doc[r].refs = Latest(r).refs
    BY DEF DocIsLatest, Excused
  <2>1. DocHolds(r)
    BY <1>1 DEF IndexingInv
  <2>2. CASE r \in erased
    BY <2>1, <2>2 DEF DocHolds
  <2>3. CASE r \notin erased
    <3>1. PICK n \in Nat : n = Len(history[r]) /\ n \in DOMAIN task[r] /\ task[r][n] \in Task
      BY <1>1, LatestVersion
    <3>2. task[r][n].at \in {"batch", "bulk", "lost"}
      BY <3>1 DEF Quiet, Unfinished, Task
    <3>3. doc[r].version >= n /\ doc[r].version \in 1..n
      BY <2>1, <2>3, <3>1, <3>2 DEF DocHolds
    <3>4. doc[r].version = n
      BY <3>3
    <3> QED BY <2>1, <2>3, <3>1, <3>4 DEF DocHolds, Latest
  <2> QED BY <2>2, <2>3
<1> QED BY <1>1, IndexingInvHolds, PTL

\* Redirecting references changes no other reference (redirect_references_to_
\* merged_record): see RedirectOnlyRedirects.
THEOREM RedirectOnlyRedirectsHolds == IndexingSpec => RedirectOnlyRedirects
<1>1. ASSUME IndexingInv, NEW p \in Paper, NEW c \in Citer, redirect[p].on = c, RedirectStore(p)
      PROVE  Latest(c)' = [Latest(c) EXCEPT !.refs = Redirected(@, p)]
  <2>1. PICK d \in Data : /\ d = [Latest(c) EXCEPT !.refs = Redirected(@, p)]
                          /\ CanSave(c) /\ d.into = Latest(c).into /\ Committed(c, d)
                          /\ UNCHANGED <<erasing, erased, removing, doc, spoilt>>
    BY <1>1, RedirectStoreFacts
  <2>2. c \in Rec
    BY DEF Rec
  <2> QED BY <1>1, <2>1, <2>2, OneCommit DEF OnlyUnnoticed
<1>2. IndexingInv =>
        [\A p \in Paper, c \in Citer :
           redirect[p].on = c /\ RedirectStore(p) =>
             Latest(c)' = [Latest(c) EXCEPT !.refs = Redirected(@, p)]]_indexingVars
  BY <1>1
<1> QED BY <1>2, IndexingInvHolds, PTL DEF RedirectOnlyRedirects

-----------------------------------------------------------------------------
(* Citation counts                                                         *)

\* A task that is going to read p for the sake of its count.
Promises(r, v, p) ==
  \/ task[r][v].at \in {"queued", "own"} /\ p \in ChangedRefs(r, v)
  \/ task[r][v].at = "batch" /\ p \in task[r][v].todo
  \/ task[r][v].at = "bulk" /\ p \in task[r][v].todo \ {task[r][v].on}

Due(p) == \E r \in Rec : \E v \in DOMAIN task[r] : Promises(r, v, p)

\* No two tasks are between reading and writing p.
Alone(p) ==
  \A r, o \in Rec : \A v \in DOMAIN task[r], n \in DOMAIN task[o] :
    task[r][v].on = p /\ task[o][n].on = p => r = o /\ v = n

\* The count that a task has read is right or will be read again, and the write
\* of a task that reads p for its count is not refused.
Held(p) ==
  \A r \in Rec : \A v \in DOMAIN task[r] : task[r][v].on = p =>
    /\ task[r][v].count = Count(p) \/ Due(p)
    /\ task[r][v].at = "bulk" => task[r][v].version >= doc[p].version

\* So is the count in the index, or it is about to be written.
CountShown(p) ==
  \/ doc[p].count = Count(p) \/ Due(p)
  \/ \E r \in Rec : \E v \in DOMAIN task[r] : task[r][v].at = "bulk" /\ task[r][v].on = p

CountHolds(p) ==
  /\ \A v \in 1..Len(history[p]) : history[p][v].gone => Latest(p).gone
  /\ ~Latest(p).gone /\ ~Spoilt(Reason, p) => Alone(p) /\ Held(p) /\ CountShown(p)

\* A task has still to index only what its version cites or no longer cites.
TodoHolds(r, v) ==
  /\ task[r][v].at \in {"batch", "bulk"} => task[r][v].todo \subseteq ChangedRefs(r, v)
  /\ task[r][v].at = "bulk" => task[r][v].on \in task[r][v].todo
  /\ task[r][v].at \notin {"own", "bulk"} => task[r][v].on = NoRec

CountInv ==
  /\ IndexingInv
  /\ \A r \in Rec : \A v \in DOMAIN task[r] : TodoHolds(r, v)
  /\ \A p \in Paper : CountHolds(p)

\* A count is that of the records that cite.
LEMMA SameCount ==
  ASSUME NEW p, \A c \in Citer : Cites(c, p)' <=> Cites(c, p)
  PROVE  Count(p)' = Count(p)
<1>1. {c \in Citer : Cites(c, p)}' = {c \in Citer : Cites(c, p)}
  OBVIOUS
<1> QED BY <1>1 DEF Count

\* What is spoilt stays spoilt.
LEMMA SpoiltStays ==
  ASSUME spoilt \subseteq spoilt', NEW p
  PROVE  Spoilt(Reason, p) => Spoilt(Reason, p)'
BY DEF Spoilt, Reason

\* Papers are records that cite nothing.
LEMMA PaperIs ==
  ASSUME NEW p \in Paper
  PROVE  p \in Rec /\ p # NoRec /\ p \notin Citer
BY RecAssumption DEF Rec

\* Steps that leave versions and tasks alone.
LEMMA RestCounts ==
  ASSUME CountInv, IndexingInv', UNCHANGED <<history, task>>, spoilt \subseteq spoilt',
         \A p \in Paper : \/ Spoilt(Reason, p)'
                          \/ doc'[p] = doc[p] /\ \A c \in Citer : Cites(c, p)' <=> Cites(c, p)
  PROVE  CountInv'
<1>1. \A r \in Rec : \A v \in DOMAIN task'[r] : TodoHolds(r, v)'
  <2> SUFFICES ASSUME NEW r \in Rec, NEW v \in DOMAIN task'[r] PROVE TodoHolds(r, v)'
    OBVIOUS
  <2>1. TodoHolds(r, v) /\ task' = task
    BY DEF CountInv
  <2>2. ChangedRefs(r, v)' = ChangedRefs(r, v)
    BY DEF ChangedRefs
  <2> QED BY <2>1, <2>2 DEF TodoHolds
<1>2. ASSUME NEW p \in Paper PROVE CountHolds(p)'
  <2>1. CountHolds(p) /\ Latest(p)' = Latest(p)
    BY DEF CountInv, Latest
  <2>2. CASE Spoilt(Reason, p)'
    BY <2>1, <2>2 DEF CountHolds
  <2>3. CASE ~Spoilt(Reason, p)' /\ doc'[p] = doc[p] /\ \A c \in Citer : Cites(c, p)' <=> Cites(c, p)
    <3>1. Count(p)' = Count(p)
      BY <2>3, SameCount
    <3>2. Due(p)' = Due(p)
      BY DEF Due, Promises, ChangedRefs
    <3>3. ~Spoilt(Reason, p)
      BY <2>3, SpoiltStays
    <3>4. ~Latest(p).gone => Alone(p)' /\ Held(p)' /\ CountShown(p)'
      BY <2>1, <2>3, <3>1, <3>2, <3>3 DEF CountHolds, Alone, Held, CountShown
    <3> QED BY <2>1, <3>4 DEF CountHolds
  <2> QED BY <2>2, <2>3
<1> QED BY <1>1, <1>2 DEF CountInv

-----------------------------------------------------------------------------
(* Commits                                                                 *)

\* A version that a record has is compared with the same one before.
LEMMA ChangedStays ==
  ASSUME IndexingInv, NEW r \in Rec, NEW v \in 1..Len(history[r]),
         \A n \in 1..Len(history[r]) : history'[r][n] = history[r][n]
  PROVE  ChangedRefs(r, v)' = ChangedRefs(r, v)
<1>1. Len(history[r]) \in Nat /\ v \in Nat
  BY LatestVersion
<1>2. v # 1 => v - 1 \in 1..Len(history[r])
  BY <1>1
<1> QED BY <1>2 DEF ChangedRefs

\* A record that begins or ceases to cite p has p among what its task indexes,
\* or overlooks.
LEMMA CitesChanges ==
  ASSUME IndexingInv, NEW c \in Citer, NEW p, NEW d \in Data, c \notin erased, c \notin erased',
         history'[c] = Append(history[c], d), ~(Cites(c, p)' <=> Cites(c, p)),
         NEW v, v = Len(history[c]) + 1
  PROVE  p \in ChangedRefs(c, v)' \/ p \in Overlooked(Latest(c), d)
<1>1. c \in Rec
  BY DEF Rec
<1>2. PICK n \in Nat : n = Len(history[c]) /\ n >= 1 /\ Latest(c) \in Data /\ Latest(c) = history[c][n]
  BY <1>1, LatestVersion DEF Latest
<1>3. history[c] \in Seq(Data)
  BY <1>1 DEF IndexingInv, IndexingTypeOK
<1>4. Len(history'[c]) = n + 1 /\ history'[c][n + 1] = d /\ history'[c][n] = Latest(c) /\ Latest(c)' = d
  BY <1>2, <1>3 DEF Latest
<1>5. PICK old \in Data : old = Latest(c)
  BY <1>2
<1>6. /\ Cites(c, p) <=> Eligible(old) /\ p \in old.refs
      /\ Cites(c, p)' <=> Eligible(d) /\ p \in d.refs
  BY <1>4, <1>5 DEF Cites, Eligible
<1>7. /\ d.gone \in BOOLEAN /\ old.gone \in BOOLEAN /\ d.listed \in BOOLEAN /\ old.listed \in BOOLEAN
      /\ d.successor \in {"none", "first", "later"} /\ old.successor \in {"none", "first", "later"}
  BY DEF Data
<1>8. n + 1 # 1 /\ (n + 1) - 1 = n
  BY <1>2
<1>9. PICK changed : changed = (d.refs \ old.refs) \cup (old.refs \ d.refs)
  OBVIOUS
<1>10. ChangedRefs(c, v)' =
         IF d.gone # old.gone \/ (d.successor = "first") # (old.successor = "first")
         THEN d.refs \cup changed ELSE changed
  <2>1. v # 1 /\ v - 1 = n /\ history'[c][v] = d /\ history'[c][v-1] = old
    BY <1>2, <1>4, <1>5, <1>8
  <2> QED BY <1>9, <2>1 DEF ChangedRefs
<1>11. CASE p \in d.refs /\ p \in old.refs
  <2>1. Eligible(d) # Eligible(old)
    BY <1>6, <1>11
  <2>2. \/ d.gone # old.gone \/ (d.successor = "first") # (old.successor = "first")
        \/ d.listed # old.listed \/ {d.successor, old.successor} = {"none", "later"}
    BY <1>7, <2>1 DEF Eligible
  <2>3. CASE d.gone # old.gone \/ (d.successor = "first") # (old.successor = "first")
    BY <1>10, <1>11, <2>3
  <2>4. CASE d.listed # old.listed \/ {d.successor, old.successor} = {"none", "later"}
    BY <1>5, <1>11, <2>4 DEF Overlooked
  <2> QED BY <2>2, <2>3, <2>4
<1>12. CASE ~(p \in d.refs /\ p \in old.refs)
  BY <1>6, <1>9, <1>10, <1>12
<1> QED BY <1>11, <1>12

\* A deletion and a redirection are not overlooked.
LEMMA NothingOverlooked ==
  ASSUME NEW old \in Data, NEW d \in Data, d.successor = old.successor, d.listed = old.listed
  PROVE  Overlooked(old, d) = {}
BY DEF Overlooked, Data

\* A commit that changes who cites a paper has the paper in its own task's batch.
LEMMA CommitsCount ==
  ASSUME CountInv, IndexingInv', NEW R, NEW data, Commits(R, data),
         \A p \in Paper \cap R : Latest(p).gone => data[p].gone,
         \A c \in Citer \cap R : \A p \in Overlooked(Latest(c), data[c]) : <<"unnoticed", p>> \in spoilt'
  PROVE  CountInv'
<1>0. \A r \in Rec : Latest(r)' = IF r \in R THEN data[r] ELSE Latest(r)
  BY CommitsHold DEF CountInv
<1> USE DEF Commits
<1>1. IndexingInv /\ history \in [Rec -> Seq(Data)] /\ task \in [Rec -> Seq(Task)]
  BY DEF CountInv, IndexingInv, IndexingTypeOK
<1>2. ASSUME NEW r \in Rec
      PROVE  /\ \A v \in 1..Len(history[r]) : v \in 1..Len(history'[r]) /\ history'[r][v] = history[r][v]
             /\ \A v \in DOMAIN task[r] :
                  v \in DOMAIN task'[r] /\ task'[r][v] = task[r][v] /\ ChangedRefs(r, v)' = ChangedRefs(r, v)
             /\ \A v \in DOMAIN task'[r] : v \in DOMAIN task[r] \/ task'[r][v] = Queued
  <2>1. Len(task[r]) = Len(history[r]) /\ Len(history[r]) \in Nat /\ DOMAIN task[r] = 1..Len(history[r])
    BY <1>1, LatestVersion DEF IndexingInv, VersionsHold
  <2>2. CASE r \in R
    <3>1. history'[r] = Append(history[r], data[r]) /\ task'[r] = Append(task[r], Queued)
      BY <2>2
    <3>2. \A v \in 1..Len(history[r]) : v \in 1..Len(history'[r]) /\ history'[r][v] = history[r][v]
      BY <1>1, <2>1, <2>2, <3>1
    <3>3. \A v \in DOMAIN task[r] : v \in DOMAIN task'[r] /\ task'[r][v] = task[r][v]
      BY <1>1, <2>1, <3>1, QueuedType
    <3>4. \A v \in DOMAIN task'[r] : v \in DOMAIN task[r] \/ task'[r][v] = Queued
      BY <1>1, <2>1, <3>1, QueuedType
    <3>5. \A v \in DOMAIN task[r] : ChangedRefs(r, v)' = ChangedRefs(r, v)
      BY <1>1, <2>1, <3>2, ChangedStays
    <3> QED BY <3>2, <3>3, <3>4, <3>5
  <2>3. CASE r \notin R
    <3>1. history'[r] = history[r] /\ task'[r] = task[r]
      BY <2>3
    <3>2. \A v \in DOMAIN task[r] : ChangedRefs(r, v)' = ChangedRefs(r, v)
      BY <1>1, <2>1, <3>1, ChangedStays
    <3> QED BY <3>1, <3>2
  <2> QED BY <2>2, <2>3
<1>3. ASSUME NEW r \in Rec, NEW v \in DOMAIN task'[r] PROVE TodoHolds(r, v)'
  <2>1. CASE v \in DOMAIN task[r]
    <3>1. TodoHolds(r, v) /\ task'[r][v] = task[r][v] /\ ChangedRefs(r, v)' = ChangedRefs(r, v)
      BY <1>2, <2>1 DEF CountInv
    <3> QED BY <3>1 DEF TodoHolds
  <2>2. CASE task'[r][v] = Queued
    BY <2>2 DEF TodoHolds, Queued
  <2> QED BY <1>2, <2>1, <2>2
<1>4. ASSUME NEW p \in Paper PROVE CountHolds(p)'
  <2>1. p \in Rec /\ p # NoRec /\ CountHolds(p) /\ doc'[p] = doc[p]
    BY PaperIs DEF CountInv
  <2>2. Latest(p)' = IF p \in R THEN data[p] ELSE Latest(p)
    BY <1>0, <2>1
  <2>3. Latest(p).gone => Latest(p)'.gone
    BY <2>2
  <2>4. \A v \in 1..Len(history'[p]) : history'[p][v].gone => Latest(p)'.gone
    <3>1. CASE p \in R
      <4>1. history'[p] = Append(history[p], data[p]) /\ Latest(p)' = data[p] /\ Len(history[p]) \in Nat
        BY <2>1, <2>2, <3>1, <1>1
      <4>2. ASSUME NEW v \in 1..Len(history'[p]), history'[p][v].gone PROVE Latest(p)'.gone
        <5>1. CASE v \in 1..Len(history[p])
          <6>1. history[p][v].gone
            BY <1>2, <2>1, <4>2, <5>1
          <6> QED BY <2>1, <2>3, <5>1, <6>1 DEF CountHolds
        <5>2. CASE v \notin 1..Len(history[p])
          <6>1. history[p] \in Seq(Data)
            BY <1>1, <2>1
          <6>2. v = Len(history[p]) + 1
            BY <4>1, <4>2, <5>2, <6>1
          <6>3. history'[p][v] = data[p]
            BY <4>1, <6>1, <6>2
          <6> QED BY <4>1, <4>2, <6>3
        <5> QED BY <5>1, <5>2
      <4> QED BY <4>2
    <3>2. CASE p \notin R
      BY <2>1, <2>2, <3>2 DEF CountHolds
    <3> QED BY <3>1, <3>2
  <2>5. ASSUME ~Latest(p)'.gone, ~Spoilt(Reason, p)'
        PROVE  Alone(p)' /\ Held(p)' /\ CountShown(p)'
    <3>1. Alone(p) /\ Held(p) /\ CountShown(p)
      BY <2>1, <2>3, <2>5, SpoiltStays DEF CountHolds, OnlyUnnoticed
    <3>2. Due(p) => Due(p)'
      <4>1. SUFFICES ASSUME NEW r \in Rec, NEW v \in DOMAIN task[r], Promises(r, v, p)
                     PROVE  v \in DOMAIN task'[r] /\ Promises(r, v, p)'
        BY DEF Due
      <4> QED BY <1>2, <4>1 DEF Promises
    <3>3. Count(p)' = Count(p) \/ Due(p)'
      <4>1. CASE \A c \in Citer : Cites(c, p)' <=> Cites(c, p)
        BY <4>1, SameCount
      <4>2. ASSUME NEW c \in Citer, ~(Cites(c, p)' <=> Cites(c, p)) PROVE Due(p)'
        <5>1. c \in Rec
          BY DEF Rec
        <5>2. c \in R
          BY <4>2, <5>1 DEF Cites, Latest
        <5>3. PICK n : n = Len(history[c]) + 1
          OBVIOUS
        <5>4. data[c] \in Data /\ c \notin erased /\ c \notin erased' /\ history'[c] = Append(history[c], data[c])
          BY <5>1, <5>2
        <5>5. p \notin Overlooked(Latest(c), data[c])
          BY <2>5, <5>2 DEF Spoilt, Reason
        <5>6. p \in ChangedRefs(c, n)'
          BY <1>1, <4>2, <5>3, <5>4, <5>5, CitesChanges
        <5>7. n \in DOMAIN task'[c] /\ task'[c][n] = Queued
          <6>1. task'[c] = Append(task[c], Queued) /\ task[c] \in Seq(Task) /\ Len(task[c]) = Len(history[c])
            BY <1>1, <5>1, <5>2 DEF IndexingInv, VersionsHold
          <6> QED BY <5>3, <6>1, QueuedType
        <5> QED BY <5>1, <5>6, <5>7, QueuedType DEF Due, Promises
      <4> QED BY <4>1, <4>2
    <3>4. \A r \in Rec : \A v \in DOMAIN task'[r] :
            task'[r][v].on = p => v \in DOMAIN task[r] /\ task'[r][v] = task[r][v]
      BY <1>2, <2>1 DEF Queued
    <3>5. Alone(p)'
      <4> SUFFICES ASSUME NEW r \in Rec, NEW o \in Rec, NEW v \in DOMAIN task'[r], NEW n \in DOMAIN task'[o],
                          task'[r][v].on = p, task'[o][n].on = p
                   PROVE  r = o /\ v = n
        BY DEF Alone
      <4>1. v \in DOMAIN task[r] /\ task[r][v].on = p
        BY <3>4
      <4>2. n \in DOMAIN task[o] /\ task[o][n].on = p
        BY <3>4
      <4> HIDE DEF Commits
      <4> QED BY <3>1, <4>1, <4>2 DEF Alone
    <3>6. Held(p)'
      BY <2>1, <3>1, <3>2, <3>3, <3>4 DEF Held
    <3>7. CountShown(p)'
      BY <1>2, <2>1, <3>1, <3>2, <3>3 DEF CountShown
    <3> QED BY <3>5, <3>6, <3>7
  <2> QED BY <2>4, <2>5 DEF CountHolds
<1> QED BY <1>3, <1>4 DEF CountInv

-----------------------------------------------------------------------------
(* Index tasks                                                             *)

\* One task takes a step t, which may write what it has read, or read.
CountStep(r, v, t, p) ==
  /\ Promises(r, v, p) => Promises(r, v, p)' \/ (t.at = "bulk" /\ t.on = p)
  /\ t.on = p => /\ task[r][v].on # p /\ t.count = Count(p) /\ doc'[p] = doc[p]
                 /\ t.at = "bulk" => t.version >= doc[p].version
                 /\ \A o \in Rec : \A n \in DOMAIN task[o] : o # r \/ n # v => task[o][n].on # p
  /\ \/ doc'[p] = doc[p] /\ (task[r][v].at = "bulk" /\ task[r][v].on = p => Promises(r, v, p)')
     \/ doc'[p].count = task[r][v].count /\ task[r][v].on = p

\* What a step of one task has to respect for the counts to be kept.
LEMMA CountStepHolds ==
  ASSUME CountInv, IndexingInv', NEW r \in Rec, NEW v \in DOMAIN task[r], NEW t \in Task,
         task' = [task EXCEPT ![r][v] = t], UNCHANGED recVars, spoilt \subseteq spoilt',
         TodoHolds(r, v)',
         \A p \in Paper : ~Latest(p).gone /\ ~Spoilt(Reason, p)' => CountStep(r, v, t, p)
  PROVE  CountInv'
<1>1. /\ task'[r][v] = t /\ UNCHANGED <<history, erased>>
      /\ \A o \in Rec : DOMAIN task'[o] = DOMAIN task[o]
      /\ \A o \in Rec : \A n \in DOMAIN task[o] : o # r \/ n # v => task'[o][n] = task[o][n]
  BY OneTask DEF CountInv, recVars
<1>2. ASSUME NEW o \in Rec, NEW n \in DOMAIN task'[o] PROVE TodoHolds(o, n)'
  <2>1. CASE o # r \/ n # v
    <3>1. TodoHolds(o, n) /\ task'[o][n] = task[o][n] /\ ChangedRefs(o, n)' = ChangedRefs(o, n)
      BY <1>1, <2>1 DEF CountInv, ChangedRefs
    <3> QED BY <3>1 DEF TodoHolds
  <2> QED BY <2>1
<1>3. ASSUME NEW p \in Paper PROVE CountHolds(p)'
  <2>1. CountHolds(p) /\ Latest(p)' = Latest(p)
    BY <1>1 DEF CountInv, Latest
  <2>2. ASSUME ~Latest(p).gone, ~Spoilt(Reason, p)'
        PROVE  Alone(p)' /\ Held(p)' /\ CountShown(p)'
    <3>1. CountStep(r, v, t, p) /\ ~Spoilt(Reason, p)
      BY <2>2, SpoiltStays
    <3>2. Alone(p) /\ Held(p) /\ CountShown(p)
      BY <2>1, <2>2, <3>1 DEF CountHolds
    <3>3. Count(p)' = Count(p)
      BY <1>1, SameCount DEF Cites, Latest
    <3>4. Due(p) => Due(p)' \/ (t.at = "bulk" /\ t.on = p)
      <4> SUFFICES ASSUME NEW o \in Rec, NEW n \in DOMAIN task[o], Promises(o, n, p), ~(t.at = "bulk" /\ t.on = p)
                   PROVE  Promises(o, n, p)' /\ n \in DOMAIN task'[o]
        BY DEF Due
      <4>1. CASE o = r /\ n = v
        BY <1>1, <3>1, <4>1 DEF CountStep
      <4>2. CASE o # r \/ n # v
        <5>1. task'[o][n] = task[o][n] /\ ChangedRefs(o, n)' = ChangedRefs(o, n)
          BY <1>1, <4>2 DEF ChangedRefs
        <5> QED BY <1>1, <5>1 DEF Promises
      <4> QED BY <4>1, <4>2
    <3>5. CASE t.on = p
      <4>1. \A o \in Rec : \A n \in DOMAIN task'[o] : task'[o][n].on = p => o = r /\ n = v
        BY <1>1, <3>1, <3>5 DEF CountStep
      <4>2. t.count = Count(p) /\ doc'[p] = doc[p] /\ (t.at = "bulk" => t.version >= doc[p].version)
        BY <3>1, <3>5 DEF CountStep
      <4>3. Alone(p)'
        BY <4>1 DEF Alone
      <4>4. Held(p)'
        BY <1>1, <3>3, <4>1, <4>2 DEF Held
      <4>5. CountShown(p)'
        <5>1. CASE t.at = "bulk"
          BY <1>1, <3>5, <5>1 DEF CountShown
        <5>2. CASE t.at # "bulk"
          <6>1. \A o \in Rec : \A n \in DOMAIN task[o] : task[o][n].on # p
            BY <3>1, <3>5 DEF CountStep
          <6> QED BY <3>2, <3>3, <3>4, <4>2, <5>2, <6>1 DEF CountShown
        <5> QED BY <5>1, <5>2
      <4> QED BY <4>3, <4>4, <4>5
    <3>6. CASE t.on # p
      <4>1. Due(p) => Due(p)'
        BY <3>4, <3>6
      <4>2. \A o \in Rec : \A n \in DOMAIN task'[o] :
              task'[o][n].on = p => n \in DOMAIN task[o] /\ (o # r \/ n # v) /\ task'[o][n] = task[o][n]
        BY <1>1, <3>6
      <4>3. Alone(p)'
        <5> SUFFICES ASSUME NEW a \in Rec, NEW o \in Rec, NEW m \in DOMAIN task'[a], NEW n \in DOMAIN task'[o],
                            task'[a][m].on = p, task'[o][n].on = p
                     PROVE  a = o /\ m = n
          BY DEF Alone
        <5>1. m \in DOMAIN task[a] /\ task[a][m].on = p
          BY <4>2
        <5>2. n \in DOMAIN task[o] /\ task[o][n].on = p
          BY <4>2
        <5> QED BY <3>2, <5>1, <5>2 DEF Alone
      <4>4. Held(p)'
        <5> SUFFICES ASSUME NEW o \in Rec, NEW n \in DOMAIN task'[o], task'[o][n].on = p
                     PROVE  /\ task'[o][n].count = Count(p)' \/ Due(p)'
                            /\ task'[o][n].at = "bulk" => task'[o][n].version >= doc'[p].version
          BY DEF Held
        <5>1. n \in DOMAIN task[o] /\ (o # r \/ n # v) /\ task'[o][n] = task[o][n] /\ task[o][n].on = p
          BY <4>2
        <5>2. doc'[p] = doc[p]
          <6>1. task[r][v].on # p
            BY <3>2, <5>1 DEF Alone
          <6> QED BY <3>1, <6>1 DEF CountStep
        <5> QED BY <3>2, <3>3, <4>1, <5>1, <5>2 DEF Held
      <4>5. CountShown(p)'
        <5>1. CASE doc'[p] = doc[p] /\ (task[r][v].at = "bulk" /\ task[r][v].on = p => Promises(r, v, p)')
          <6>1. CASE doc[p].count = Count(p) \/ Due(p)
            BY <3>3, <4>1, <5>1, <6>1 DEF CountShown
          <6>2. ASSUME NEW o \in Rec, NEW n \in DOMAIN task[o], task[o][n].at = "bulk", task[o][n].on = p
                PROVE  CountShown(p)'
            <7>1. CASE o = r /\ n = v
              BY <1>1, <5>1, <6>2, <7>1 DEF CountShown, Due
            <7>2. CASE o # r \/ n # v
              BY <1>1, <6>2, <7>2 DEF CountShown
            <7> QED BY <7>1, <7>2
          <6> QED BY <3>2, <6>1, <6>2 DEF CountShown
        <5>2. CASE doc'[p].count = task[r][v].count /\ task[r][v].on = p
          BY <3>2, <3>3, <4>1, <5>2 DEF Held, CountShown
        <5> QED BY <3>1, <5>1, <5>2 DEF CountStep
      <4> QED BY <4>3, <4>4, <4>5
    <3> QED BY <3>5, <3>6
  <2> QED BY <1>1, <2>1, <2>2 DEF CountHolds
<1> QED BY <1>2, <1>3 DEF CountInv

\* A task that reads holds the count of now, or another task will read later.
LEMMA FetchCounts ==
  ASSUME CountInv, IndexingInv', NEW r \in Rec, NEW v \in DOMAIN task[r], NEW at, NEW rec \in Rec,
         NEW n \in 1..Len(history[rec]), Fetch(r, v, at, rec, n),
         \/ at = "own" /\ task[r][v].at = "queued"
         \/ /\ at = "bulk" /\ task[r][v].at = "batch" /\ rec \in task[r][v].todo
            /\ n = Len(history[rec]) /\ rec \in Paper
  PROVE  CountInv'
<1>1. PICK old \in Task : old = task[r][v]
  BY LatestVersion DEF CountInv
<1>2. PICK t : t = [old EXCEPT !.at = at, !.on = rec, !.version = n, !.count = Count(rec)]
  OBVIOUS
<1>3. n \in Nat /\ Count(rec) \in Nat
  BY LatestVersion, CountIsNat DEF CountInv
<1>4. t \in Task /\ t.at = at /\ t.on = rec /\ t.version = n /\ t.count = Count(rec) /\ t.todo = old.todo
  BY <1>1, <1>2, <1>3 DEF Task
<1>5. task' = [task EXCEPT ![r][v] = t] /\ UNCHANGED <<recVars, doc>>
  BY <1>1, <1>2 DEF Fetch, CountInv, IndexingInv, IndexingTypeOK
<1>6. /\ spoilt \subseteq spoilt'
      /\ Crossing(r, v, rec) => <<"crossed", rec>> \in spoilt'
  BY DEF Fetch, Blame
<1>7. task'[r][v] = t /\ UNCHANGED history
  BY <1>5, OneTask, <1>4 DEF CountInv, recVars
<1>8. TodoHolds(r, v) /\ ChangedRefs(r, v)' = ChangedRefs(r, v)
  BY <1>7 DEF CountInv, ChangedRefs
<1>9. TodoHolds(r, v)'
  BY <1>1, <1>4, <1>7, <1>8 DEF TodoHolds
<1>10. ASSUME NEW p \in Paper, ~Spoilt(Reason, p)' PROVE CountStep(r, v, t, p)
  <2>1. Promises(r, v, p) => Promises(r, v, p)' \/ (t.at = "bulk" /\ t.on = p)
    BY <1>1, <1>4, <1>7, <1>8 DEF Promises
  <2>2. ASSUME t.on = p
        PROVE  /\ task[r][v].on # p
               /\ t.at = "bulk" => t.version >= doc[p].version
               /\ \A o \in Rec : \A m \in DOMAIN task[o] : o # r \/ m # v => task[o][m].on # p
    <3>1. task[r][v].on # p
      BY <1>1, <1>8, PaperIs DEF TodoHolds
    <3>2. ~Crossing(r, v, p)
      BY <1>4, <1>6, <1>10, <2>2 DEF Spoilt, Reason
    <3>3. t.at = "bulk" => t.version >= doc[p].version
      <4>1. ~Excused(p) /\ p \notin erasing \cup erased
        <5>1. ~Spoilt(Reason, p)
          BY <1>6, <1>10, SpoiltStays
        <5>2. p \notin erasing \cup erased
          BY PaperIs DEF CountInv, IndexingInv, IndexingTypeOK
        <5> QED BY <5>1, <5>2 DEF Excused, Spoilt, Reason
      <4>2. doc[p].version \in 1..Len(history[p])
        BY <4>1, PaperIs DEF CountInv, IndexingInv, DocHolds
      <4> QED BY <1>3, <1>4, <2>2, <4>2
    <3> QED BY <3>1, <3>2, <3>3 DEF Crossing
  <2>3. doc'[p] = doc[p] /\ (t.on = p => t.count = Count(p))
    BY <1>4, <1>5
  <2>4. ~(task[r][v].at = "bulk" /\ task[r][v].on = p)
    BY <1>1
  <2> QED BY <2>1, <2>2, <2>3, <2>4 DEF CountStep
<1> QED BY <1>4, <1>5, <1>6, <1>9, <1>10, CountStepHolds

\* So the reads of a task keep the counts.
LEMMA ReadsCount ==
  ASSUME CountInv, IndexingInv', NEW r \in Rec, NEW v \in DOMAIN task[r],
         ReadOwn(r, v) \/ \E p \in Paper : BulkRead(r, v, p)
  PROVE  CountInv'
<1>1. CASE ReadOwn(r, v)
  <2>1. v \in 1..Len(history[r])
    BY LatestVersion DEF CountInv
  <2> QED BY <1>1, <2>1, FetchCounts DEF ReadOwn
<1>2. ASSUME NEW p \in Paper, BulkRead(r, v, p) PROVE CountInv'
  <2>1. p \in Rec
    BY PaperIs
  <2>2. Len(history[p]) \in 1..Len(history[p])
    BY <2>1, LatestVersion DEF CountInv
  <2> QED BY <1>2, <2>1, <2>2, FetchCounts DEF BulkRead
<1> QED BY <1>1, <1>2

\* A paper that is not deleted has no deleted version: what is written of it is
\* a document with the count that was read.
LEMMA PutCounts ==
  ASSUME CountInv, NEW p \in Paper, ~Latest(p).gone, NEW n \in 1..Len(history[p]), NEW k
  PROVE  Put(p, n, k).count = k
BY DEF CountInv, CountHolds, Put

\* So does the write of its own record.
LEMMA WriteOwnCounts ==
  ASSUME CountInv, IndexingInv', NEW r \in Rec, NEW v \in DOMAIN task[r], WriteOwn(r, v)
  PROVE  CountInv'
<1>1. PICK old \in Task : old = task[r][v] /\ old.at = "own" /\ old.on = r
  BY LatestVersion DEF CountInv, IndexingInv, TaskHolds, WriteOwn
<1>2. PICK batch, lost :
        /\ batch = [Queued EXCEPT !.at = "batch", !.todo = ChangedRefs(r, v)]
        /\ lost = [Queued EXCEPT !.at = "lost"]
  OBVIOUS
<1>3. /\ batch \in Task /\ batch.at = "batch" /\ batch.todo = ChangedRefs(r, v) /\ batch.on = NoRec
      /\ lost \in Task /\ lost.at = "lost" /\ lost.on = NoRec
      /\ Queued \in Task /\ Queued.at = "queued" /\ Queued.on = NoRec
  <2>1. ChangedRefs(r, v) \subseteq Paper
    BY ChangedType DEF CountInv
  <2> QED BY <1>2, <2>1 DEF Queued, Task
<1>4. PICK t \in {batch, Queued, lost} :
        /\ task' = [task EXCEPT ![r][v] = t]
        /\ t = lost => \A p \in ChangedRefs(r, v) : <<"conflict", p>> \in spoilt'
  <2>1. \/ task' = [task EXCEPT ![r][v] = batch]
        \/ task' = [task EXCEPT ![r][v] = Queued]
        \/ task' = [task EXCEPT ![r][v] = lost] /\ spoilt' = spoilt \cup Blame("conflict", ChangedRefs(r, v))
    BY <1>2 DEF WriteOwn
  <2>2. batch # lost /\ Queued # lost
    BY <1>3
  <2> QED BY <2>1, <2>2 DEF Blame
<1>5. t \in Task /\ t.on = NoRec /\ (t = lost \/ t.at = "queued" \/ (t.at = "batch" /\ t.todo = ChangedRefs(r, v)))
  BY <1>3, <1>4
<1>6. UNCHANGED recVars /\ spoilt \subseteq spoilt'
  BY DEF WriteOwn
<1>7. task'[r][v] = t /\ ChangedRefs(r, v)' = ChangedRefs(r, v)
  BY <1>4, <1>5, <1>6, OneTask DEF CountInv, recVars, ChangedRefs
<1>8. TodoHolds(r, v)'
  BY <1>3, <1>5, <1>7 DEF TodoHolds
<1>9. ASSUME NEW p \in Paper, ~Latest(p).gone, ~Spoilt(Reason, p)' PROVE CountStep(r, v, t, p)
  <2>1. Promises(r, v, p) => Promises(r, v, p)'
    <3>1. p \in ChangedRefs(r, v) => t # lost
      BY <1>4, <1>9 DEF Spoilt, Reason
    <3> QED BY <1>1, <1>5, <1>7, <3>1 DEF Promises
  <2>2. t.on # p
    BY <1>5, PaperIs
  <2>3. doc'[p] = doc[p] \/ (doc'[p].count = task[r][v].count /\ task[r][v].on = p)
    <3>1. CASE p # r
      BY <3>1, PaperIs DEF WriteOwn, CountInv, IndexingInv, IndexingTypeOK
    <3>2. CASE p = r
      <4>1. v \in 1..Len(history[p])
        BY <3>2, LatestVersion DEF CountInv
      <4>2. Put(p, v, old.count).count = old.count
        BY <1>9, <4>1, PutCounts
      <4>3. doc'[p] = IF Accepts(r, v) THEN Put(p, v, old.count) ELSE doc[p]
        BY <1>1, <3>2 DEF WriteOwn, CountInv, IndexingInv, IndexingTypeOK
      <4> QED BY <1>1, <3>2, <4>2, <4>3
    <3> QED BY <3>1, <3>2
  <2> QED BY <1>1, <2>1, <2>2, <2>3 DEF CountStep
<1> QED BY <1>4, <1>5, <1>6, <1>8, <1>9, CountStepHolds

\* So does a write of its batch.
LEMMA BulkWriteCounts ==
  ASSUME CountInv, IndexingInv', NEW r \in Rec, NEW v \in DOMAIN task[r], BulkWrite(r, v)
  PROVE  CountInv'
<1>1. PICK old \in Task : old = task[r][v] /\ old.at = "bulk"
  BY LatestVersion DEF CountInv, BulkWrite
<1>2. old.on \in Paper /\ old.version \in 1..Len(history[old.on])
  BY <1>1 DEF TaskHolds, CountInv, IndexingInv
<1>3. PICK t : t = [Queued EXCEPT !.at = "batch", !.todo = old.todo \ {old.on}]
  OBVIOUS
<1>4. t \in Task /\ t.at = "batch" /\ t.on = NoRec /\ t.todo = old.todo \ {old.on}
  BY <1>3 DEF Queued, Task
<1>5. task' = [task EXCEPT ![r][v] = t] /\ UNCHANGED <<recVars, spoilt>>
  BY <1>1, <1>3 DEF BulkWrite
<1>6. task'[r][v] = t /\ ChangedRefs(r, v)' = ChangedRefs(r, v)
  <2>1. task'[r][v] = t
    BY <1>4, <1>5, OneTask DEF CountInv
  <2>2. UNCHANGED history
    BY <1>5 DEF recVars
  <2> QED BY <2>1, <2>2 DEF ChangedRefs
<1>7. TodoHolds(r, v)'
  BY <1>1, <1>4, <1>6 DEF TodoHolds, CountInv
<1>8. ASSUME NEW p \in Paper, ~Latest(p).gone, ~Spoilt(Reason, p)' PROVE CountStep(r, v, t, p)
  <2>1. Promises(r, v, p) => Promises(r, v, p)'
    BY <1>1, <1>4, <1>6 DEF Promises
  <2>2. t.on # p /\ p \in Rec
    BY <1>4, PaperIs
  <2>3. CASE p # old.on
    <3>1. doc'[p] = doc[p]
      BY <1>1, <2>2, <2>3 DEF BulkWrite, CountInv, IndexingInv, IndexingTypeOK
    <3> QED BY <1>1, <2>1, <2>2, <2>3, <3>1 DEF CountStep
  <2>4. CASE p = old.on
    <3>1. ~Spoilt(Reason, p)
      BY <1>5, <1>8 DEF Spoilt
    <3>2. old.version >= doc[p].version
      BY <1>1, <1>8, <2>4, <3>1 DEF CountInv, CountHolds, Held
    <3>3. doc'[p] = IF Accepts(p, old.version) THEN Put(p, old.version, old.count) ELSE doc[p]
      BY <1>1, <2>2, <2>4 DEF BulkWrite, CountInv, IndexingInv, IndexingTypeOK
    <3>4. Put(p, old.version, old.count).count = old.count
      BY <1>2, <1>8, <2>4, PutCounts
    <3> QED BY <1>1, <2>1, <2>2, <2>4, <3>2, <3>3, <3>4 DEF CountStep, Accepts
  <2> QED BY <2>3, <2>4
<1> QED BY <1>4, <1>5, <1>7, <1>8, CountStepHolds

\* A retry begins the batch again and a task given up is spoilt.
LEMMA FailuresCount ==
  ASSUME CountInv, IndexingInv', NEW r \in Rec, NEW v \in DOMAIN task[r], Retry(r, v) \/ GiveUp(r, v)
  PROVE  CountInv'
<1>1. PICK old \in Task : old = task[r][v]
  BY LatestVersion DEF CountInv
<1>2. PICK lost : lost = [Queued EXCEPT !.at = "lost"]
  OBVIOUS
<1>3. /\ lost \in Task /\ lost.at = "lost" /\ lost.on = NoRec
      /\ Queued \in Task /\ Queued.at = "queued" /\ Queued.on = NoRec
  BY <1>2 DEF Queued, Task
<1>4. PICK t \in {Queued, lost} :
        /\ task' = [task EXCEPT ![r][v] = t]
        /\ t = lost => \A p \in ChangedRefs(r, v) : <<"outage", p>> \in spoilt'
  <2>1. \/ task' = [task EXCEPT ![r][v] = Queued]
        \/ task' = [task EXCEPT ![r][v] = lost] /\ spoilt' = spoilt \cup Blame("outage", {r} \cup ChangedRefs(r, v))
    BY <1>2 DEF Retry, GiveUp
  <2>2. Queued # lost
    BY <1>3
  <2> QED BY <2>1, <2>2 DEF Blame
<1>5. t \in Task /\ t.on = NoRec /\ (t = lost \/ t.at = "queued")
  BY <1>3, <1>4
<1>6. UNCHANGED <<recVars, doc>> /\ spoilt \subseteq spoilt'
  BY DEF Retry, GiveUp
<1>7. task'[r][v] = t /\ ChangedRefs(r, v)' = ChangedRefs(r, v)
  BY <1>4, <1>5, <1>6, OneTask DEF CountInv, recVars, ChangedRefs
<1>8. TodoHolds(r, v) /\ TodoHolds(r, v)'
  BY <1>3, <1>5, <1>7 DEF TodoHolds, CountInv
<1>9. ASSUME NEW p \in Paper, ~Latest(p).gone, ~Spoilt(Reason, p)' PROVE CountStep(r, v, t, p)
  <2>1. p \in ChangedRefs(r, v) => Promises(r, v, p)'
    <3>1. p \in ChangedRefs(r, v) => t # lost
      BY <1>4, <1>9 DEF Spoilt, Reason
    <3> QED BY <1>5, <1>7, <3>1 DEF Promises
  <2>2. Promises(r, v, p) \/ (task[r][v].at = "bulk" /\ task[r][v].on = p) => p \in ChangedRefs(r, v)
    BY <1>8 DEF Promises, TodoHolds
  <2>3. t.on # p /\ doc'[p] = doc[p]
    BY <1>5, <1>6, PaperIs
  <2> QED BY <2>1, <2>2, <2>3 DEF CountStep
<1> QED BY <1>4, <1>5, <1>6, <1>8, <1>9, CountStepHolds

-----------------------------------------------------------------------------
(* The count follows                                                       *)

LEMMA CountsStart == IndexingInit => CountInv
<1> SUFFICES ASSUME IndexingInit PROVE CountInv
  OBVIOUS
<1>1. PICK refs \in [Citer -> SUBSET Paper] :
        /\ history = [r \in Rec |-> <<[refs |-> IF r \in Citer THEN refs[r] ELSE {}, gone |-> FALSE, into |-> NoRec,
                                  successor |-> "none", listed |-> TRUE]>>]
        /\ doc = [r \in Rec |-> [live |-> TRUE, version |-> 1, refs |-> IF r \in Citer THEN refs[r] ELSE {},
                                 count |-> Cardinality({c \in Citer : r \in refs[c]})]]
        /\ erased = {} /\ task = [r \in Rec |-> <<[Queued EXCEPT !.at = "batch"]>>]
  BY DEF IndexingInit
<1>2. PICK t : t = [Queued EXCEPT !.at = "batch"]
  OBVIOUS
<1>3. t.at = "batch" /\ t.todo = {} /\ t.on = NoRec
  BY <1>2 DEF Queued
<1>4. \A r \in Rec : DOMAIN task[r] = {1} /\ task[r][1] = t
  BY <1>1, <1>2
<1>5. \A r \in Rec : \A v \in DOMAIN task[r] : TodoHolds(r, v)
  BY <1>3, <1>4 DEF TodoHolds
<1>6. \A r \in Rec : /\ Len(history[r]) = 1 /\ ~history[r][1].gone
                     /\ history[r][1].successor = "none" /\ history[r][1].listed
                     /\ r \in Citer => history[r][1].refs = refs[r]
  BY <1>1
<1>7. ASSUME NEW p \in Paper PROVE CountHolds(p)
  <2>1. p \in Rec /\ p # NoRec
    BY PaperIs
  <2>2. \A v \in 1..Len(history[p]) : ~history[p][v].gone
    BY <1>6, <2>1
  <2>3. \A c \in Citer : Cites(c, p) <=> p \in refs[c]
    BY <1>1, <1>6 DEF Cites, Eligible, Latest, Rec
  <2>4. {c \in Citer : Cites(c, p)} = {c \in Citer : p \in refs[c]}
    BY <2>3
  <2>5. doc[p].count = Count(p)
    BY <1>1, <2>1, <2>4 DEF Count
  <2>6. \A r \in Rec : \A v \in DOMAIN task[r] : task[r][v].on # p
    BY <1>3, <1>4, <2>1
  <2> QED BY <2>2, <2>5, <2>6 DEF CountHolds, Alone, Held, CountShown
<1> QED BY <1>5, <1>7, IndexingInitInv DEF CountInv

\* Edits, deletions and redirected references keep the counts.
LEMMA SavesCount ==
  ASSUME CountInv, IndexingInv', NEW r \in Rec, NEW d \in Data, CanSave(r), Committed(r, d),
         Latest(r).gone => d.gone, UNCHANGED <<erasing, erased, removing, doc>>, OnlyUnnoticed,
         r \in Citer => \A p \in Overlooked(Latest(r), d) : <<"unnoticed", p>> \in spoilt'
  PROVE  CountInv'
<1>1. PICK R, data : R = {r} /\ data = [o \in Rec |-> d]
  OBVIOUS
<1>2. Commits(R, data)
  BY <1>1, QueuedType DEF Commits, CanSave, Committed, CountInv, IndexingInv, IndexingTypeOK
<1>3. \A p \in Paper \cap R : Latest(p).gone => data[p].gone
  BY <1>1
<1>4. \A c \in Citer \cap R : \A p \in Overlooked(Latest(c), data[c]) : <<"unnoticed", p>> \in spoilt'
  BY <1>1
<1> QED BY <1>2, <1>3, <1>4, CommitsCount

\* So does a merge.
LEMMA MergesCount ==
  ASSUME CountInv, IndexingInv', NEW p \in Paper, NEW q \in Paper, Merge(p, q)
  PROVE  CountInv'
<1>1. p \in Rec /\ q \in Rec /\ p # q
  BY DEF Rec, Merge
<1>2. PICK merged : merged = [Latest(p) EXCEPT !.gone = TRUE, !.into = q]
  OBVIOUS
<1>3. merged \in Data /\ merged.gone /\ Latest(q) \in Data
  BY <1>1, <1>2, LatestVersion DEF Data, CountInv
<1>4. PICK R, data :
        R = {p, q} /\ data = [r \in Rec |-> IF r = p THEN merged ELSE Latest(r)]
  OBVIOUS
<1>5. R \subseteq Rec \ erased /\ data \in [Rec -> Data] /\ IndexingInv
  BY <1>1, <1>3, <1>4, LatestVersion DEF Merge, CanSave, CountInv
<1>6. PICK hp, hq, tp, tq :
        /\ hp = Append(history[p], merged) /\ hq = Append(history[q], Latest(q))
        /\ tp = Append(task[p], Queued) /\ tq = Append(task[q], Queued)
  OBVIOUS
<1>7. /\ history \in [Rec -> Seq(Data)] /\ task \in [Rec -> Seq(Task)]
      /\ history' \in [Rec -> Seq(Data)] /\ task' \in [Rec -> Seq(Task)]
  BY DEF CountInv, IndexingInv, IndexingTypeOK
<1>8. history' = [history EXCEPT ![p] = hp, ![q] = hq] /\ task' = [task EXCEPT ![p] = tp, ![q] = tq]
  BY <1>1, <1>2, <1>6, <1>7 DEF Merge
<1>9. /\ history'[p] = hp /\ history'[q] = hq /\ task'[p] = tp /\ task'[q] = tq
      /\ \A r \in Rec : r \notin {p, q} => history'[r] = history[r] /\ task'[r] = task[r]
  BY <1>1, <1>7, <1>8
<1>10. \A r \in Rec :
         /\ history'[r] = IF r \in R THEN Append(history[r], data[r]) ELSE history[r]
         /\ task'[r] = IF r \in R THEN Append(task[r], Queued) ELSE task[r]
  BY <1>1, <1>4, <1>6, <1>9
<1>11. Commits(R, data)
  BY <1>5, <1>7, <1>10 DEF Commits, Merge, OnlyUnnoticed
<1>12. \A o \in Paper \cap R : Latest(o).gone => data[o].gone
  BY <1>1, <1>3, <1>4
<1>13. Citer \cap R = {}
  BY <1>4, RecAssumption
<1> QED BY <1>11, <1>12, <1>13, CommitsCount

\* What is erased takes its citations with it, and does not tell.
LEMMA ErasingCounts ==
  ASSUME CountInv, IndexingInv', NEW c \in Citer, Erase(c) \/ EraseCommit(c) \/ EraseRollback(c) \/ RemoveErased(c)
  PROVE  CountInv'
<1>1. UNCHANGED <<history, task>> /\ spoilt \subseteq spoilt'
  BY DEF Erase, EraseCommit, EraseRollback, RemoveErased
<1>2. ASSUME NEW p \in Paper
      PROVE  \/ Spoilt(Reason, p)'
             \/ doc'[p] = doc[p] /\ \A o \in Citer : Cites(o, p)' <=> Cites(o, p)
  <2>1. doc'[p] = doc[p]
    BY PaperIs DEF Erase, EraseCommit, EraseRollback, RemoveErased, CountInv, IndexingInv, IndexingTypeOK
  <2>2. CASE EraseCommit(c)
    <3>1. CASE p \in Latest(c).refs
      BY <2>2, <3>1 DEF EraseCommit, Blame, Spoilt, Reason
    <3>2. CASE p \notin Latest(c).refs
      <4> SUFFICES ASSUME NEW o \in Citer PROVE Cites(o, p)' <=> Cites(o, p)
        BY <2>1
      <4>1. Latest(o)' = Latest(o) /\ (o # c => (o \in erased' <=> o \in erased))
        BY <1>1, <2>2 DEF Latest, EraseCommit
      <4> QED BY <3>2, <4>1 DEF Cites
    <3> QED BY <3>1, <3>2
  <2>3. CASE UNCHANGED erased
    BY <1>1, <2>1, <2>3 DEF Cites, Latest
  <2> QED BY <2>2, <2>3 DEF Erase, EraseRollback, RemoveErased
<1> QED BY <1>1, <1>2, RestCounts

\* So does what touches neither versions nor tasks nor the index.
LEMMA RestsCount ==
  ASSUME CountInv, IndexingInv', UNCHANGED <<recVars, doc, task, spoilt>>
  PROVE  CountInv'
<1>1. UNCHANGED <<history, erased>>
  BY DEF recVars
<1>2. \A p \in Paper : doc'[p] = doc[p] /\ \A c \in Citer : Cites(c, p)' <=> Cites(c, p)
  BY <1>1 DEF Cites, Latest
<1> QED BY <1>1, <1>2, RestCounts

\* Forgetting a tombstone concerns a record that is gone.
LEMMA ForgetCounts ==
  ASSUME CountInv, IndexingInv', NEW r \in Rec, Forget(r)
  PROVE  CountInv'
<1>1. UNCHANGED <<history, erased, task>> /\ spoilt' = spoilt \cup {<<"forgotten", r>>}
  BY DEF Forget, recVars, Blame
<1>2. ASSUME NEW p \in Paper
      PROVE  \/ Spoilt(Reason, p)'
             \/ doc'[p] = doc[p] /\ \A c \in Citer : Cites(c, p)' <=> Cites(c, p)
  <2>1. CASE p = r
    BY <1>1, <2>1 DEF Spoilt, Reason
  <2>2. CASE p # r
    <3>1. doc'[p] = doc[p]
      BY <2>2, PaperIs DEF Forget, CountInv, IndexingInv, IndexingTypeOK
    <3> QED BY <1>1, <3>1 DEF Cites, Latest
  <2> QED BY <2>1, <2>2
<1> QED BY <1>1, <1>2, RestCounts

\* Every step keeps a count right or on its way.
LEMMA CountsStep == CountInv /\ [IndexingNext]_indexingVars => CountInv'
<1> SUFFICES ASSUME CountInv, [IndexingNext]_indexingVars PROVE CountInv'
  OBVIOUS
<1>0. IndexingInv /\ IndexingInv'
  BY IndexingStepInv DEF CountInv
<1>1. CASE UNCHANGED indexingVars
  BY <1>0, <1>1, RestsCount DEF indexingVars, recVars
<1>2. ASSUME NEW r \in Rec, Save(r) PROVE CountInv'
  <2>1. PICK d \in Data :
          /\ Committed(r, d) /\ d.gone = Latest(r).gone
          /\ r \in Citer => \A p \in Overlooked(Latest(r), d) : <<"unnoticed", p>> \in spoilt'
    BY <1>0, <1>2, SavedData
  <2>2. OnlyUnnoticed
    BY <1>0, <1>2, SavedData
  <2>3. CanSave(r) /\ UNCHANGED <<erasing, erased, removing, doc>>
    BY <1>2 DEF Save
  <2> QED BY <1>0, <2>1, <2>2, <2>3, SavesCount
<1>3. ASSUME NEW r \in Rec, DeleteRecord(r) PROVE CountInv'
  <2>1. PICK d : d = [Latest(r) EXCEPT !.gone = TRUE]
    OBVIOUS
  <2>2. d \in Data /\ d.gone /\ Overlooked(Latest(r), d) = {}
    BY <1>0, <2>1, LatestVersion, NothingOverlooked DEF Data
  <2>3. CanSave(r) /\ Committed(r, d) /\ UNCHANGED <<erasing, erased, removing, doc>> /\ OnlyUnnoticed
    BY <1>3, <2>1 DEF DeleteRecord, OnlyUnnoticed
  <2> QED BY <1>0, <2>2, <2>3, SavesCount
<1>4. CASE \E r \in Rec : Forget(r)
  BY <1>0, <1>4, ForgetCounts
<1>5. CASE \E p, q \in Paper : Merge(p, q)
  BY <1>0, <1>5, MergesCount
<1>6. CASE \E c \in Citer : Erase(c) \/ EraseCommit(c) \/ EraseRollback(c) \/ RemoveErased(c)
  BY <1>0, <1>6, ErasingCounts
<1>7. ASSUME NEW r \in Rec, NEW v \in DOMAIN task[r], TaskStep(r, v) \/ Retry(r, v) \/ GiveUp(r, v)
      PROVE  CountInv'
  BY <1>0, <1>7, ReadsCount, WriteOwnCounts, BulkWriteCounts, FailuresCount DEF TaskStep
<1>8. ASSUME NEW p \in Paper, RedirectStore(p) PROVE CountInv'
  <2>1. PICK c, d : c = redirect[p].on /\ d = [Latest(c) EXCEPT !.refs = Redirected(@, p)]
    OBVIOUS
  <2>2. /\ c \in Citer /\ CanSave(c) /\ d \in Data /\ Committed(c, d)
        /\ UNCHANGED <<erasing, erased, removing, doc, spoilt>>
    BY <1>0, <1>8, <2>1, RedirectStoreFacts
  <2>3. c \in Rec
    BY <2>2 DEF Rec
  <2>4. Latest(c) \in Data
    BY <1>0, <2>3, LatestVersion
  <2>5. Latest(c).gone = d.gone /\ d.successor = Latest(c).successor /\ d.listed = Latest(c).listed
    BY <2>1, <2>4 DEF Data
  <2>6. Latest(c).gone = d.gone /\ Overlooked(Latest(c), d) = {}
    BY <2>2, <2>4, <2>5, NothingOverlooked
  <2>7. OnlyUnnoticed
    BY <2>2 DEF OnlyUnnoticed
  <2> QED BY <1>0, <2>2, <2>3, <2>6, <2>7, SavesCount
<1>9. ASSUME NEW p \in Paper, RedirectSearch(p) \/ RedirectDone(p) \/ \E c \in Citer : RedirectLoad(p, c)
      PROVE  CountInv'
  BY <1>0, <1>9, RestsCount DEF RedirectSearch, RedirectDone, RedirectLoad
<1> QED BY <1>1, <1>2, <1>3, <1>4, <1>5, <1>6, <1>7, <1>8, <1>9 DEF IndexingNext, RedirectStep

\* The invariant of the counts: the count in the index is right, or a task is
\* going to read it, or has read it and is going to write it.
THEOREM CountInvHolds == IndexingSpec => []CountInv
BY CountsStart, CountsStep, PTL DEF IndexingSpec

\* No commit of a citing record, and no order of the tasks, leaves a citation
\* count behind (get_modified_references, batch_index): see CountFollows.
THEOREM CountFollowsHolds == IndexingSpec => []CountFollows
<1>1. ASSUME CountInv, NEW p \in Paper, ~Latest(p).gone, ~WillCount(p), ~Spoilt(Reason, p)
      PROVE  doc[p].count = Count(p)
  <2>1. ~Due(p)
    BY <1>1 DEF Due, Promises, WillCount
  <2>2. \A r \in Rec : \A v \in DOMAIN task[r] : task[r][v].on # p
    BY <1>1 DEF WillCount
  <2>3. CountShown(p)
    BY <1>1 DEF CountInv, CountHolds
  <2> QED BY <2>1, <2>2, <2>3 DEF CountShown
<1>2. CountInv => CountFollows
  BY <1>1 DEF CountFollows
<1> QED BY <1>2, CountInvHolds, PTL
=============================================================================
