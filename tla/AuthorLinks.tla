---------------------------- MODULE AuthorLinks ----------------------------
(***************************************************************************)
(* Who wrote a paper: the links from its author entries to author          *)
(* profiles, set by disambiguation tasks, by curators and by the assign    *)
(* tasks of claims, and the command that removes stub profiles without     *)
(* papers.                                                                 *)
(*                                                                         *)
(* Sources, under src/backend/inspirehep/: disambiguation/tasks.py and     *)
(* cli.py, assign/views.py and tasks.py, and records/api/literature.py.    *)
(* One paper; a matched name is any profile that a search may find.        *)
(***************************************************************************)
EXTENDS Naturals, FiniteSets

CONSTANTS
  Sig,           \* author entries of the paper
  Profile,       \* author records
  NoProfile,     \* no author record
  NewStub,       \* in a plan: a stub profile that is to be created
  LinkVersions   \* bound on the versions of the paper

ASSUME LinksAssumption == {NoProfile, NewStub} \cap Profile = {} /\ NoProfile # NewStub

VARIABLES
  paper,         \* the paper in the database
  edit,          \* an update that is not committed yet: a paper, of version 0 if none
  tasks,         \* disambiguation tasks sent: version, all entries without a link?
  job,           \* the task that runs
  profile,       \* the author records
  listed,        \* the profiles that searches find
  claims,        \* assign tasks sent: <<from, to, to a new stub?>>
  clean,         \* the command that removes stubs
  unread, missed, dropped   \* history

linksVars == <<paper, edit, tasks, job, profile, listed, claims, clean, unread, missed, dropped>>
history == <<unread, missed, dropped>>

\* "lit" and "wasLit": in collection Literature, now and in the last version;
\* "changed": entries that differ from the last version in more than the link.
PaperType ==
  [version : Nat, lit : BOOLEAN, wasLit : BOOLEAN, entries : SUBSET Sig,
   changed : SUBSET Sig, link : [Sig -> Profile \cup {NoProfile}], curated : SUBSET Sig]

Blank == [version |-> 0, lit |-> FALSE, wasLit |-> FALSE, entries |-> {},
          changed |-> {}, link |-> [s \in Sig |-> NoProfile], curated |-> {}]

Task == [version : Nat, all : BOOLEAN]
NoJob == [version |-> 0, all |-> FALSE, base |-> 0, plan |-> [s \in Sig |-> NoProfile]]

LinksTypeOK ==
  /\ paper \in PaperType /\ edit \in PaperType
  /\ tasks \subseteq Task
  /\ job \in [version : Nat, all : BOOLEAN, base : Nat,
              plan : [Sig -> Profile \cup {NoProfile, NewStub}]]
  /\ profile \in [Profile -> {"none", "stub", "full", "deleted"}]
  /\ listed \subseteq Profile
  /\ claims \subseteq Profile \X Profile \X BOOLEAN
  /\ clean \in [on : BOOLEAN, first : BOOLEAN, left : SUBSET Profile,
                checked : Profile \cup {NoProfile}]
  /\ unread \in BOOLEAN /\ missed \subseteq Sig /\ dropped \subseteq Nat

LinksInit ==
  /\ paper = Blank /\ edit = Blank
  /\ tasks = {} /\ job = NoJob
  /\ profile \in [Profile -> {"none", "stub"}]
  /\ listed = {p \in Profile : profile[p] = "stub"}
  /\ claims = {}
  /\ clean = [on |-> FALSE, first |-> FALSE, left |-> {}, checked |-> NoProfile]
  /\ unread = FALSE /\ missed = {} /\ dropped = {}

\* The search index catches up with the author records.
ListProfiles ==
  /\ listed' = {p \in Profile : profile[p] \in {"stub", "full"}}
  /\ UNCHANGED <<paper, edit, tasks, job, profile, claims, clean, history>>

-----------------------------------------------------------------------------
(* Updates                                                                 *)

\* Entries a task has to look at, if its version is the latest.
Due(p) ==
  CASE p.lit /\ p.wasLit  -> p.changed
    [] p.lit # p.wasLit   -> p.entries
    [] OTHER              -> {}

Another(p) == [p EXCEPT !.version = @ + 1, !.wasLit = p.lit, !.changed = {}]

\* History: "unread" if the changes of the last version have not been seen to,
\* "missed" the entries whose changes were followed by others before that,
\* "dropped" the versions whose task was given up before another was committed.
Overtake(new) ==
  /\ unread' = TRUE
  /\ missed' = (missed \cup IF unread THEN Due(paper) ELSE {}) \ Due(new)

\* LiteratureRecord.update sends the task, and commits later.
Update(new) ==
  /\ edit = Blank
  /\ paper.version < LinkVersions
  /\ edit' = new
  /\ tasks' = tasks \cup {[version |-> new.version, all |-> FALSE]}
  /\ dropped' = dropped \ {new.version}

\* Another update or task has committed since an update was begun.
CommitEdit ==
  /\ edit # Blank /\ edit.version = paper.version + 1
  /\ paper' = edit /\ edit' = Blank
  /\ Overtake(edit)
  /\ UNCHANGED <<tasks, job, profile, listed, claims, clean, dropped>>

RollbackEdit ==
  /\ edit # Blank
  /\ edit' = Blank
  /\ UNCHANGED <<paper, tasks, job, profile, listed, claims, clean, history>>

EditPaper ==
  /\ \/ /\ paper.version = 0
        /\ \E entries \in SUBSET Sig :
             Update([Another(paper) EXCEPT !.lit = TRUE, !.entries = entries, !.changed = entries])
     \/ /\ paper.version # 0
        /\ \/ Update([Another(paper) EXCEPT !.lit = ~@])
           \/ \E s \in Sig :
                Update([Another(paper) EXCEPT !.entries = @ \cup {s}, !.changed = {s}])
           \/ \E s \in paper.entries, p \in Profile :
                /\ paper.lit /\ profile[p] \in {"stub", "full"}
                /\ Update([Another(paper) EXCEPT !.link[s] = p, !.curated = @ \cup {s},
                                                 !.changed = {s} \ paper.curated])
  /\ UNCHANGED <<paper, job, profile, listed, claims, clean, unread, missed>>

-----------------------------------------------------------------------------
(* The disambiguation task                                                 *)

\* The command that disambiguates every entry that has no link.
SendRepair ==
  /\ paper.version \in 1..LinkVersions
  /\ tasks' = tasks \cup {[version |-> paper.version, all |-> TRUE]}
  /\ UNCHANGED <<paper, edit, job, profile, listed, claims, clean, history>>

\* Otherwise it is retried.
AnyVersionRead(t) == TRUE                    \* mutant: no version check
Readable(t) == paper.version >= t.version

\* What the task finds for an entry: a profile, several, or none.
Found(s) ==
  listed \cup (IF paper.link[s] = NoProfile THEN {NewStub} ELSE {NoProfile})

Eligible(t) ==
  (IF paper.lit /\ paper.wasLit /\ t.all THEN {s \in paper.entries : paper.link[s] = NoProfile}
   ELSE IF paper.lit THEN Due(paper) ELSE {}) \ paper.curated

ReadPaper(t) ==
  /\ job = NoJob
  /\ t \in tasks /\ Readable(t)
  /\ \E plan \in [Eligible(t) -> listed \cup {NoProfile, NewStub}] :
       /\ \A s \in Eligible(t) : plan[s] \in Found(s)
       /\ job' = [version |-> t.version, all |-> t.all, base |-> paper.version,
                  plan |-> [s \in Sig |-> IF s \in Eligible(t) THEN plan[s] ELSE NoProfile]]
  /\ tasks' = tasks \ {t}
  /\ UNCHANGED <<paper, edit, profile, listed, claims, clean, history>>

Hides == ~paper.lit /\ paper.wasLit
Planned == {s \in Sig : job.plan[s] # NoProfile}
Stubs == {s \in Sig : job.plan[s] = NewStub}

\* The commit fails, and the task is retried, if the paper has changed.
AnyBaseRead == TRUE                          \* mutant: no version check on commit
BaseIsPaper == job.base = paper.version

\* The links are written, with the stubs that they need.
CommitLinks ==
  /\ job # NoJob /\ BaseIsPaper /\ Planned # {}
  /\ \E stub \in [Stubs -> {p \in Profile : profile[p] = "none"}] :
       /\ \A s, o \in Stubs : stub[s] = stub[o] => s = o
       /\ profile' = [p \in Profile |-> IF \E s \in Stubs : stub[s] = p THEN "stub" ELSE profile[p]]
       /\ paper' = [Another(paper) EXCEPT !.link =
            [s \in Sig |-> IF s \in Stubs THEN stub[s]
                           ELSE IF s \in Planned THEN job.plan[s] ELSE @[s]]]
  /\ missed' = IF job.all THEN {} ELSE missed
  /\ job' = NoJob /\ unread' = FALSE
  /\ UNCHANGED <<edit, tasks, listed, claims, clean, dropped>>

\* The paper left the collection: its links are removed, by an update that
\* sends another task.
CommitUnlink ==
  /\ job # NoJob /\ BaseIsPaper /\ Hides
  /\ paper' = [Another(paper) EXCEPT !.link = [s \in Sig |-> NoProfile],
                                     !.changed = paper.curated, !.curated = {}]
  /\ tasks' = tasks \cup {[version |-> paper.version + 1, all |-> FALSE]}
  /\ missed' = {}
  /\ job' = NoJob /\ unread' = FALSE
  /\ UNCHANGED <<edit, profile, listed, claims, clean, dropped>>

NothingToDo ==
  /\ job # NoJob /\ Planned = {} /\ (BaseIsPaper => ~Hides)
  /\ unread' = (unread /\ ~BaseIsPaper)
  /\ job' = NoJob
  /\ UNCHANGED <<paper, edit, tasks, profile, listed, claims, clean, missed, dropped>>

\* StaleDataError, or another failure: the task is retried, six times at most;
\* the tries are not counted here.
RetryTask ==
  /\ job # NoJob
  /\ tasks' = tasks \cup {[version |-> job.version, all |-> job.all]}
  /\ job' = NoJob
  /\ UNCHANGED <<paper, edit, profile, listed, claims, clean, history>>

\* Its retries are used up.
GiveUp(t) ==
  /\ t \in tasks
  /\ tasks' = tasks \ {t}
  /\ dropped' = dropped \cup (IF t.all \/ t.version < paper.version THEN {} ELSE {t.version})
  /\ UNCHANGED <<paper, edit, job, profile, listed, claims, clean, unread, missed>>

-----------------------------------------------------------------------------
(* Claims                                                                  *)

\* Papers are assigned to a profile, which is no stub any more.
AskAssign(from, to) ==
  /\ profile[from] \in {"stub", "full"} /\ profile[to] \in {"stub", "full"} /\ from # to
  /\ profile' = [profile EXCEPT ![to] = "full"]
  /\ claims' = claims \cup {<<from, to, FALSE>>}
  /\ UNCHANGED <<paper, edit, tasks, job, listed, clean, history>>

\* Papers are taken from a profile: a stub is committed, the tasks that assign
\* papers to it are sent.
AskUnassign(from, to) ==
  /\ profile[from] \in {"stub", "full"} /\ profile[to] = "none"
  /\ profile' = [profile EXCEPT ![to] = "stub"]
  /\ claims' = claims \cup {<<from, to, TRUE>>}
  /\ UNCHANGED <<paper, edit, tasks, job, listed, clean, history>>

Claimed(s, c) == paper.link[s] = c[1]

AssignPaper(c) ==
  /\ c \in claims
  /\ claims' = claims \ {c}
  /\ \/ /\ \A s \in Sig : ~Claimed(s, c)
        /\ UNCHANGED <<paper, tasks, history>>
     \/ \E s \in Sig :
          LET new == [Another(paper) EXCEPT !.link[s] = c[2],
                        !.curated = IF c[3] THEN @ ELSE @ \cup {s},
                        !.changed = IF c[3] THEN {} ELSE {s} \ paper.curated]
          IN
          /\ Claimed(s, c) /\ paper.version < LinkVersions
          /\ paper' = new
          /\ tasks' = tasks \cup {[version |-> new.version, all |-> FALSE]}
          /\ dropped' = dropped \ {new.version}
          /\ Overtake(new)
  /\ UNCHANGED <<edit, job, profile, listed, clean>>

-----------------------------------------------------------------------------
(* Removing stubs without papers                                           *)

\* The table of authors has no rows of a paper outside the collection.
Linked(p) == paper.lit /\ \E s \in Sig : paper.link[s] = p

\* The stubs of the index that are stubs, without those that have papers.
StubsToRemove == {p \in listed : profile[p] = "stub" /\ ~Linked(p)}

CleanStart ==
  /\ ~clean.on
  /\ clean' = [on |-> TRUE, first |-> TRUE, left |-> StubsToRemove, checked |-> NoProfile]
  /\ UNCHANGED <<paper, edit, tasks, job, profile, listed, claims, history>>

\* Each is checked again before it is removed: the first one in the
\* serializable transaction of the start, which sees what that saw.
CleanCheck(p) ==
  /\ clean.on /\ clean.checked = NoProfile /\ p \in clean.left
  /\ clean' = [clean EXCEPT !.left = @ \ {p},
                            !.checked = IF clean.first \/ ~Linked(p) THEN p ELSE NoProfile]
  /\ UNCHANGED <<paper, edit, tasks, job, profile, listed, claims, history>>

\* In that transaction a profile that was changed since fails to be removed, and
\* the transaction goes on.  A commit ends it and lets the profiles expire: they
\* are read again, and removed whatever they have become.
CleanRemove ==
  /\ clean.on /\ clean.checked # NoProfile
  /\ LET fails == clean.first /\ profile[clean.checked] # "stub"
     IN /\ clean' = [clean EXCEPT !.first = fails, !.checked = NoProfile]
        /\ profile' = IF fails THEN profile ELSE [profile EXCEPT ![clean.checked] = "deleted"]
  /\ UNCHANGED <<paper, edit, tasks, job, listed, claims, history>>

CleanEnd ==
  /\ clean.on /\ clean.checked = NoProfile /\ clean.left = {}
  /\ clean' = [clean EXCEPT !.on = FALSE, !.first = FALSE]
  /\ UNCHANGED <<paper, edit, tasks, job, profile, listed, claims, history>>

-----------------------------------------------------------------------------

LinksNext ==
  \/ ListProfiles \/ EditPaper \/ CommitEdit \/ RollbackEdit
  \/ SendRepair \/ CommitLinks \/ CommitUnlink \/ NothingToDo \/ RetryTask
  \/ \E t \in tasks : ReadPaper(t) \/ GiveUp(t)
  \/ \E from, to \in Profile : AskAssign(from, to) \/ AskUnassign(from, to)
  \/ \E c \in claims : AssignPaper(c)
  \/ CleanStart \/ CleanRemove \/ CleanEnd
  \/ \E p \in Profile : CleanCheck(p)

LinksSpec == LinksInit /\ [][LinksNext]_linksVars

-----------------------------------------------------------------------------
(* Properties                                                              *)

\* Entries whose change no task has seen to: it was followed by another commit
\* before that, or the task was given up after its tries.
Unseen == missed \cup (IF unread /\ paper.version \in dropped THEN Due(paper) ELSE {})

\* When nothing is under way, every author entry of a paper in the collection
\* has a link, and none of a paper outside it, but for those.
EntriesAreLinked ==
  edit = Blank /\ tasks = {} /\ job = NoJob =>
    \A s \in paper.entries \ Unseen : (paper.link[s] # NoProfile) <=> paper.lit

\* Disambiguation never changes a link that a curator or a claim has set, not
\* even one set after it has read the paper.
CuratedLinksStay ==
  [][CommitLinks => \A s \in paper.curated : paper'.link[s] = paper.link[s]]_linksVars
=============================================================================
