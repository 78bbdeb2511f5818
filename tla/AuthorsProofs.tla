---------------------------- MODULE AuthorsProofs ----------------------------
(* Disambiguation gives every entry its link and respects what curators    *)
(* have linked, a new author is created once and shown as it is, and       *)
(* citations among the papers of an author are flagged and counted as      *)
(* such: for every number of profiles, entries, records and workflows.     *)
EXTENDS RecordPidsProofs, MCRecords, FiniteSetTheorems

\* The task that runs has read the paper, and plans nothing for a curated
\* entry if the paper is still what it read.
PlanIsOpen ==
  /\ job.base <= paper.version
  /\ job.base = paper.version => \A s \in paper.curated : job.plan[s] = NoProfile

LinksInv == LinksTypeOK /\ PlanIsOpen

-----------------------------------------------------------------------------
(* New versions of the paper                                               *)

LEMMA BlankType ==
  /\ Blank \in PaperType
  /\ NoJob \in [version : Nat, all : BOOLEAN, base : Nat,
                plan : [Sig -> Profile \cup {NoProfile, NewStub}]]
BY DEF Blank, PaperType, NoJob

\* A new version is a paper, with the curated entries of the one before.
LEMMA AnotherType ==
  ASSUME NEW p \in PaperType
  PROVE  /\ Another(p) \in PaperType
         /\ Another(p).version = p.version + 1
         /\ Another(p).curated = p.curated
<1>1. p.version + 1 \in Nat /\ p.lit \in BOOLEAN
  BY DEF PaperType
<1> DEFINE n == p.version + 1
           b == p.lit
<1>2. Another(p) = [p EXCEPT !.version = n, !.wasLit = b, !.changed = {}]
  BY DEF Another
<1> HIDE DEF n, b
<1>3. [p EXCEPT !.version = n, !.wasLit = b, !.changed = {}] \in PaperType
  BY <1>1 DEF PaperType, n, b
<1>4. /\ [p EXCEPT !.version = n, !.wasLit = b, !.changed = {}].version = n
      /\ [p EXCEPT !.version = n, !.wasLit = b, !.changed = {}].curated = p.curated
  BY DEF PaperType
<1> QED BY <1>2, <1>3, <1>4 DEF n

\* Changes of a paper keep it one, and leave its version alone.
LEMMA RelinkType ==
  ASSUME NEW p \in PaperType, NEW link \in [Sig -> Profile \cup {NoProfile}],
         NEW touched \in SUBSET Sig, NEW curated \in SUBSET Sig
  PROVE  /\ [p EXCEPT !.link = link] \in PaperType
         /\ [p EXCEPT !.link = link].version = p.version
         /\ [p EXCEPT !.link = link, !.changed = touched, !.curated = curated] \in PaperType
         /\ [p EXCEPT !.link = link, !.changed = touched, !.curated = curated].version = p.version
BY DEF PaperType

\* A claim changes links and what is curated, not the version.
LEMMA ClaimType ==
  ASSUME NEW p \in PaperType, NEW s \in Sig, NEW to \in Profile,
         NEW touched \in SUBSET Sig, NEW curated \in SUBSET Sig
  PROVE  /\ [p EXCEPT !.link[s] = to, !.curated = curated, !.changed = touched] \in PaperType
         /\ [p EXCEPT !.link[s] = to, !.curated = curated, !.changed = touched].version = p.version
BY DEF PaperType

\* Only entries are due for a link.
LEMMA DueType ==
  ASSUME NEW p \in PaperType
  PROVE  Due(p) \subseteq Sig
BY DEF PaperType, Due

\* A message to disambiguate_authors is a version and whether to take all.
LEMMA TaskType ==
  ASSUME NEW n \in Nat, NEW b \in BOOLEAN
  PROVE  [version |-> n, all |-> b] \in Task
BY DEF Task

\* The paper is left alone by everything but commits, which give it another
\* version; then no plan that was made before can be carried out.
LEMMA NewVersionKeepsPlan ==
  ASSUME LinksInv, paper'.version = paper.version + 1, UNCHANGED job
  PROVE  PlanIsOpen'
BY DEF LinksInv, LinksTypeOK, PaperType, PlanIsOpen

\* A worker without a task plans nothing.
LEMMA NoJobKeepsPlan ==
  ASSUME LinksInv, LinksTypeOK', job' = NoJob, paper'.version >= 0
  PROVE  PlanIsOpen'
BY DEF LinksTypeOK, PaperType, PlanIsOpen, NoJob

\* A plan stays open while the paper and the task are as they are.
LEMMA SamePaperKeepsPlan ==
  ASSUME LinksInv, UNCHANGED <<paper, job>>
  PROVE  PlanIsOpen'
BY DEF LinksInv, PlanIsOpen

-----------------------------------------------------------------------------

\* The invariant holds at the start.
LEMMA LinksInitInv == LinksInit => LinksInv
<1> SUFFICES ASSUME LinksInit PROVE LinksInv
  OBVIOUS
<1>1. LinksTypeOK
  BY BlankType DEF LinksInit, LinksTypeOK
<1>2. PlanIsOpen
  BY DEF LinksInit, PlanIsOpen, NoJob, Blank
<1> QED BY <1>1, <1>2 DEF LinksInv

\* Every step of the links keeps the types.
LEMMA LinksTypeStep == LinksInv /\ [LinksNext]_linksVars => LinksTypeOK'
<1> SUFFICES ASSUME LinksInv, [LinksNext]_linksVars PROVE LinksTypeOK'
  OBVIOUS
<1> USE DEF history
<1>t. paper \in PaperType /\ edit \in PaperType /\ Another(paper) \in PaperType
  BY AnotherType DEF LinksInv, LinksTypeOK
<1>v. paper.version \in Nat /\ edit.version \in Nat /\ job.version \in Nat
      /\ job.all \in BOOLEAN /\ job.base \in Nat /\ Another(paper).version = paper.version + 1
      /\ job.plan \in [Sig -> Profile \cup {NoProfile, NewStub}]
      /\ paper.link \in [Sig -> Profile \cup {NoProfile}]
      /\ Another(paper).link = paper.link
      /\ paper.curated \in SUBSET Sig /\ paper.entries \in SUBSET Sig
      /\ Another(paper).curated = paper.curated /\ Another(paper).entries = paper.entries
  BY <1>t DEF LinksInv, LinksTypeOK, PaperType, Another
<1>1. CASE ListProfiles
  BY <1>1 DEF ListProfiles, LinksInv, LinksTypeOK
<1>2. CASE EditPaper
  <2>1. PICK new : new \in PaperType /\ Update(new)
    <3>1. CASE paper.version = 0 /\ \E entries \in SUBSET Sig :
                 Update([Another(paper) EXCEPT !.lit = TRUE, !.entries = entries, !.changed = entries])
      BY <1>t, <3>1 DEF PaperType
    <3>2. CASE Update([Another(paper) EXCEPT !.lit = ~@])
      BY <1>t, <3>2 DEF PaperType
    <3>3. CASE \E s \in Sig : Update([Another(paper) EXCEPT !.entries = @ \cup {s}, !.changed = {s}])
      BY <1>t, <3>3 DEF PaperType
    <3>4. CASE \E s \in paper.entries, p \in Profile :
                 Update([Another(paper) EXCEPT !.link[s] = p, !.curated = @ \cup {s},
                                                 !.changed = {s} \ paper.curated])
      <4>1. PICK s \in paper.entries, p \in Profile :
              Update([Another(paper) EXCEPT !.link[s] = p, !.curated = @ \cup {s},
                                              !.changed = {s} \ paper.curated])
        BY <3>4
      <4> QED BY <1>t, <1>v, <4>1, ClaimType
    <3> QED BY <1>2, <3>1, <3>2, <3>3, <3>4 DEF EditPaper
  <2>2. new.version \in Nat
    BY <2>1 DEF PaperType
  <2>3. [version |-> new.version, all |-> FALSE] \in Task
    BY <2>2, TaskType
  <2> QED BY <1>2, <2>1, <2>3 DEF EditPaper, Update, LinksInv, LinksTypeOK
<1>3. CASE CommitEdit
  BY <1>3, <1>t, BlankType, DueType DEF CommitEdit, Overtake, LinksInv, LinksTypeOK
<1>4. CASE RollbackEdit
  BY <1>4, BlankType DEF RollbackEdit, LinksInv, LinksTypeOK
<1>5. CASE SendRepair
  <2>1. [version |-> paper.version, all |-> TRUE] \in Task
    BY <1>v, TaskType
  <2> QED BY <1>5, <2>1 DEF SendRepair, LinksInv, LinksTypeOK
<1>6. ASSUME NEW t \in tasks, ReadPaper(t) PROVE LinksTypeOK'
  <2>1. t \in Task
    BY DEF LinksInv, LinksTypeOK
  <2>2. PICK plan \in [Eligible(t) -> listed \cup {NoProfile, NewStub}] :
          job' = [version |-> t.version, all |-> t.all, base |-> paper.version,
                  plan |-> [s \in Sig |-> IF s \in Eligible(t) THEN plan[s] ELSE NoProfile]]
    BY <1>6 DEF ReadPaper
  <2>3. [s \in Sig |-> IF s \in Eligible(t) THEN plan[s] ELSE NoProfile]
          \in [Sig -> Profile \cup {NoProfile, NewStub}]
    BY DEF LinksInv, LinksTypeOK
  <2>4. job' \in [version : Nat, all : BOOLEAN, base : Nat,
                  plan : [Sig -> Profile \cup {NoProfile, NewStub}]]
    BY <1>v, <2>1, <2>2, <2>3 DEF Task
  <2> QED BY <1>6, <2>4 DEF ReadPaper, LinksInv, LinksTypeOK
<1>7. CASE CommitLinks
  <2>1. PICK stub \in [Stubs -> {p \in Profile : profile[p] = "none"}] :
          /\ profile' = [p \in Profile |-> IF \E s \in Stubs : stub[s] = p THEN "stub" ELSE profile[p]]
          /\ paper' = [Another(paper) EXCEPT !.link =
               [s \in Sig |-> IF s \in Stubs THEN stub[s]
                              ELSE IF s \in Planned THEN job.plan[s] ELSE @[s]]]
    BY <1>7 DEF CommitLinks
  <2> DEFINE link == [s \in Sig |-> IF s \in Stubs THEN stub[s]
                                    ELSE IF s \in Planned THEN job.plan[s] ELSE paper.link[s]]
  <2>2. link \in [Sig -> Profile \cup {NoProfile}]
    <3> SUFFICES ASSUME NEW s \in Sig PROVE link[s] \in Profile \cup {NoProfile}
      OBVIOUS
    <3> QED BY <1>v DEF Stubs, Planned
  <2>3. paper' = [Another(paper) EXCEPT !.link = link]
    BY <1>v, <2>1
  <2> HIDE DEF link
  <2>4. paper' \in PaperType
    BY <1>t, <2>2, <2>3, RelinkType
  <2>5. profile' \in [Profile -> {"none", "stub", "full", "deleted"}]
    BY <2>1 DEF LinksInv, LinksTypeOK
  <2> QED BY <1>7, <2>4, <2>5, BlankType DEF CommitLinks, LinksInv, LinksTypeOK
<1>8. CASE CommitUnlink
  <2> DEFINE link == [s \in Sig |-> NoProfile]
  <2>1. link \in [Sig -> Profile \cup {NoProfile}]
    OBVIOUS
  <2>2. paper' = [Another(paper) EXCEPT !.link = link, !.changed = paper.curated, !.curated = {}]
    BY <1>8 DEF CommitUnlink
  <2> HIDE DEF link
  <2>3. paper' \in PaperType
    BY <1>t, <1>v, <2>1, <2>2, RelinkType, {} \in SUBSET Sig
  <2>n. paper.version + 1 \in Nat
    BY <1>v
  <2>4. [version |-> paper.version + 1, all |-> FALSE] \in Task
    BY <2>n, TaskType
  <2> QED BY <1>8, <2>3, <2>4, BlankType DEF CommitUnlink, LinksInv, LinksTypeOK
<1>9. CASE NothingToDo
  BY <1>9, BlankType DEF NothingToDo, LinksInv, LinksTypeOK
<1>10. CASE RetryTask
  <2>1. [version |-> job.version, all |-> job.all] \in Task
    BY <1>v, TaskType
  <2> QED BY <1>10, <2>1, BlankType DEF RetryTask, LinksInv, LinksTypeOK
<1>11. ASSUME NEW t \in tasks, GiveUp(t) PROVE LinksTypeOK'
  <2>1. t.version \in Nat
    BY DEF LinksInv, LinksTypeOK, Task
  <2> QED BY <1>11, <2>1 DEF GiveUp, LinksInv, LinksTypeOK
<1>12. ASSUME NEW from \in Profile, NEW to \in Profile, AskAssign(from, to) \/ AskUnassign(from, to)
       PROVE  LinksTypeOK'
  <2>1. \A b \in BOOLEAN : claims \cup {<<from, to, b>>} \subseteq Profile \X Profile \X BOOLEAN
    BY DEF LinksInv, LinksTypeOK
  <2>2. claims' \subseteq Profile \X Profile \X BOOLEAN
    BY <1>12, <2>1 DEF AskAssign, AskUnassign
  <2>3. profile' \in [Profile -> {"none", "stub", "full", "deleted"}]
    BY <1>12 DEF AskAssign, AskUnassign, LinksInv, LinksTypeOK
  <2> QED BY <1>12, <2>2, <2>3 DEF AskAssign, AskUnassign, LinksInv, LinksTypeOK
<1>13. ASSUME NEW c \in claims, AssignPaper(c) PROVE LinksTypeOK'
  <2>1. c[2] \in Profile
    BY DEF LinksInv, LinksTypeOK
  <2>2. CASE UNCHANGED <<paper, tasks, history>>
    BY <1>13, <2>2 DEF AssignPaper, LinksInv, LinksTypeOK
  <2>3. ASSUME NEW s \in Sig, NEW new,
               new = [Another(paper) EXCEPT !.link[s] = c[2],
                        !.curated = IF c[3] THEN @ ELSE @ \cup {s},
                        !.changed = IF c[3] THEN {} ELSE {s} \ paper.curated],
               paper' = new, Overtake(new), dropped' = dropped \ {new.version},
               tasks' = tasks \cup {[version |-> new.version, all |-> FALSE]}
        PROVE  LinksTypeOK'
    <3> DEFINE curated == IF c[3] THEN paper.curated ELSE paper.curated \cup {s}
               touched == IF c[3] THEN {} ELSE {s} \ paper.curated
    <3>1. curated \in SUBSET Sig /\ touched \in SUBSET Sig
      BY <1>v
    <3>2. new = [Another(paper) EXCEPT !.link[s] = c[2], !.curated = curated, !.changed = touched]
      BY <1>v, <2>3
    <3> HIDE DEF curated, touched
    <3>3. new \in PaperType
      BY <1>t, <2>1, <3>1, <3>2, ClaimType
    <3>4. new.version \in Nat
      BY <3>3 DEF PaperType
    <3>5. [version |-> new.version, all |-> FALSE] \in Task
      BY <3>4, TaskType
    <3> QED BY <1>13, <1>t, <2>3, <3>3, <3>5, DueType DEF AssignPaper, Overtake, LinksInv, LinksTypeOK
  <2> QED BY <1>13, <2>2, <2>3 DEF AssignPaper
<1>14. CASE CleanStart
  BY <1>14 DEF CleanStart, StubsToRemove, LinksInv, LinksTypeOK
<1>15. ASSUME NEW p \in Profile, CleanCheck(p) PROVE LinksTypeOK'
  BY <1>15 DEF CleanCheck, LinksInv, LinksTypeOK
<1>16. CASE CleanRemove
  BY <1>16 DEF CleanRemove, LinksInv, LinksTypeOK
<1>17. CASE CleanEnd
  BY <1>17 DEF CleanEnd, LinksInv, LinksTypeOK
<1>18. CASE UNCHANGED linksVars
  BY <1>18 DEF linksVars, LinksInv, LinksTypeOK
<1> QED BY <1>1, <1>2, <1>3, <1>4, <1>5, <1>6, <1>7, <1>8, <1>9, <1>10, <1>11, <1>12, <1>13,
           <1>14, <1>15, <1>16, <1>17, <1>18 DEF LinksNext

\* A plan is only made for entries that no curator has linked, and is dropped
\* with the version it was made for.
LEMMA PlanStep == LinksInv /\ [LinksNext]_linksVars => PlanIsOpen'
<1> SUFFICES ASSUME LinksInv, [LinksNext]_linksVars PROVE PlanIsOpen'
  OBVIOUS
<1>t. /\ LinksTypeOK' /\ paper \in PaperType /\ paper.version \in Nat
      /\ Another(paper) \in PaperType /\ Another(paper).version = paper.version + 1
  BY LinksTypeStep, AnotherType DEF LinksInv, LinksTypeOK, PaperType
<1>p. paper'.version >= 0
  BY <1>t DEF LinksTypeOK, PaperType
<1>1. CASE UNCHANGED <<paper, job>>
  BY <1>1, SamePaperKeepsPlan
<1>2. CASE job' = NoJob
  BY <1>2, <1>t, <1>p, NoJobKeepsPlan
<1>3. CASE CommitEdit
  BY <1>3, NewVersionKeepsPlan DEF CommitEdit
<1>4. ASSUME NEW t \in tasks, ReadPaper(t) PROVE PlanIsOpen'
  <2>1. PICK plan \in [Eligible(t) -> listed \cup {NoProfile, NewStub}] :
          job' = [version |-> t.version, all |-> t.all, base |-> paper.version,
                  plan |-> [s \in Sig |-> IF s \in Eligible(t) THEN plan[s] ELSE NoProfile]]
    BY <1>4 DEF ReadPaper
  <2>2. job'.base = paper.version /\ \A s \in Sig \ Eligible(t) : job'.plan[s] = NoProfile
    BY <2>1
  <2>3. paper.curated \subseteq Sig \ Eligible(t)
    BY <1>t DEF Eligible, PaperType
  <2> QED BY <1>4, <1>t, <2>2, <2>3 DEF ReadPaper, PlanIsOpen
<1>5. ASSUME NEW c \in claims, AssignPaper(c) PROVE PlanIsOpen'
  <2>1. CASE UNCHANGED paper
    BY <1>1, <1>5, <2>1 DEF AssignPaper
  <2>2. ASSUME NEW s \in Sig,
               paper' = [Another(paper) EXCEPT !.link[s] = c[2],
                           !.curated = IF c[3] THEN @ ELSE @ \cup {s},
                           !.changed = IF c[3] THEN {} ELSE {s} \ paper.curated]
        PROVE  PlanIsOpen'
    <3>1. paper'.version = paper.version + 1
      BY <1>t, <2>2 DEF PaperType
    <3> QED BY <1>5, <3>1, NewVersionKeepsPlan DEF AssignPaper
  <2> QED BY <1>5, <2>1, <2>2 DEF AssignPaper
<1> QED BY <1>1, <1>2, <1>3, <1>4, <1>5
      DEF LinksNext, linksVars, ListProfiles, EditPaper, RollbackEdit, SendRepair, CommitLinks,
          CommitUnlink, NothingToDo, RetryTask, GiveUp, AskAssign, AskUnassign, CleanStart,
          CleanCheck, CleanRemove, CleanEnd

\* Every step of the links keeps the invariant.
LEMMA LinksInvStep == LinksInv /\ [LinksNext]_linksVars => LinksInv'
BY LinksTypeStep, PlanStep DEF LinksInv

\* What a task plans is open to it: the invariant behind both properties of links.
THEOREM LinksInvHolds == LinksSpec => []LinksInv
BY LinksInitInv, LinksInvStep, PTL DEF LinksSpec

-----------------------------------------------------------------------------

\* For every number of entries, profiles and versions, the records keep their
\* shape, and every link leads to a profile or to nothing.
THEOREM LinksTypes == LinksSpec => []LinksTypeOK
<1>1. LinksInv => LinksTypeOK
  BY DEF LinksInv
<1> QED BY <1>1, LinksInvHolds, PTL

\* However updates, claims and tasks interleave and are retried, a
\* disambiguation task never overwrites a curated link.
THEOREM CuratedLinksStayHolds == LinksSpec => CuratedLinksStay
<1> DEFINE Stays == CommitLinks => \A s \in paper.curated : paper'.link[s] = paper.link[s]
<1>1. LinksInv /\ [LinksNext]_linksVars => [Stays]_linksVars
  <2> SUFFICES ASSUME LinksInv, CommitLinks, NEW s \in paper.curated
               PROVE  paper'.link[s] = paper.link[s]
    OBVIOUS
  <2>1. s \in Sig /\ job.plan[s] = NoProfile
    BY DEF CommitLinks, BaseIsPaper, LinksInv, LinksTypeOK, PaperType, PlanIsOpen
  <2>2. s \notin Stubs /\ s \notin Planned
    BY <2>1, LinksAssumption DEF Stubs, Planned
  <2>3. Another(paper).link = paper.link /\ Another(paper) \in PaperType
    BY AnotherType DEF LinksInv, LinksTypeOK, Another, PaperType
  <2>4. PICK stub : paper' = [Another(paper) EXCEPT !.link =
            [o \in Sig |-> IF o \in Stubs THEN stub[o]
                           ELSE IF o \in Planned THEN job.plan[o] ELSE @[o]]]
    BY DEF CommitLinks
  <2>5. paper'.link = [o \in Sig |-> IF o \in Stubs THEN stub[o]
                           ELSE IF o \in Planned THEN job.plan[o] ELSE paper.link[o]]
    BY <2>3, <2>4 DEF PaperType
  <2> QED BY <2>1, <2>2, <2>5
<1> QED BY <1>1, LinksInvHolds, PTL DEF LinksSpec, CuratedLinksStay

-----------------------------------------------------------------------------
(* Every entry gets its link                                               *)

\* An entry is as it should be in a paper: linked if the paper is in the
\* collection, and only then.
Settled(p, s) == (p.link[s] # NoProfile) <=> p.lit

\* Curators choose profiles, and only entries have links.
WellLinked(p) ==
  \A s \in Sig : /\ s \in p.curated => p.link[s] # NoProfile
                 /\ s \notin p.entries => p.link[s] = NoProfile /\ s \notin p.changed

\* A version of the paper that leaves an entry unsettled has it to be looked at,
\* or found it unsettled.
Leaves(new) ==
  \A s \in new.entries \ Due(new) :
    Settled(new, s) \/ (s \in paper.entries /\ ~Settled(paper, s))

\* The task of a version waits, or was given up.
Sent(n) == [version |-> n, all |-> FALSE] \in tasks \/ n \in dropped

\* An update that can still commit is one of the paper as it is, and its task
\* waits for it.
EditHolds ==
  /\ WellLinked(edit) /\ edit.version <= paper.version + 1
  /\ edit.version = paper.version + 1 =>
       Leaves(edit) /\ Sent(edit.version)

\* No task runs before its version is committed.
TasksHold ==
  /\ \A t \in tasks : t.version # 0
  /\ job # NoJob => job.version # 0 /\ job.version <= job.base

\* An entry that is not settled is to be looked at, and if the last changes have
\* not been seen to there is a task that will, unless it was given up.
EntriesHold ==
  /\ \A s \in paper.entries \ missed : Settled(paper, s) \/ (unread /\ s \in Due(paper))
  /\ unread => \/ Sent(paper.version)
               \/ job # NoJob /\ job.version = paper.version /\ ~job.all

\* A task that has read the paper as it is has a link for every entry that needs
\* one.
PlanHolds ==
  job # NoJob /\ job.base = paper.version =>
    /\ paper.lit => \A s \in paper.entries :
         paper.link[s] = NoProfile /\ (s \notin missed \/ job.all) => job.plan[s] # NoProfile
    /\ Planned \subseteq (IF paper.lit THEN paper.entries ELSE {})

EntriesInv ==
  /\ LinksInv /\ WellLinked(paper)
  /\ paper.version = 0 => paper.entries = {}
  /\ EditHolds /\ TasksHold /\ EntriesHold /\ PlanHolds

\* At the start no entry waits.
LEMMA EntriesStart == LinksInit => EntriesInv
<1> SUFFICES ASSUME LinksInit PROVE EntriesInv
  OBVIOUS
<1>1. WellLinked(Blank) /\ Blank.version = 0 /\ Blank.entries = {}
  BY DEF WellLinked, Blank
<1> QED BY <1>1, LinksInitInv
        DEF LinksInit, EntriesInv, EditHolds, TasksHold, EntriesHold, PlanHolds

\* What the next version begins with.
LEMMA AnotherIs ==
  ASSUME NEW p \in PaperType
  PROVE  /\ Another(p) \in PaperType /\ Another(p).version = p.version + 1
         /\ Another(p).lit = p.lit /\ Another(p).wasLit = p.lit /\ Another(p).changed = {}
         /\ Another(p).entries = p.entries /\ Another(p).link = p.link
         /\ Another(p).curated = p.curated
<1>1. p.version + 1 \in Nat /\ p.lit \in BOOLEAN
  BY DEF PaperType
<1> PICK n, b : n = p.version + 1 /\ b = p.lit
  OBVIOUS
<1>2. Another(p) = [[[p EXCEPT !.version = n] EXCEPT !.wasLit = b] EXCEPT !.changed = {}]
  BY DEF Another
<1> QED BY <1>1, <1>2 DEF PaperType

\* A commit that is a new version in order: its task sees to what is due.
LEMMA NewVersion ==
  ASSUME EntriesInv, LinksInv', UNCHANGED job, NEW new \in PaperType, paper' = new,
         new.version = paper.version + 1, Overtake(new), WellLinked(new), Leaves(new),
         Sent(new.version)',
         \A t \in tasks' : t.version # 0,
         edit' = Blank \/ UNCHANGED edit
  PROVE  EntriesInv'
<1>1. /\ paper.version \in Nat /\ edit.version \in Nat /\ job.base \in Nat /\ job.version \in Nat
      /\ job.base <= paper.version /\ paper.entries \subseteq Sig
      /\ job # NoJob => job.version # 0 /\ job.version <= job.base
  BY DEF EntriesInv, LinksInv, LinksTypeOK, PaperType, PlanIsOpen, TasksHold
<1>2. TasksHold' /\ WellLinked(paper)'
  BY <1>1 DEF TasksHold, WellLinked
<1>3. PlanHolds'
  BY <1>1 DEF PlanHolds
<1>4. EditHolds'
  <2>1. WellLinked(Blank) /\ Blank.version = 0
    BY DEF WellLinked, Blank
  <2> QED BY <1>1, <2>1 DEF EntriesInv, EditHolds, WellLinked
<1>5. EntriesHold'
  <2>1. unread' = TRUE /\ missed' = (missed \cup IF unread THEN Due(paper) ELSE {}) \ Due(new)
    BY DEF Overtake
  <2>2. ASSUME NEW s \in new.entries \ missed', s \notin Due(new)
        PROVE  Settled(new, s)
    <3>1. s \notin missed /\ (unread => s \notin Due(paper))
      BY <2>1, <2>2
    <3> QED BY <2>2, <3>1 DEF Leaves, EntriesInv, EntriesHold
  <2>3. \A s \in paper'.entries \ missed' : Settled(paper', s) \/ (unread' /\ s \in Due(paper'))
    BY <2>1, <2>2
  <2>4. Sent(paper.version)'
    <3>1. paper'.version = new.version
      OBVIOUS
    <3> QED BY <3>1 DEF Sent
  <2> QED BY <2>3, <2>4 DEF EntriesHold, Settled, Due
<1>6. paper'.version # 0
  <2>1. paper'.version = new.version
    OBVIOUS
  <2> QED BY <1>1, <2>1
<1> QED BY <1>2, <1>3, <1>4, <1>5, <1>6 DEF EntriesInv

\* Steps that leave the paper alone, and add tasks at most.
LEMMA SamePaper ==
  ASSUME EntriesInv, LinksInv', UNCHANGED <<paper, job, history>>, tasks \subseteq tasks',
         \A t \in tasks' : t.version # 0, edit' = Blank \/ UNCHANGED edit
  PROVE  EntriesInv'
<1>1. WellLinked(paper)' /\ EntriesHold' /\ TasksHold'
  BY DEF EntriesInv, WellLinked, EntriesHold, TasksHold, Settled, Due, Sent, history
<1>2. PlanHolds'
  BY DEF EntriesInv, PlanHolds, Planned, history
<1>3. EditHolds'
  <2>1. WellLinked(Blank) /\ Blank.version = 0 /\ paper.version \in Nat
    BY DEF WellLinked, Blank, EntriesInv, LinksInv, LinksTypeOK, PaperType
  <2>2. CASE edit' = Blank
    BY <2>1, <2>2 DEF EditHolds, WellLinked
  <2>3. CASE edit' = edit
    <3>1. EditHolds
      BY DEF EntriesInv
    <3>2. Leaves(edit) => Leaves(edit)'
      BY <2>3 DEF Leaves, Settled, Due
    <3>3. Sent(edit.version) => Sent(edit.version)'
      BY <2>3 DEF Sent, history
    <3> QED BY <2>3, <3>1, <3>2, <3>3 DEF EditHolds, WellLinked
  <2> QED BY <2>2, <2>3
<1> QED BY <1>1, <1>2, <1>3 DEF EntriesInv

\* What curators may do to the paper.
LEMMA EditIs ==
  ASSUME EntriesInv, EditPaper
  PROVE  \E new \in PaperType : /\ Update(new) /\ new.version = paper.version + 1
                                /\ WellLinked(new) /\ Leaves(new)
<1>0. paper \in PaperType /\ paper.link \in [Sig -> Profile \cup {NoProfile}] /\ WellLinked(paper)
  BY DEF EntriesInv, LinksInv, LinksTypeOK, PaperType
<1>1. PICK q : q = Another(paper)
  OBVIOUS
<1>2. /\ q \in PaperType /\ q.version = paper.version + 1 /\ q.lit = paper.lit /\ q.wasLit = paper.lit
      /\ q.changed = {} /\ q.entries = paper.entries /\ q.link = paper.link /\ q.curated = paper.curated
  BY <1>0, <1>1, AnotherIs
<1>3. ASSUME NEW entries \in SUBSET Sig, paper.version = 0,
             Update([q EXCEPT !.lit = TRUE, !.entries = entries, !.changed = entries])
      PROVE  \E new \in PaperType : /\ Update(new) /\ new.version = paper.version + 1
                                    /\ WellLinked(new) /\ Leaves(new)
  <2>1. PICK new : new = [q EXCEPT !.lit = TRUE, !.entries = entries, !.changed = entries]
    OBVIOUS
  <2>2. /\ new \in PaperType /\ new.version = q.version /\ new.lit = TRUE /\ new.wasLit = q.wasLit
        /\ new.entries = entries /\ new.changed = entries /\ new.link = q.link /\ new.curated = q.curated
    BY <1>2, <2>1 DEF PaperType
  <2>3. Due(new) = new.entries
    BY <1>2, <2>2 DEF Due, PaperType
  <2>4. \A s \in Sig : q.link[s] = NoProfile /\ s \notin q.curated
    BY <1>0, <1>2, <1>3 DEF EntriesInv, WellLinked
  <2>5. WellLinked(new) /\ Leaves(new)
    BY <2>2, <2>3, <2>4 DEF WellLinked, Leaves
  <2> QED BY <1>2, <1>3, <2>1, <2>2, <2>5
<1>4. ASSUME Update([q EXCEPT !.lit = ~@])
      PROVE  \E new \in PaperType : /\ Update(new) /\ new.version = paper.version + 1
                                    /\ WellLinked(new) /\ Leaves(new)
  <2>1. PICK lit \in BOOLEAN : lit = ~q.lit
    BY <1>2 DEF PaperType
  <2>2. PICK new : new = [q EXCEPT !.lit = lit]
    OBVIOUS
  <2>3. /\ new \in PaperType /\ new.version = q.version /\ new.lit = lit /\ new.wasLit = q.wasLit
        /\ new.entries = q.entries /\ new.link = q.link /\ new.curated = q.curated /\ new.changed = {}
    BY <1>2, <2>2 DEF PaperType
  <2>4. Due(new) = new.entries
    BY <1>2, <2>1, <2>3 DEF Due, PaperType
  <2>5. WellLinked(new) /\ Leaves(new)
    BY <1>0, <1>2, <2>3, <2>4 DEF WellLinked, Leaves
  <2> QED BY <1>2, <1>4, <2>1, <2>2, <2>3, <2>5
<1>5. ASSUME NEW s \in Sig, Update([q EXCEPT !.entries = @ \cup {s}, !.changed = {s}])
      PROVE  \E new \in PaperType : /\ Update(new) /\ new.version = paper.version + 1
                                    /\ WellLinked(new) /\ Leaves(new)
  <2>1. PICK entries \in SUBSET Sig : entries = q.entries \cup {s}
    BY <1>2 DEF PaperType
  <2>2. PICK new : new = [q EXCEPT !.entries = entries, !.changed = {s}]
    OBVIOUS
  <2>3. /\ new \in PaperType /\ new.version = q.version /\ new.lit = q.lit /\ new.wasLit = q.wasLit
        /\ new.entries = entries /\ new.changed = {s} /\ new.link = q.link /\ new.curated = q.curated
    BY <1>2, <2>2 DEF PaperType
  <2>4. WellLinked(new)
    BY <1>0, <1>2, <2>1, <2>3 DEF WellLinked
  <2>5. Leaves(new)
    <3> SUFFICES ASSUME NEW o \in new.entries \ Due(new)
                 PROVE  Settled(new, o) \/ (o \in paper.entries /\ ~Settled(paper, o))
      BY DEF Leaves
    <3>1. CASE o \in paper.entries
      BY <1>2, <2>3, <3>1 DEF Settled
    <3>2. CASE o \notin paper.entries
      <4>1. o = s /\ paper.link[o] = NoProfile
        BY <1>0, <1>2, <2>1, <2>3, <3>2 DEF WellLinked
      <4>2. ~new.lit
        BY <1>2, <2>3, <4>1 DEF Due, PaperType
      <4> QED BY <1>2, <2>3, <4>1, <4>2 DEF Settled
    <3> QED BY <3>1, <3>2
  <2> QED BY <1>2, <1>5, <2>1, <2>2, <2>3, <2>4, <2>5
<1>6. ASSUME NEW s \in paper.entries, NEW p \in Profile, paper.lit,
             Update([q EXCEPT !.link[s] = p, !.curated = @ \cup {s}, !.changed = {s} \ paper.curated])
      PROVE  \E new \in PaperType : /\ Update(new) /\ new.version = paper.version + 1
                                    /\ WellLinked(new) /\ Leaves(new)
  <2>1. s \in Sig
    BY <1>0 DEF PaperType
  <2>2. PICK curated \in SUBSET Sig, touched \in SUBSET Sig :
          curated = q.curated \cup {s} /\ touched = {s} \ paper.curated
    BY <1>2, <2>1 DEF PaperType
  <2>3. PICK new : new = [q EXCEPT !.link[s] = p, !.curated = curated, !.changed = touched]
    OBVIOUS
  <2>4. /\ new \in PaperType /\ new.version = q.version /\ new.lit = q.lit /\ new.wasLit = q.wasLit
        /\ new.entries = q.entries /\ new.link = [q.link EXCEPT ![s] = p] /\ new.curated = curated
        /\ new.changed = touched
    BY <1>2, <2>1, <2>3 DEF PaperType
  <2>5. \A o \in Sig : new.link[o] = IF o = s THEN p ELSE paper.link[o]
    BY <1>0, <1>2, <2>4
  <2>6. WellLinked(new) /\ Leaves(new)
    BY <1>0, <1>2, <1>6, <2>1, <2>2, <2>4, <2>5, LinksAssumption DEF WellLinked, Leaves, Settled, PaperType
  <2> QED BY <1>2, <1>6, <2>2, <2>3, <2>4, <2>6
<1> QED BY <1>1, <1>3, <1>4, <1>5, <1>6 DEF EditPaper

\* A claim moves links, and leaves every other entry as it was.
LEMMA ClaimIs ==
  ASSUME EntriesInv, NEW c \in claims, AssignPaper(c), ~UNCHANGED paper
  PROVE  \E new \in PaperType :
           /\ paper' = new /\ new.version = paper.version + 1 /\ Overtake(new)
           /\ tasks' = tasks \cup {[version |-> new.version, all |-> FALSE]}
           /\ WellLinked(new) /\ Leaves(new)
<1>0. /\ paper \in PaperType /\ paper.link \in [Sig -> Profile \cup {NoProfile}] /\ WellLinked(paper)
      /\ c[1] \in Profile /\ c[2] \in Profile /\ c[3] \in BOOLEAN
  BY DEF EntriesInv, LinksInv, LinksTypeOK, PaperType
<1>1. PICK q : q = Another(paper)
  OBVIOUS
<1>2. /\ q \in PaperType /\ q.version = paper.version + 1 /\ q.lit = paper.lit /\ q.wasLit = paper.lit
      /\ q.changed = {} /\ q.entries = paper.entries /\ q.link = paper.link /\ q.curated = paper.curated
  BY <1>0, <1>1, AnotherIs
<1>3. PICK s, new :
        /\ s \in Sig
        /\ new = [q EXCEPT !.link[s] = c[2],
                           !.curated = IF c[3] THEN @ ELSE @ \cup {s},
                           !.changed = IF c[3] THEN {} ELSE {s} \ paper.curated]
        /\ Claimed(s, c) /\ paper' = new /\ Overtake(new)
        /\ tasks' = tasks \cup {[version |-> new.version, all |-> FALSE]}
  BY <1>1 DEF AssignPaper
<1>4. PICK curated \in SUBSET Sig, touched \in SUBSET Sig :
        /\ curated = IF c[3] THEN q.curated ELSE q.curated \cup {s}
        /\ touched = IF c[3] THEN {} ELSE {s} \ paper.curated
  BY <1>2, <1>3 DEF PaperType
<1>5. new = [q EXCEPT !.link[s] = c[2], !.curated = curated, !.changed = touched]
  BY <1>3, <1>4
<1>6. /\ new \in PaperType /\ new.version = q.version /\ new.lit = q.lit /\ new.wasLit = q.wasLit
      /\ new.entries = q.entries /\ new.link = [q.link EXCEPT ![s] = c[2]] /\ new.curated = curated
      /\ new.changed = touched
  BY <1>0, <1>2, <1>5 DEF PaperType
<1>7. /\ \A o \in Sig : new.link[o] = IF o = s THEN c[2] ELSE paper.link[o]
      /\ paper.link[s] = c[1]
  BY <1>0, <1>2, <1>3, <1>6 DEF Claimed
<1>8. WellLinked(new) /\ Leaves(new)
  BY <1>0, <1>2, <1>4, <1>6, <1>7, LinksAssumption DEF WellLinked, Leaves, Settled, PaperType
<1> QED BY <1>2, <1>3, <1>6, <1>8

\* The task plans a link for every entry that has none and needs one.
LEMMA ReadHolds ==
  ASSUME EntriesInv, LinksInv', NEW t \in tasks, ReadPaper(t)
  PROVE  EntriesInv'
<1>0. /\ paper \in PaperType /\ paper.version \in Nat /\ t.version \in Nat /\ t.version # 0
      /\ t \in Task /\ WellLinked(paper) /\ paper.entries \subseteq Sig /\ edit.version \in Nat
      /\ paper.lit \in BOOLEAN /\ paper.wasLit \in BOOLEAN
  BY DEF EntriesInv, LinksInv, LinksTypeOK, PaperType, TasksHold, Task
<1>1. PICK plan \in [Eligible(t) -> listed \cup {NoProfile, NewStub}] :
        /\ \A s \in Eligible(t) : plan[s] \in Found(s)
        /\ job' = [version |-> t.version, all |-> t.all, base |-> paper.version,
                   plan |-> [s \in Sig |-> IF s \in Eligible(t) THEN plan[s] ELSE NoProfile]]
  BY DEF ReadPaper
<1>2. /\ tasks' = tasks \ {t} /\ UNCHANGED <<paper, edit, unread, missed, dropped>> /\ t.version <= paper.version
  BY <1>0 DEF ReadPaper, Readable, history
<1>3. /\ job'.version = t.version /\ job'.all = t.all /\ job'.base = paper.version
      /\ \A s \in Sig : job'.plan[s] = IF s \in Eligible(t) THEN plan[s] ELSE NoProfile
  BY <1>1
<1>4. job' # NoJob
  BY <1>0, <1>3 DEF NoJob
<1>5. WellLinked(paper)' /\ (paper'.version = 0 => paper'.entries = {})
  BY <1>2 DEF EntriesInv, WellLinked
<1>6. EditHolds'
  <2>1. edit.version = paper.version + 1 => [version |-> edit.version, all |-> FALSE] # t
    BY <1>0, <1>2
  <2>2. Leaves(edit) => Leaves(edit)'
    BY <1>2 DEF Leaves, Settled, Due
  <2>3. edit.version = paper.version + 1 /\ Sent(edit.version) => Sent(edit.version)'
    BY <1>2, <2>1 DEF Sent
  <2> QED BY <1>2, <2>2, <2>3 DEF EntriesInv, EditHolds, WellLinked
<1>7. TasksHold'
  BY <1>0, <1>2, <1>3 DEF EntriesInv, TasksHold
<1>8. EntriesHold'
  <2>1. Sent(paper.version) =>
          Sent(paper.version)' \/ (job'.version = paper.version /\ ~job'.all)
    <3>1. CASE t = [version |-> paper.version, all |-> FALSE]
      BY <1>3, <3>1
    <3>2. CASE t # [version |-> paper.version, all |-> FALSE]
      BY <1>2, <3>2 DEF Sent
    <3> QED BY <3>1, <3>2
  <2>2. job = NoJob
    BY DEF ReadPaper
  <2> QED BY <1>2, <1>4, <2>1, <2>2 DEF EntriesInv, EntriesHold, Settled, Due
<1>9. PlanHolds'
  <2>1. ASSUME NEW s \in paper.entries, paper.lit, paper.link[s] = NoProfile, s \notin missed \/ t.all
        PROVE  job'.plan[s] # NoProfile
    <3>1. s \notin paper.curated
      BY <1>0, <2>1 DEF WellLinked
    <3>2. s \notin missed => s \in Due(paper)
      BY <2>1 DEF EntriesInv, EntriesHold, Settled
    <3>3. ~paper.wasLit => s \in Due(paper)
      BY <2>1 DEF Due
    <3>4. s \in Eligible(t)
      BY <1>0, <2>1, <3>1, <3>2, <3>3 DEF Eligible
    <3>5. plan[s] \in listed \cup {NewStub}
      BY <1>1, <2>1, <3>4 DEF Found
    <3>6. listed \subseteq Profile
      BY DEF EntriesInv, LinksInv, LinksTypeOK
    <3> QED BY <1>0, <1>3, <3>4, <3>5, <3>6, LinksAssumption
  <2>2. \A s \in Sig : job'.plan[s] # NoProfile => paper.lit /\ s \in paper.entries
    BY <1>0, <1>3 DEF Eligible, Due, WellLinked
  <2>3. Planned' \subseteq (IF paper.lit THEN paper.entries ELSE {})
    BY <2>2 DEF Planned
  <2> QED BY <1>2, <1>3, <2>1, <2>3 DEF PlanHolds
<1> QED BY <1>5, <1>6, <1>7, <1>8, <1>9 DEF EntriesInv

\* A task that ends, with all entries settled.
LEMMA TaskEnds ==
  ASSUME EntriesInv, LinksInv', job' = NoJob, unread' = FALSE, edit' = edit, dropped' = dropped,
         tasks \subseteq tasks', \A t \in tasks' : t.version # 0,
         WellLinked(paper)', paper'.version = 0 => paper'.entries = {},
         paper' = paper \/ paper'.version = paper.version + 1,
         \A s \in paper'.entries \ missed' : Settled(paper', s)
  PROVE  EntriesInv'
<1>0. paper.version \in Nat /\ edit.version \in Nat
  BY DEF EntriesInv, LinksInv, LinksTypeOK, PaperType
<1>1. EntriesHold' /\ TasksHold' /\ PlanHolds'
  BY DEF EntriesHold, Settled, TasksHold, PlanHolds
<1>2. EditHolds'
  <2>1. EditHolds /\ WellLinked(edit)'
    BY DEF EntriesInv, EditHolds, WellLinked
  <2>2. paper' = paper => (Leaves(edit) => Leaves(edit)')
    BY DEF Leaves, Settled, Due
  <2>3. Sent(edit.version) => Sent(edit.version)'
    BY DEF Sent
  <2> QED BY <1>0, <2>1, <2>2, <2>3 DEF EditHolds
<1> QED BY <1>1, <1>2 DEF EntriesInv

\* The commit of a task's links settles what the task found due.
LEMMA LinksHold ==
  ASSUME EntriesInv, LinksInv', CommitLinks
  PROVE  EntriesInv'
<1>0. /\ paper \in PaperType /\ paper.link \in [Sig -> Profile \cup {NoProfile}] /\ WellLinked(paper)
      /\ paper.entries \subseteq Sig /\ job.plan \in [Sig -> Profile \cup {NoProfile, NewStub}]
      /\ paper.version \in Nat
  BY DEF EntriesInv, LinksInv, LinksTypeOK, PaperType
<1> DEFINE q == Another(paper)
<1>2. /\ q \in PaperType /\ q.version = paper.version + 1 /\ q.lit = paper.lit
      /\ q.entries = paper.entries /\ q.link = paper.link /\ q.curated = paper.curated /\ q.changed = {}
  BY <1>0, AnotherIs
<1>3. PICK stub \in [Stubs -> {p \in Profile : profile[p] = "none"}] :
        paper' = [q EXCEPT !.link =
            [s \in Sig |-> IF s \in Stubs THEN stub[s]
                           ELSE IF s \in Planned THEN job.plan[s] ELSE @[s]]]
  BY DEF CommitLinks
<1>4. PICK link : link = [s \in Sig |-> IF s \in Stubs THEN stub[s]
                                       ELSE IF s \in Planned THEN job.plan[s] ELSE q.link[s]]
  OBVIOUS
<1>5. paper' = [q EXCEPT !.link = link]
  BY <1>3, <1>4
<1>6. /\ paper'.version = paper.version + 1 /\ paper'.lit = paper.lit /\ paper'.entries = paper.entries
      /\ paper'.curated = paper.curated /\ paper'.link = link /\ paper'.changed = {}
  BY <1>2, <1>5 DEF PaperType
<1>7. /\ job # NoJob /\ job.base = paper.version /\ Planned # {}
      /\ missed' = (IF job.all THEN {} ELSE missed) /\ job' = NoJob /\ unread' = FALSE
      /\ UNCHANGED <<edit, tasks, dropped>>
  BY DEF CommitLinks, BaseIsPaper
<1>8. /\ paper.lit
      /\ \A s \in paper.entries : paper.link[s] = NoProfile /\ (s \notin missed \/ job.all) => s \in Planned
  BY <1>0, <1>7 DEF EntriesInv, PlanHolds, Planned
<1>9. \A s \in Sig : link[s] # NoProfile <=> s \in Planned \/ paper.link[s] # NoProfile
  <2> SUFFICES ASSUME NEW s \in Sig
               PROVE  link[s] # NoProfile <=> s \in Planned \/ paper.link[s] # NoProfile
    OBVIOUS
  <2>1. CASE s \in Stubs
    BY <1>4, <2>1, LinksAssumption DEF Stubs, Planned
  <2>2. CASE s \notin Stubs /\ s \in Planned
    BY <1>4, <2>2 DEF Planned
  <2>3. CASE s \notin Stubs /\ s \notin Planned
    BY <1>2, <1>4, <2>3
  <2> QED BY <2>1, <2>2, <2>3
<1>10. Planned \subseteq paper.entries
  BY <1>7 DEF EntriesInv, PlanHolds
<1>11. WellLinked(paper)'
  BY <1>0, <1>6, <1>9, <1>10 DEF WellLinked
<1>12. \A s \in paper'.entries \ missed' : Settled(paper', s)
  BY <1>0, <1>6, <1>7, <1>8, <1>9 DEF Settled
<1>13. paper'.version # 0 /\ \A t \in tasks' : t.version # 0
  BY <1>0, <1>6, <1>7 DEF EntriesInv, TasksHold
<1> QED BY <1>6, <1>7, <1>11, <1>12, <1>13, TaskEnds

\* A commit of a task that removes links settles what it planned.
LEMMA UnlinkHolds ==
  ASSUME EntriesInv, LinksInv', CommitUnlink
  PROVE  EntriesInv'
<1>0. paper \in PaperType /\ paper.curated \in SUBSET Sig /\ WellLinked(paper) /\ paper.version \in Nat
  BY DEF EntriesInv, LinksInv, LinksTypeOK, PaperType
<1> DEFINE q == Another(paper)
<1>1. /\ q \in PaperType /\ q.version = paper.version + 1 /\ q.lit = paper.lit
      /\ q.entries = paper.entries /\ q.curated = paper.curated
  BY <1>0, AnotherIs
<1>2. PICK link, touched : link = [s \in Sig |-> NoProfile] /\ touched = paper.curated
  OBVIOUS
<1>3. /\ paper' = [q EXCEPT !.link = link, !.changed = touched, !.curated = {}]
      /\ tasks' = tasks \cup {[version |-> paper.version + 1, all |-> FALSE]}
      /\ missed' = {} /\ job' = NoJob /\ unread' = FALSE /\ edit' = edit /\ ~paper.lit
      /\ dropped' = dropped
  BY <1>2 DEF CommitUnlink, Hides
<1> HIDE DEF q
<1>4. /\ paper'.version = paper.version + 1 /\ paper'.lit = FALSE /\ paper'.entries = paper.entries
      /\ paper'.curated = {} /\ paper'.link = link /\ paper'.changed = touched
  BY <1>1, <1>3 DEF PaperType
<1>5. WellLinked(paper)'
  BY <1>0, <1>2, <1>4 DEF WellLinked
<1>6. \A s \in paper'.entries \ missed' : Settled(paper', s)
  BY <1>0, <1>2, <1>4 DEF Settled, PaperType
<1>7. paper'.version # 0 /\ \A t \in tasks' : t.version # 0
  BY <1>0, <1>3, <1>4 DEF EntriesInv, TasksHold
<1> QED BY <1>3, <1>4, <1>5, <1>6, <1>7, TaskEnds

\* A task with nothing to commit leaves nothing due behind.
LEMMA NothingHolds ==
  ASSUME EntriesInv, LinksInv', NothingToDo
  PROVE  EntriesInv'
<1>0. /\ paper \in PaperType /\ WellLinked(paper) /\ paper.entries \subseteq Sig /\ unread \in BOOLEAN
      /\ paper.lit \in BOOLEAN /\ paper.wasLit \in BOOLEAN
  BY DEF EntriesInv, LinksInv, LinksTypeOK, PaperType
<1>1. /\ job # NoJob /\ Planned = {} /\ (BaseIsPaper => ~Hides) /\ unread' = (unread /\ ~BaseIsPaper)
      /\ job' = NoJob /\ UNCHANGED <<paper, edit, tasks, missed, dropped>>
  BY DEF NothingToDo
<1>2. WellLinked(paper)' /\ \A t \in tasks' : t.version # 0
  BY <1>1 DEF EntriesInv, TasksHold, WellLinked
<1>3. CASE BaseIsPaper
  <2>1. \A s \in paper.entries \ missed : Settled(paper, s)
    <3> SUFFICES ASSUME NEW s \in paper.entries \ missed, ~Settled(paper, s)
                 PROVE  FALSE
      OBVIOUS
    <3>1. s \in Due(paper)
      BY DEF EntriesInv, EntriesHold
    <3>2. CASE paper.lit
      <4>1. job.plan[s] # NoProfile
        BY <1>1, <1>3, <3>2 DEF EntriesInv, PlanHolds, BaseIsPaper, Settled
      <4> QED BY <1>0, <1>1, <4>1 DEF Planned
    <3>3. CASE ~paper.lit
      BY <1>0, <1>1, <1>3, <3>1, <3>3 DEF Due, Hides
    <3> QED BY <3>2, <3>3
  <2>2. \A s \in paper'.entries \ missed' : Settled(paper', s)
    BY <1>1, <2>1
  <2>3. unread' = FALSE /\ paper' = paper /\ tasks \subseteq tasks' /\ edit' = edit /\ dropped' = dropped
    BY <1>1, <1>3
  <2>4. paper'.version = 0 => paper'.entries = {}
    BY <1>1 DEF EntriesInv
  <2> QED BY <1>1, <1>2, <2>2, <2>3, <2>4, TaskEnds
<1>4. CASE ~BaseIsPaper
  <2>1. UNCHANGED unread
    BY <1>0, <1>1, <1>4
  <2>2. TasksHold' /\ PlanHolds'
    BY <1>1 DEF EntriesInv, TasksHold, PlanHolds
  <2>3. EntriesHold'
    <3>1. job.version # paper.version
      BY <1>1, <1>4 DEF EntriesInv, TasksHold, LinksInv, LinksTypeOK, PaperType, PlanIsOpen, BaseIsPaper
    <3>2. Sent(paper.version) => Sent(paper.version)'
      BY <1>1 DEF Sent
    <3> QED BY <1>1, <2>1, <3>1, <3>2 DEF EntriesInv, EntriesHold, Settled, Due
  <2>4. EditHolds'
    <3>1. Sent(edit.version) => Sent(edit.version)'
      BY <1>1 DEF Sent
    <3> QED BY <1>1, <3>1 DEF EntriesInv, EditHolds, WellLinked, Leaves, Settled, Due
  <2> QED BY <1>1, <1>2, <2>2, <2>3, <2>4 DEF EntriesInv
<1> QED BY <1>3, <1>4

\* A task that is tried again will see what it would have seen.
LEMMA RetryHolds ==
  ASSUME EntriesInv, LinksInv', RetryTask
  PROVE  EntriesInv'
<1>1. /\ job # NoJob /\ tasks' = tasks \cup {[version |-> job.version, all |-> job.all]}
      /\ job' = NoJob /\ UNCHANGED <<paper, edit, unread, missed, dropped>>
  BY DEF RetryTask, history
<1>2. WellLinked(paper)' /\ TasksHold' /\ PlanHolds'
  BY <1>1 DEF EntriesInv, TasksHold, PlanHolds, WellLinked
<1>3. EntriesHold'
  <2>1. Sent(paper.version) => Sent(paper.version)'
    BY <1>1 DEF Sent
  <2>2. job.version = paper.version /\ ~job.all => Sent(paper.version)'
    BY <1>1 DEF Sent, EntriesInv, LinksInv, LinksTypeOK
  <2> QED BY <1>1, <2>1, <2>2 DEF EntriesInv, EntriesHold, Settled, Due
<1>4. EditHolds'
  <2>1. Sent(edit.version) => Sent(edit.version)'
    BY <1>1 DEF Sent
  <2> QED BY <1>1, <2>1 DEF EntriesInv, EditHolds, WellLinked, Leaves, Settled, Due
<1> QED BY <1>1, <1>2, <1>3, <1>4 DEF EntriesInv

\* A task that is given up is remembered, unless its version is behind.
LEMMA GiveUpHolds ==
  ASSUME EntriesInv, LinksInv', NEW t \in tasks, GiveUp(t)
  PROVE  EntriesInv'
<1>0. paper.version \in Nat /\ edit.version \in Nat /\ t.version \in Nat
  BY DEF EntriesInv, LinksInv, LinksTypeOK, PaperType, Task
<1>1. /\ tasks' = tasks \ {t} /\ UNCHANGED <<paper, edit, job, unread, missed>>
      /\ dropped' = dropped \cup (IF t.all \/ t.version < paper.version THEN {} ELSE {t.version})
  BY DEF GiveUp
<1>2. ASSUME NEW n \in Nat, n >= paper.version, Sent(n)
      PROVE  Sent(n)'
  <2>1. CASE t = [version |-> n, all |-> FALSE]
    BY <1>0, <1>1, <1>2, <2>1 DEF Sent
  <2>2. CASE t # [version |-> n, all |-> FALSE]
    BY <1>1, <1>2, <2>2 DEF Sent
  <2> QED BY <2>1, <2>2
<1>3. WellLinked(paper)' /\ TasksHold'
  BY <1>1 DEF EntriesInv, TasksHold, WellLinked
<1>4. PlanHolds'
  BY <1>1 DEF EntriesInv, PlanHolds, Planned
<1>5. EntriesHold'
  <2>1. Sent(paper.version) => Sent(paper.version)'
    BY <1>0, <1>1, <1>2 DEF Sent
  <2> QED BY <1>1, <2>1 DEF EntriesInv, EntriesHold, Settled, Due
<1>6. EditHolds'
  <2>1. edit.version = paper.version + 1 /\ Sent(edit.version) => Sent(edit.version)'
    BY <1>0, <1>1, <1>2 DEF Sent
  <2> QED BY <1>1, <2>1 DEF EntriesInv, EditHolds, WellLinked, Leaves, Settled, Due
<1> QED BY <1>1, <1>3, <1>4, <1>5, <1>6 DEF EntriesInv

\* Every step keeps the entries accounted for.
LEMMA EntriesStep == EntriesInv /\ [LinksNext]_linksVars => EntriesInv'
<1> SUFFICES ASSUME EntriesInv, [LinksNext]_linksVars PROVE EntriesInv'
  OBVIOUS
<1>1. LinksInv'
  BY LinksInvStep DEF EntriesInv
<1>0. /\ paper \in PaperType /\ edit \in PaperType /\ paper.version \in Nat /\ edit.version \in Nat
      /\ \A t \in tasks : t.version # 0
  BY DEF EntriesInv, LinksInv, LinksTypeOK, PaperType, TasksHold
<1>2. CASE UNCHANGED <<paper, edit, tasks, job, history>>
  BY <1>0, <1>1, <1>2, SamePaper
<1>3. CASE EditPaper
  <2>1. PICK new \in PaperType : /\ Update(new) /\ new.version = paper.version + 1
                                /\ WellLinked(new) /\ Leaves(new)
    BY <1>3, EditIs
  <2>2. /\ UNCHANGED <<paper, job, unread, missed>> /\ edit' = new
        /\ tasks' = tasks \cup {[version |-> new.version, all |-> FALSE]}
        /\ dropped' = dropped \ {new.version}
    BY <1>3, <2>1 DEF EditPaper, Update
  <2>6. Sent(paper.version) => Sent(paper.version)'
    BY <1>0, <2>1, <2>2 DEF Sent
  <2>3. WellLinked(paper)' /\ EntriesHold' /\ TasksHold'
    BY <1>0, <2>1, <2>2, <2>6 DEF EntriesInv, WellLinked, EntriesHold, TasksHold, Settled, Due
  <2>4. PlanHolds'
    BY <2>2 DEF EntriesInv, PlanHolds, Planned
  <2>5. EditHolds'
    <3>1. Leaves(edit)'
      BY <2>1, <2>2 DEF Leaves, Settled, Due
    <3>2. WellLinked(edit)'
      BY <2>1, <2>2 DEF WellLinked
    <3>3. edit'.version <= paper'.version + 1 /\ Sent(edit.version)'
      <4>1. edit'.version = paper'.version + 1 /\ paper'.version + 1 \in Nat
        BY <1>0, <2>1, <2>2
      <4>2. Sent(edit.version)'
        BY <2>2 DEF Sent
      <4> QED BY <4>1, <4>2
    <3> QED BY <3>1, <3>2, <3>3 DEF EditHolds
  <2> QED BY <1>1, <2>2, <2>3, <2>4, <2>5 DEF EntriesInv
<1>4. CASE CommitEdit
  <2>1. /\ edit.version = paper.version + 1 /\ paper' = edit /\ edit' = Blank /\ Overtake(edit)
        /\ UNCHANGED <<tasks, job, dropped>>
    BY <1>4 DEF CommitEdit
  <2>2. PICK new : new = edit
    OBVIOUS
  <2>3. WellLinked(new) /\ Leaves(new) /\ Sent(new.version)'
    BY <2>1, <2>2 DEF EntriesInv, EditHolds, Sent
  <2> QED BY <1>0, <1>1, <2>1, <2>2, <2>3, NewVersion
<1>5. CASE RollbackEdit
  BY <1>0, <1>1, <1>5, SamePaper DEF RollbackEdit
<1>6. CASE SendRepair
  <2>1. /\ tasks' = tasks \cup {[version |-> paper.version, all |-> TRUE]} /\ paper.version # 0
        /\ UNCHANGED <<paper, edit, job, history>>
    BY <1>6 DEF SendRepair
  <2>2. \A t \in tasks' : t.version # 0
    BY <1>0, <2>1
  <2> QED BY <1>1, <2>1, <2>2, SamePaper
<1>7. ASSUME NEW c \in claims, AssignPaper(c)
      PROVE  EntriesInv'
  <2>1. CASE UNCHANGED paper
    <3>1. UNCHANGED <<paper, tasks, history>>
      <4>1. ASSUME NEW s \in Sig, paper' = [Another(paper) EXCEPT !.link[s] = c[2],
                        !.curated = IF c[3] THEN @ ELSE @ \cup {s},
                        !.changed = IF c[3] THEN {} ELSE {s} \ paper.curated]
            PROVE  FALSE
        <5>1. paper'.version = Another(paper).version
          BY <1>0, <4>1, AnotherIs DEF PaperType
        <5> QED BY <1>0, <2>1, <5>1, AnotherIs
      <4> QED BY <1>7, <2>1, <4>1 DEF AssignPaper
    <3>2. UNCHANGED <<edit, job>>
      BY <1>7 DEF AssignPaper
    <3> QED BY <1>0, <1>1, <3>1, <3>2, SamePaper
  <2>2. CASE ~UNCHANGED paper
    <3>1. PICK new \in PaperType :
            /\ paper' = new /\ new.version = paper.version + 1 /\ Overtake(new)
            /\ tasks' = tasks \cup {[version |-> new.version, all |-> FALSE]}
            /\ WellLinked(new) /\ Leaves(new)
      BY <1>7, <2>2, ClaimIs
    <3>2. UNCHANGED <<edit, job>>
      BY <1>7 DEF AssignPaper
    <3>3. \A t \in tasks' : t.version # 0
      BY <1>0, <3>1
    <3>4. Sent(new.version)'
      BY <3>1 DEF Sent
    <3> QED BY <1>1, <3>1, <3>2, <3>3, <3>4, NewVersion
  <2> QED BY <2>1, <2>2
<1>8. ASSUME NEW t \in tasks, ReadPaper(t) \/ GiveUp(t)
      PROVE  EntriesInv'
  BY <1>1, <1>8, ReadHolds, GiveUpHolds
<1>9. CASE CommitLinks \/ CommitUnlink \/ NothingToDo \/ RetryTask
  BY <1>1, <1>9, LinksHold, UnlinkHolds, NothingHolds, RetryHolds
<1>10. CASE \/ ListProfiles \/ CleanStart \/ CleanRemove \/ CleanEnd \/ UNCHANGED linksVars
            \/ \E p \in Profile : CleanCheck(p)
            \/ \E from, to \in Profile : AskAssign(from, to) \/ AskUnassign(from, to)
  BY <1>2, <1>10 DEF ListProfiles, CleanStart, CleanRemove, CleanEnd, CleanCheck, AskAssign, AskUnassign, linksVars, history
<1> QED BY <1>3, <1>4, <1>5, <1>6, <1>7, <1>8, <1>9, <1>10 DEF LinksNext

\* An entry whose link is not settled is missed, or due in a version that some
\* task of disambiguate_authors has still to read or commit.
THEOREM EntriesInvHolds == LinksSpec => []EntriesInv
BY EntriesStart, EntriesStep, PTL DEF LinksSpec

\* When nothing is under way every entry of a paper in the collection is linked,
\* and none of a paper outside it, whatever was retried, rolled back or claimed
\* meanwhile, but for entries whose change was overtaken, or whose task given up.
THEOREM EntriesAreLinkedHolds == LinksSpec => []EntriesAreLinked
<1>1. EntriesInv => EntriesAreLinked
  <2> SUFFICES ASSUME EntriesInv, tasks = {}, job = NoJob, NEW s \in paper.entries \ Unseen
               PROVE  Settled(paper, s)
    BY DEF EntriesAreLinked, Settled
  <2>1. unread => paper.version \in dropped
    BY DEF EntriesInv, EntriesHold, Sent
  <2> QED BY <2>1 DEF EntriesInv, EntriesHold, Unseen
<1> QED BY <1>1, EntriesInvHolds, PTL

-----------------------------------------------------------------------------
(* A new author is created once, whatever fails and is restarted.          *)

\* A run that creates a record is alive until it has stored its number; a
\* record that is not lost is in the data, or about to be.
StoringIsAlive ==
  \A w \in Author : dag[w]["approve"].at = "number" => ~dag[w]["approve"].failed

RecordIsKnown ==
  \A w \in Author \ lost :
    /\ records[w] # 2
    /\ records[w] = 1 => row[w].number \/ dag[w]["approve"].at = "number"

AuthorsInv == AuthorsTypeOK /\ StoringIsAlive /\ RecordIsKnown

\* The tasks of a run follow each other to its end.
LEMMA NextTaskType ==
  ASSUME NEW d \in Dag, NEW task
  PROVE  NextTask(d, task) \in {"data", "approval", "create", "completed", "end"}
BY DEF NextTask, Dag

\* The runs that follow a decision are runs.
LEMMA DecisionIsDag == Decision \subseteq Dag /\ "approve" \in Dag /\ "init" \in Dag
BY DEF Decision, Dag

\* The invariant holds at the start.
LEMMA AuthorsInitInv == AuthorsInit => AuthorsInv
BY DEF AuthorsInit, AuthorsInv, AuthorsTypeOK, AuthorRow, Restart, DagRun, NoRun, StoringIsAlive, RecordIsKnown, Dag

Place == {"none", "running", "data", "approval", "create", "number", "completed", "end"}

\* A run has a place and may have failed.
LEMMA RunType ==
  ASSUME AuthorsInv, NEW w \in Author, NEW d \in Dag
  PROVE  dag[w][d] \in DagRun
BY DEF AuthorsInv, AuthorsTypeOK

\* A run that moves on is a run.
LEMMA RunAt ==
  ASSUME AuthorsInv, NEW w \in Author, NEW d \in Dag, NEW place \in Place
  PROVE  /\ [dag[w][d] EXCEPT !.at = place] = [at |-> place, failed |-> dag[w][d].failed]
         /\ [dag[w][d] EXCEPT !.at = place] \in DagRun
<1>1. dag[w][d] \in DagRun
  BY DEF AuthorsInv, AuthorsTypeOK
<1> QED BY <1>1 DEF DagRun, Place

\* What the actions on runs do: one run of one workflow changes.
LEMMA SetRunType ==
  ASSUME AuthorsInv, NEW w \in Author, NEW d \in Dag, NEW state \in DagRun, SetRun(w, d, state)
  PROVE  /\ dag' \in [Author -> [Dag -> DagRun]]
         /\ dag'[w][d] = state
         /\ \A o \in Author, e \in Dag : <<o, e>> # <<w, d>> => dag'[o][e] = dag[o][e]
BY DEF AuthorsInv, AuthorsTypeOK, SetRun

\* The first run of some is one of them.
LEMMA FirstIs ==
  ASSUME NEW runs \in SUBSET Dag, runs # {}
  PROVE  FirstOf(runs) \in runs
BY DEF FirstOf, Dag

\* Every step of the author DAGs keeps the invariant.
LEMMA AuthorsInvStep == AuthorsInv /\ [AuthorsNext]_authorVars => AuthorsInv'
<1> SUFFICES ASSUME AuthorsInv, [AuthorsNext]_authorVars PROVE AuthorsInv'
  OBVIOUS
<1> USE DecisionIsDag
<1>1. ASSUME NEW w \in Author, CreateAuthor(w) PROVE AuthorsInv'
  <2>1. row' \in [Author -> AuthorRow] /\ \A o \in Author : row'[o].number = row[o].number
    BY <1>1 DEF CreateAuthor, SetStatus, AuthorsInv, AuthorsTypeOK, AuthorRow
  <2>2. CASE UNCHANGED dag
    BY <1>1, <2>1, <2>2 DEF CreateAuthor, AuthorsInv, AuthorsTypeOK, StoringIsAlive, RecordIsKnown
  <2>3. CASE SetRun(w, "init", Started)
    <3>1. Started \in DagRun
      BY DEF Started, FirstTask, DagRun
    <3>2. /\ dag' \in [Author -> [Dag -> DagRun]]
          /\ \A o \in Author : dag'[o]["approve"] = dag[o]["approve"]
      BY <2>3, <3>1, SetRunType
    <3> QED BY <1>1, <2>1, <2>3, <3>2 DEF CreateAuthor, AuthorsInv, AuthorsTypeOK, StoringIsAlive, RecordIsKnown
  <2> QED BY <1>1, <2>2, <2>3 DEF CreateAuthor
<1>2. ASSUME NEW w \in Author, RestartFailedTask(w) PROVE AuthorsInv'
  <2>1. PICK d \in Broken(w) : SetRun(w, d, [at |-> dag[w][d].at, failed |-> FALSE])
    <3>1. Broken(w) \in SUBSET Dag /\ Broken(w) # {}
      BY <1>2 DEF RestartFailedTask, Broken
    <3> QED BY <1>2, <3>1, FirstIs DEF RestartFailedTask
  <2>2. d \in Dag /\ dag[w][d].failed /\ [at |-> dag[w][d].at, failed |-> FALSE] \in DagRun
    BY <2>1, RunType DEF Broken, DagRun
  <2>3. /\ dag' \in [Author -> [Dag -> DagRun]]
        /\ dag'[w][d] = [at |-> dag[w][d].at, failed |-> FALSE]
        /\ \A o \in Author, e \in Dag : <<o, e>> # <<w, d>> => dag'[o][e] = dag[o][e]
    BY <2>1, <2>2, SetRunType
  <2>4. \A o \in Author : dag'[o]["approve"].at = dag[o]["approve"].at
    <3> TAKE o \in Author
    <3>1. CASE <<o, "approve">> = <<w, d>>
      BY <2>2, <2>3, <3>1, RunType
    <3> QED BY <2>3, <3>1
  <2>5. \A o \in Author : dag'[o]["approve"].failed => dag[o]["approve"].failed
    BY <2>2, <2>3
  <2>6. saving' \in [Author -> SUBSET BOOLEAN]
    BY <1>2 DEF RestartFailedTask, AuthorsInv, AuthorsTypeOK, AuthorRow
  <2> QED BY <1>2, <2>3, <2>4, <2>5, <2>6
       DEF RestartFailedTask, AuthorsInv, AuthorsTypeOK, StoringIsAlive, RecordIsKnown
<1>3. ASSUME NEW w \in Author, AskRestart(w) PROVE AuthorsInv'
  <2>1. [left |-> Deleted(w), cut |-> FALSE, number |-> row[w].number] \in Restart
    BY DEF Deleted, Executed, Restart, AuthorsInv, AuthorsTypeOK, AuthorRow
  <2>2. restarts' \in [Author -> SUBSET Restart]
    BY <1>3, <2>1 DEF AskRestart, AuthorsInv, AuthorsTypeOK
  <2> QED BY <1>3, <2>2 DEF AskRestart, AuthorsInv, AuthorsTypeOK, StoringIsAlive, RecordIsKnown
<1>12. ASSUME NEW w \in Author, NEW q \in restarts[w], DeleteRun(w, q) PROVE AuthorsInv'
  <2>1. q \in Restart
    BY DEF AuthorsInv, AuthorsTypeOK
  <2>2. PICK d \in Dag : /\ d \in q.left /\ (dag[w][d].at = "end" \/ dag[w][d].failed)
                         /\ SetRun(w, d, NoRun)
                         /\ restarts' = [restarts EXCEPT ![w] =
                              (@ \ {q}) \cup {[q EXCEPT !.left = @ \ {d}, !.cut = TRUE]}]
    <3>1. q.left \in SUBSET Dag /\ q.left # {}
      BY <1>12, <2>1 DEF DeleteRun, Restart
    <3> QED BY <1>12, <3>1, FirstIs DEF DeleteRun
  <2>3. [q EXCEPT !.left = @ \ {d}, !.cut = TRUE] \in Restart
    BY <2>1 DEF Restart
  <2>4. restarts' \in [Author -> SUBSET Restart]
    BY <2>2, <2>3 DEF AuthorsInv, AuthorsTypeOK
  <2>5. NoRun \in DagRun
    BY DEF NoRun, DagRun
  <2>6. /\ dag' \in [Author -> [Dag -> DagRun]] /\ dag'[w][d] = NoRun
        /\ \A o \in Author, e \in Dag : <<o, e>> # <<w, d>> => dag'[o][e] = dag[o][e]
    BY <2>2, <2>5, SetRunType
  <2>7. d = "approve" => dag[w]["approve"].at # "number"
    BY <2>2 DEF AuthorsInv, StoringIsAlive
  <2>8. \A o \in Author : /\ dag'[o]["approve"].at = "number" <=> dag[o]["approve"].at = "number"
                          /\ dag'[o]["approve"].failed => dag[o]["approve"].failed
    BY <2>6, <2>7 DEF NoRun
  <2> QED BY <1>12, <2>4, <2>6, <2>8 DEF DeleteRun, AuthorsInv, AuthorsTypeOK, StoringIsAlive, RecordIsKnown
<1>13. ASSUME NEW w \in Author, NEW q \in restarts[w], TriggerRestart(w, q) PROVE AuthorsInv'
  <2>1. q.number \in BOOLEAN
    BY DEF AuthorsInv, AuthorsTypeOK, Restart
  <2>2. saving' \in [Author -> SUBSET BOOLEAN] /\ restarts' \in [Author -> SUBSET Restart]
    BY <1>13, <2>1 DEF TriggerRestart, AuthorsInv, AuthorsTypeOK
  <2>3. Started \in DagRun
    BY DEF Started, FirstTask, DagRun
  <2>4. /\ dag' \in [Author -> [Dag -> DagRun]]
        /\ \A o \in Author : dag'[o]["approve"] = dag[o]["approve"]
    BY <1>13, <2>3, SetRunType DEF TriggerRestart
  <2> QED BY <1>13, <2>2, <2>4 DEF TriggerRestart, AuthorsInv, AuthorsTypeOK, StoringIsAlive, RecordIsKnown
<1>14. ASSUME NEW w \in Author, NEW q \in restarts[w], FailRestart(w, q) PROVE AuthorsInv'
  BY <1>14 DEF FailRestart, AuthorsInv, AuthorsTypeOK, StoringIsAlive, RecordIsKnown
<1>4. ASSUME NEW w \in Author, SaveProcessing(w) PROVE AuthorsInv'
  <2>1. PICK number \in saving[w] :
          /\ row' = [row EXCEPT ![w].status = "processing", ![w].number = number]
          /\ saving' = [saving EXCEPT ![w] = @ \ {number}]
          /\ lost' = IF row[w].number /\ ~number THEN lost \cup {w} ELSE lost
          /\ spoilt' = IF Active(w) THEN spoilt ELSE spoilt \cup {w}
          /\ UNCHANGED <<dag, restarts, records>>
    BY <1>4 DEF SaveProcessing
  <2>2. number \in BOOLEAN
    BY DEF AuthorsInv, AuthorsTypeOK
  <2>3. row' \in [Author -> AuthorRow] /\ saving' \in [Author -> SUBSET BOOLEAN]
    BY <2>1, <2>2 DEF AuthorsInv, AuthorsTypeOK, AuthorRow
  <2>4. \A o \in Author : row'[o].number = IF o = w THEN number ELSE row[o].number
    BY <2>1, <2>2 DEF AuthorsInv, AuthorsTypeOK, AuthorRow
  <2> QED BY <2>1, <2>2, <2>3, <2>4 DEF AuthorsInv, AuthorsTypeOK, StoringIsAlive, RecordIsKnown
<1>5. ASSUME NEW w \in Author, PrepareData(w) PROVE AuthorsInv'
  <2>1. SetRun(w, "init", [dag[w]["init"] EXCEPT !.at = NextTask("init", @)])
    BY <1>5 DEF PrepareData, Advance
  <2>2. [dag[w]["init"] EXCEPT !.at = NextTask("init", @)] \in DagRun
    BY NextTaskType, RunAt DEF Place
  <2>3. /\ dag' \in [Author -> [Dag -> DagRun]]
        /\ \A o \in Author : dag'[o]["approve"] = dag[o]["approve"]
    BY <2>1, <2>2, SetRunType
  <2> QED BY <1>5, <2>3 DEF PrepareData, AuthorsInv, AuthorsTypeOK, StoringIsAlive, RecordIsKnown
<1>6. ASSUME NEW w \in Author, PostAuthor(w) PROVE AuthorsInv'
  <2>1. records[w] \in {0, 1} /\ records' = [records EXCEPT ![w] = @ + 1]
    BY <1>6 DEF PostAuthor, AuthorsInv, AuthorsTypeOK
  <2>2. records' \in [Author -> 0..2]
    BY <2>1 DEF AuthorsInv, AuthorsTypeOK
  <2>3. CASE UNCHANGED dag /\ lost' = lost \cup {w}
    BY <1>6, <2>1, <2>2, <2>3 DEF PostAuthor, AuthorsInv, AuthorsTypeOK, StoringIsAlive, RecordIsKnown
  <2>4. CASE SetRun(w, "approve", [dag[w]["approve"] EXCEPT !.at = "number"]) /\ UNCHANGED lost
    <3>1. [dag[w]["approve"] EXCEPT !.at = "number"] \in DagRun
      BY RunAt DEF Place
    <3>2. /\ dag' \in [Author -> [Dag -> DagRun]]
          /\ dag'[w]["approve"] = [dag[w]["approve"] EXCEPT !.at = "number"]
          /\ \A o \in Author : o # w => dag'[o]["approve"] = dag[o]["approve"]
      BY <2>4, <3>1, SetRunType
    <3>3. dag[w]["approve"].at = "create" /\ dag'[w]["approve"].at = "number" /\ ~dag'[w]["approve"].failed
      BY <1>6, <3>2, RunAt DEF PostAuthor, AtTask, Place
    <3>4. w \notin lost => records[w] = 0
      BY <1>6, <2>1 DEF PostAuthor, AtTask, Taken, AuthorsInv, RecordIsKnown
    <3>5. AuthorsTypeOK' /\ StoringIsAlive'
      BY <1>6, <2>2, <2>4, <3>2, <3>3 DEF PostAuthor, AuthorsInv, AuthorsTypeOK, StoringIsAlive
    <3>6. ASSUME NEW o \in Author, o \notin lost
          PROVE  records'[o] # 2 /\ (records'[o] = 1 => row'[o].number \/ dag'[o]["approve"].at = "number")
      <4>1. CASE o = w
        BY <2>1, <2>2, <3>3, <3>4, <3>6, <4>1 DEF AuthorsInv, AuthorsTypeOK
      <4>2. CASE o # w
        BY <1>6, <2>1, <3>2, <3>6, <4>2 DEF PostAuthor, AuthorsInv, AuthorsTypeOK, RecordIsKnown
      <4> QED BY <4>1, <4>2
    <3> QED BY <2>4, <3>5, <3>6 DEF AuthorsInv, RecordIsKnown
  <2> QED BY <1>6, <2>3, <2>4 DEF PostAuthor
<1>7. ASSUME NEW w \in Author, StoreNumber(w) PROVE AuthorsInv'
  <2>1. row' \in [Author -> AuthorRow] /\ row'[w].number /\ \A o \in Author : o # w => row'[o] = row[o]
    BY <1>7 DEF StoreNumber, AuthorsInv, AuthorsTypeOK, AuthorRow
  <2>2. [at |-> "completed", failed |-> FALSE] \in DagRun
    BY DEF DagRun
  <2>3. /\ dag' \in [Author -> [Dag -> DagRun]]
        /\ dag'[w]["approve"] = [at |-> "completed", failed |-> FALSE]
        /\ \A o \in Author : o # w => dag'[o]["approve"] = dag[o]["approve"]
    BY <1>7, <2>2, SetRunType DEF StoreNumber
  <2> QED BY <1>7, <2>1, <2>3 DEF StoreNumber, AuthorsInv, AuthorsTypeOK, StoringIsAlive, RecordIsKnown
<1>8. ASSUME NEW w \in Author, NEW d \in Decision, ResolveAuthor(w, d) PROVE AuthorsInv'
  <2>1. Started \in DagRun
    BY DEF Started, FirstTask, DagRun
  <2>2. /\ dag' \in [Author -> [Dag -> DagRun]]
        /\ dag'[w][d] = Started
        /\ \A o \in Author, e \in Dag : <<o, e>> # <<w, d>> => dag'[o][e] = dag[o][e]
    BY <1>8, <2>1, SetRunType DEF ResolveAuthor
  <2>3. \A o \in Author : dag'[o]["approve"].at = "number" <=> dag[o]["approve"].at = "number"
    BY <1>8, <2>2 DEF ResolveAuthor, NoRun, Started, FirstTask
  <2>4. \A o \in Author : dag'[o]["approve"].failed => dag[o]["approve"].failed
    BY <2>2 DEF Started
  <2>5. saving' \in [Author -> SUBSET BOOLEAN]
    BY <1>8 DEF ResolveAuthor, AuthorsInv, AuthorsTypeOK, AuthorRow
  <2> QED BY <1>8, <2>2, <2>3, <2>4, <2>5
       DEF ResolveAuthor, AuthorsInv, AuthorsTypeOK, StoringIsAlive, RecordIsKnown
<1>9. ASSUME NEW w \in Author, NEW d \in Dag, ShowStatus(w, d) PROVE AuthorsInv'
  <2>1. PICK task \in {"running", "approval", "completed"} :
          AtTask(w, d, task) /\ SetStatus(w, task) /\ Advance(w, d)
    BY <1>9 DEF ShowStatus
  <2>2. row' \in [Author -> AuthorRow] /\ \A o \in Author : row'[o].number = row[o].number
    BY <2>1 DEF SetStatus, AuthorsInv, AuthorsTypeOK, AuthorRow
  <2> DEFINE to == NextTask(d, dag[w][d].at)
             next == [dag[w][d] EXCEPT !.at = to]
  <2>a. to \in Place /\ to # "number"
    BY NextTaskType DEF Place
  <2> HIDE DEF to
  <2>3. next \in DagRun /\ next.at # "number"
    BY <2>a, RunAt
  <2>4. SetRun(w, d, next)
    BY <2>1 DEF Advance, to
  <2> HIDE DEF next
  <2>5. /\ dag' \in [Author -> [Dag -> DagRun]]
        /\ dag'[w][d] = next
        /\ \A o \in Author, e \in Dag : <<o, e>> # <<w, d>> => dag'[o][e] = dag[o][e]
    BY <2>3, <2>4, SetRunType
  <2>6. dag[w][d].at # "number"
    BY <2>1 DEF AtTask
  <2>7. \A o \in Author : dag'[o]["approve"].at = "number" <=> dag[o]["approve"].at = "number"
    BY <2>3, <2>5, <2>6
  <2>8. \A o \in Author : dag'[o]["approve"].at = "number" => dag'[o]["approve"] = dag[o]["approve"]
    BY <2>3, <2>5
  <2> QED BY <1>9, <2>2, <2>5, <2>7, <2>8
       DEF ShowStatus, AuthorsInv, AuthorsTypeOK, StoringIsAlive, RecordIsKnown
<1>10. ASSUME NEW w \in Author, NEW d \in Dag, FailAuthorRun(w, d) PROVE AuthorsInv'
  <2>1. row' \in [Author -> AuthorRow] /\ \A o \in Author : row'[o].number = row[o].number
    <3>1. CASE UNCHANGED row
      BY <3>1 DEF AuthorsInv, AuthorsTypeOK
    <3>2. CASE row' = [row EXCEPT ![w].status = "error"]
      BY <3>2 DEF AuthorsInv, AuthorsTypeOK, AuthorRow
    <3> QED BY <1>10, <3>1, <3>2 DEF FailAuthorRun, SetStatus, ShownFailed
  <2> DEFINE broken == [at |-> IF dag[w][d].at = "number" THEN "create" ELSE dag[w][d].at, failed |-> TRUE]
  <2>2. broken \in DagRun /\ broken.at # "number"
    BY RunType DEF DagRun
  <2>3. SetRun(w, d, broken)
    BY <1>10 DEF FailAuthorRun
  <2> HIDE DEF broken
  <2>4. /\ dag' \in [Author -> [Dag -> DagRun]]
        /\ dag'[w][d] = broken
        /\ \A o \in Author, e \in Dag : <<o, e>> # <<w, d>> => dag'[o][e] = dag[o][e]
    BY <2>2, <2>3, SetRunType
  <2>5. \A o \in Author : dag'[o]["approve"].at = "number" => dag'[o]["approve"] = dag[o]["approve"]
    BY <2>2, <2>4
  <2>6. \A o \in Author \ lost' : dag[o]["approve"].at = "number" => dag'[o]["approve"].at = "number"
    BY <1>10, <2>4 DEF FailAuthorRun
  <2> QED BY <1>10, <2>1, <2>4, <2>5, <2>6
       DEF FailAuthorRun, AuthorsInv, AuthorsTypeOK, StoringIsAlive, RecordIsKnown
<1>11. CASE UNCHANGED authorVars
  BY <1>11 DEF authorVars, AuthorsInv, AuthorsTypeOK, StoringIsAlive, RecordIsKnown
<1> QED BY <1>1, <1>2, <1>3, <1>4, <1>5, <1>6, <1>7, <1>8, <1>9, <1>10, <1>11, <1>12, <1>13, <1>14
    DEF AuthorsNext

\* A workflow that has not lost track has posted at most one record, and holds
\* its number or is about to store it: the invariant behind RecordIsOnce.
THEOREM AuthorsInvHolds == AuthorsSpec => []AuthorsInv
BY AuthorsInitInv, AuthorsInvStep, PTL DEF AuthorsSpec

\* For every set of workflows, with or without an ORCID: rows, runs and
\* histories keep their types.
THEOREM AuthorsTypes == AuthorsSpec => []AuthorsTypeOK
<1>1. AuthorsInv => AuthorsTypeOK
  BY DEF AuthorsInv
<1> QED BY <1>1, AuthorsInvHolds, PTL

\* What the ORCID alone guarantees, whatever the workflows know.
OrcidIsOnce ==
  \A w, o \in WithOrcid : records[w] > 0 /\ records[o] > 0 => w = o /\ records[w] = 1

\* No step gives a second record to the workflows of one ORCID: the backend
\* refuses it.
LEMMA OrcidIsOnceStep == AuthorsInv /\ OrcidIsOnce /\ [AuthorsNext]_authorVars => OrcidIsOnce'
<1> SUFFICES ASSUME AuthorsInv, OrcidIsOnce, [AuthorsNext]_authorVars PROVE OrcidIsOnce'
  OBVIOUS
<1> USE AuthorsAssumption
<1>1. ASSUME NEW w \in Author, PostAuthor(w) PROVE OrcidIsOnce'
  <2>1. records \in [Author -> 0..2] /\ records' = [records EXCEPT ![w] = @ + 1] /\ ~Taken(w)
    BY <1>1 DEF PostAuthor, AuthorsInv, AuthorsTypeOK
  <2>2. CASE w \in WithOrcid
    <3>1. \A o \in WithOrcid : records[o] = 0
      BY <2>1, <2>2 DEF Taken
    <3> QED BY <2>1, <2>2, <3>1 DEF OrcidIsOnce
  <2>3. CASE w \notin WithOrcid
    BY <2>1, <2>3 DEF OrcidIsOnce
  <2> QED BY <2>2, <2>3
<1>2. ASSUME UNCHANGED records PROVE OrcidIsOnce'
  BY <1>2 DEF OrcidIsOnce
<1>3. (\E w \in Author : PostAuthor(w)) \/ UNCHANGED records
  BY DEF AuthorsNext, authorVars, CreateAuthor, RestartFailedTask, AskRestart, DeleteRun, TriggerRestart,
         FailRestart, SaveProcessing, PrepareData, StoreNumber, ResolveAuthor, ShowStatus, FailAuthorRun
<1> QED BY <1>1, <1>2, <1>3

\* Accepting a submission twice, failures and restarts do not create a second
\* author record, unless the number of the first was lost; nor do submissions
\* with one ORCID, even then.
THEOREM OneRecordHolds == AuthorsSpec => []OneRecord
<1>1. AuthorsInv /\ OrcidIsOnce => OneRecord
  BY DEF AuthorsInv, AuthorsTypeOK, RecordIsKnown, OrcidIsOnce, OneRecord
<1>2. AuthorsInit => OrcidIsOnce
  BY AuthorsAssumption DEF AuthorsInit, OrcidIsOnce
<1> QED BY <1>1, <1>2, OrcidIsOnceStep, AuthorsInvHolds, PTL DEF AuthorsSpec

-----------------------------------------------------------------------------
(* What the backoffice shows of a new author                               *)

\* What a workflow shows when no run is at work and no request has to save.
Shown(w) ==
  row[w].status # "none" /\ ~Active(w) /\ saving[w] = {} /\ Executed(w) # {} =>
    CASE row[w].status = "approval"  -> Executed(w) = {"init"}
      [] row[w].status = "completed" ->
           \/ dag[w]["approve"].at = "end" /\ (row[w].number \/ w \in lost)
           \/ dag[w]["reject"].at = "end"
      [] row[w].status = "error"     -> Broken(w) # {}
      [] OTHER                       -> FALSE

\* The runs that carry out decisions begin when the first has ended.
InOrder(w) == dag[w]["init"].at # "end" => dag[w]["approve"] = NoRun /\ dag[w]["reject"] = NoRun

\* A restart of the workflow has deleted runs, and not triggered the first yet.
Cut(w) == \E q \in restarts[w] : q.cut

\* Workflows that nothing spoilt are as they should be, except during a restart.
Told(w) == w \in spoilt \/ Cut(w) \/ (InOrder(w) /\ Shown(w))

\* Where the runs of a workflow may be; a run that accepts an author ends with
\* its number, unless a request that read the workflow before has taken it away.
RunsHold(w) ==
  /\ dag[w]["init"].at \in {"none", "running", "data", "approval", "end"}
  /\ dag[w]["approve"].at \in {"none", "running", "create", "number", "completed", "end"}
  /\ dag[w]["reject"].at \in {"none", "running", "completed", "end"}
  /\ \A d \in Dag : dag[w][d].failed => dag[w][d].at \notin {"none", "end"}
  /\ row[w].status = "none" => restarts[w] = {} /\ \A d \in Dag : dag[w][d] = NoRun
  /\ dag[w]["approve"].at \in {"completed", "end"} => row[w].number \/ w \in lost

\* A restart has found every run that carries out a decision, or it is spoilt.
RestartsHold(w) ==
  w \notin spoilt =>
    \A q \in restarts[w] : \A d \in {"approve", "reject"} : dag[w][d].at # "none" => d \in q.left

ShownInv == AuthorsInv /\ \A w \in Author : RunsHold(w) /\ RestartsHold(w) /\ Told(w)

\* A workflow is shown as it is at the start.
LEMMA ShownStart == AuthorsInit => ShownInv
BY AuthorsInitInv
   DEF AuthorsInit, ShownInv, RunsHold, RestartsHold, Told, InOrder, Shown, Executed, NoRun, Dag

\* A workflow that nothing happens to.
LEMMA ShownStays ==
  ASSUME NEW w \in Author, RunsHold(w) /\ RestartsHold(w) /\ Told(w), row'[w] = row[w], dag'[w] = dag[w],
         restarts'[w] = restarts[w], saving'[w] = saving[w],
         w \in spoilt => w \in spoilt', w \in lost => w \in lost'
  PROVE  RunsHold(w)' /\ RestartsHold(w)' /\ Told(w)'
<1>1. RunsHold(w)' /\ RestartsHold(w)'
  BY DEF RunsHold, RestartsHold
<1>2. Shown(w) => Shown(w)'
  BY DEF Shown, Active, Executed, Broken
<1>3. Told(w)'
  BY <1>2 DEF Told, InOrder, Cut
<1> QED BY <1>1, <1>3

\* A workflow with a run at work need not be right.
LEMMA ActiveIsShown ==
  ASSUME NEW w \in Author, NEW d \in Dag, dag'[w][d].at \notin {"none", "end"}, ~dag'[w][d].failed
  PROVE  Shown(w)'
BY DEF Shown, Active

\* A step of workflow w keeps the invariant if it does for w.
LEMMA ShownOf ==
  ASSUME ShownInv, AuthorsInv', NEW w \in Author, RunsHold(w)' /\ RestartsHold(w)' /\ Told(w)',
         \A o \in Author \ {w} :
           /\ row'[o] = row[o] /\ dag'[o] = dag[o] /\ restarts'[o] = restarts[o] /\ saving'[o] = saving[o]
           /\ (o \in spoilt => o \in spoilt') /\ (o \in lost => o \in lost')
  PROVE  ShownInv'
BY ShownStays DEF ShownInv

\* A run at work that moves on, or fails, is still there; so nothing is
\* disturbed but what the workflow shows.
LEMMA MovesOn ==
  ASSUME ShownInv, NEW w \in Author, NEW d \in Dag, dag[w][d].at \notin {"none", "end"}, dag'[w][d].at # "none",
         \A e \in Dag \ {d} : dag'[w][e] = dag[w][e], restarts'[w] = restarts[w],
         w \in spoilt => w \in spoilt', Shown(w)' \/ (InOrder(w) => Shown(w)') \/ w \in spoilt'
  PROVE  RestartsHold(w)' /\ Told(w)'
<1>0. Dag = {"init", "approve", "reject"} /\ RestartsHold(w) /\ Told(w)
  BY DEF Dag, ShownInv
<1>1. RestartsHold(w)'
  BY <1>0 DEF RestartsHold
<1>2. InOrder(w) => InOrder(w)'
  BY <1>0 DEF InOrder, NoRun
<1>3. Told(w)'
  BY <1>0, <1>2 DEF Told, Cut
<1> QED BY <1>1, <1>3

\* What a step of a run changes.
LEMMA RunIs ==
  ASSUME AuthorsInv, NEW w \in Author, NEW d \in Dag, NEW state, SetRun(w, d, state)
  PROVE  /\ dag'[w][d] = state
         /\ \A e \in Dag \ {d} : dag'[w][e] = dag[w][e]
         /\ \A o \in Author \ {w} : dag'[o] = dag[o]
BY DEF AuthorsInv, AuthorsTypeOK, SetRun

\* The three runs of a workflow, and the two that follow a decision.
LEMMA DagsAre == Dag = {"init", "approve", "reject"} /\ Decision = {"approve", "reject"}
BY DEF Dag, Decision

\* Every step keeps the status to what the runs did last.
LEMMA ShownStep == ShownInv /\ [AuthorsNext]_authorVars => ShownInv'
<1> SUFFICES ASSUME ShownInv, [AuthorsNext]_authorVars PROVE ShownInv'
  OBVIOUS
<1>0. AuthorsInv /\ AuthorsInv' /\ \A w \in Author : RunsHold(w) /\ RestartsHold(w) /\ Told(w)
  BY AuthorsInvStep DEF ShownInv
<1>a. AuthorsInv /\ "init" \in Dag /\ "approve" \in Dag /\ "reject" \in Dag /\ Decision \subseteq Dag
  BY <1>0, DagsAre
<1>t. \A w \in Author : /\ row[w] \in AuthorRow /\ \A d \in Dag : dag[w][d] \in DagRun
                       /\ dag[w] \in [Dag -> DagRun]
  BY <1>0 DEF AuthorsInv, AuthorsTypeOK
<1>d. /\ DOMAIN row = Author /\ DOMAIN dag = Author /\ DOMAIN saving = Author /\ DOMAIN restarts = Author
      /\ \A w \in Author : restarts[w] \subseteq Restart
  BY <1>0 DEF AuthorsInv, AuthorsTypeOK
<1>s. Started \in DagRun /\ Started.at = "running" /\ Started.failed = FALSE
  BY DEF Started, FirstTask, DagRun
<1>1. ASSUME NEW w \in Author, CreateAuthor(w)
      PROVE  ShownInv'
  <2>1. /\ row[w].status = "none" /\ row' = [row EXCEPT ![w].status = "processing"]
        /\ UNCHANGED <<restarts, saving, spoilt, lost>>
        /\ row'[w].status = "processing" /\ row'[w].number = row[w].number
        /\ \A o \in Author \ {w} : row'[o] = row[o]
    BY <1>1, <1>t, <1>d DEF CreateAuthor, SetStatus, AuthorRow
  <2>2. restarts[w] = {} /\ \A d \in Dag : dag[w][d] = NoRun
    BY <1>0, <2>1 DEF RunsHold
  <2>3. CASE SetRun(w, "init", Started)
    <3>1. /\ dag'[w]["init"] = Started /\ dag'[w]["approve"] = NoRun /\ dag'[w]["reject"] = NoRun
          /\ \A o \in Author \ {w} : dag'[o] = dag[o]
      BY <1>a, <1>s, <2>2, <2>3, RunIs
    <3>2. RunsHold(w)' /\ RestartsHold(w)'
      BY <1>0, <1>s, <2>1, <2>2, <3>1, DagsAre DEF RunsHold, RestartsHold, NoRun
    <3>3. Shown(w)'
      BY <1>a, <1>s, <3>1, ActiveIsShown
    <3>4. Told(w)'
      BY <1>s, <3>1, <3>3 DEF Told, InOrder
    <3> QED BY <1>0, <2>1, <3>1, <3>2, <3>4, ShownOf
  <2>4. CASE UNCHANGED dag
    <3>1. RunsHold(w)' /\ RestartsHold(w)'
      BY <1>0, <2>1, <2>2, <2>4, DagsAre DEF RunsHold, RestartsHold
    <3>2. Told(w)'
      BY <2>2, <2>4, DagsAre DEF Told, InOrder, Shown, Executed, NoRun
    <3> QED BY <1>0, <2>1, <2>4, <3>1, <3>2, ShownOf
  <2> QED BY <1>1, <2>3, <2>4 DEF CreateAuthor
<1>2. ASSUME NEW w \in Author, NEW d \in Decision, ResolveAuthor(w, d)
      PROVE  ShownInv'
  <2>1. /\ row[w].status # "none" /\ dag[w][d] = NoRun /\ SetRun(w, d, Started)
        /\ spoilt' = (IF dag[w]["init"].at = "end" /\ restarts[w] = {} THEN spoilt ELSE spoilt \cup {w})
        /\ UNCHANGED <<row, restarts, lost>> /\ \A o \in Author \ {w} : saving'[o] = saving[o]
    BY <1>2, <1>d DEF ResolveAuthor
  <2>2. /\ dag'[w][d] = Started /\ \A e \in Dag \ {d} : dag'[w][e] = dag[w][e]
        /\ \A o \in Author \ {w} : dag'[o] = dag[o]
    BY <1>a, <1>s, <2>1, RunIs
  <2>3. RunsHold(w)'
    <3>1. RunsHold(w) /\ dag'[w]["init"] = dag[w]["init"] /\ d \in {"approve", "reject"}
      BY <1>0, <2>2, DagsAre
    <3>2. CASE d = "approve"
      BY <1>s, <2>1, <2>2, <3>1, <3>2, DagsAre DEF RunsHold
    <3>3. CASE d = "reject"
      BY <1>s, <2>1, <2>2, <3>1, <3>3, DagsAre DEF RunsHold
    <3> QED BY <3>1, <3>2, <3>3
  <2>4. RestartsHold(w)'
    BY <2>1 DEF RestartsHold
  <2>5. Shown(w)'
    BY <1>a, <1>s, <2>2, ActiveIsShown
  <2>6. Told(w)'
    <3>1. dag[w]["init"].at = "end" => InOrder(w)'
      BY <2>2, DagsAre DEF InOrder
    <3> QED BY <2>1, <2>5, <3>1 DEF Told
  <2> QED BY <1>0, <2>1, <2>2, <2>3, <2>4, <2>6, ShownOf
<1>3. ASSUME NEW w \in Author, RestartFailedTask(w)
      PROVE  ShownInv'
  <2>1. PICK d \in Dag : /\ dag[w][d].failed /\ SetRun(w, d, [at |-> dag[w][d].at, failed |-> FALSE])
                         /\ saving' = [saving EXCEPT ![w] = @ \cup {row[w].number}]
                         /\ UNCHANGED <<row, restarts, spoilt, lost>>
    <3>1. Broken(w) \in SUBSET Dag /\ Broken(w) # {}
      BY <1>3 DEF RestartFailedTask, Broken
    <3>2. FirstOf(Broken(w)) \in Dag /\ dag[w][FirstOf(Broken(w))].failed
      BY <3>1, FirstIs DEF Broken
    <3> QED BY <1>3, <3>2 DEF RestartFailedTask
  <2>2. PICK state : state = [at |-> dag[w][d].at, failed |-> FALSE]
    OBVIOUS
  <2>3. /\ dag'[w][d] = state /\ \A e \in Dag \ {d} : dag'[w][e] = dag[w][e]
        /\ \A o \in Author \ {w} : dag'[o] = dag[o]
    BY <1>a, <2>1, <2>2, RunIs
  <2>4. state.at = dag[w][d].at /\ state.failed = FALSE /\ state.at \notin {"none", "end"}
    BY <1>0, <2>1, <2>2, DagsAre DEF RunsHold
  <2>5. RunsHold(w)'
    BY <1>0, <2>1, <2>3, <2>4, DagsAre DEF RunsHold, NoRun
  <2>6. Shown(w)'
    BY <1>a, <2>3, <2>4, ActiveIsShown
  <2>7. RestartsHold(w)' /\ Told(w)'
    BY <2>1, <2>3, <2>4, <2>6, MovesOn
  <2>8. \A o \in Author \ {w} : saving'[o] = saving[o]
    BY <1>d, <2>1
  <2> QED BY <1>0, <2>1, <2>3, <2>5, <2>7, <2>8, ShownOf
<1>4. ASSUME NEW w \in Author, AskRestart(w)
      PROVE  ShownInv'
  <2>1. /\ row[w].status # "none" /\ UNCHANGED <<row, dag, saving, spoilt, lost>>
        /\ restarts'[w] = restarts[w] \cup {[left |-> Executed(w), cut |-> FALSE, number |-> row[w].number]}
        /\ \A o \in Author \ {w} : restarts'[o] = restarts[o]
    BY <1>4, <1>d DEF AskRestart, Deleted
  <2>2. RunsHold(w)'
    BY <1>0, <2>1 DEF RunsHold
  <2>3. RestartsHold(w)'
    BY <1>0, <2>1, DagsAre DEF RestartsHold, Executed
  <2>4. Told(w)'
    <3>1. Cut(w) => Cut(w)'
      BY <2>1 DEF Cut
    <3>2. Shown(w) => Shown(w)'
      BY <2>1 DEF Shown, Active, Executed, Broken
    <3> QED BY <1>0, <2>1, <3>1, <3>2 DEF Told, InOrder
  <2> QED BY <1>0, <2>1, <2>2, <2>3, <2>4, ShownOf
<1>12. ASSUME NEW w \in Author, NEW q \in restarts[w], DeleteRun(w, q)
       PROVE  ShownInv'
  <2>0. q \in Restart
    BY <1>d
  <2>1. PICK d \in Dag : /\ d \in q.left /\ SetRun(w, d, NoRun)
                         /\ restarts' = [restarts EXCEPT ![w] =
                              (@ \ {q}) \cup {[q EXCEPT !.left = @ \ {d}, !.cut = TRUE]}]
                         /\ UNCHANGED <<row, saving, spoilt, lost>>
    <3>1. q.left \in SUBSET Dag /\ q.left # {}
      BY <1>12, <2>0 DEF DeleteRun, Restart
    <3> QED BY <1>12, <3>1, FirstIs DEF DeleteRun
  <2>2. PICK next : next = [q EXCEPT !.left = @ \ {d}, !.cut = TRUE]
    OBVIOUS
  <2>3. next.left = q.left \ {d} /\ next.cut = TRUE
    BY <2>0, <2>2 DEF Restart
  <2>4. restarts'[w] = (restarts[w] \ {q}) \cup {next} /\ \A o \in Author \ {w} : restarts'[o] = restarts[o]
    BY <1>d, <2>1, <2>2
  <2>5. /\ dag'[w][d] = NoRun /\ \A e \in Dag \ {d} : dag'[w][e] = dag[w][e]
        /\ \A o \in Author \ {w} : dag'[o] = dag[o]
    <3>1. NoRun \in DagRun
      BY DEF NoRun, DagRun
    <3> QED BY <1>a, <2>1, <3>1, RunIs
  <2>6. RunsHold(w)'
    <3>1. row[w].status # "none"
      BY <1>0 DEF RunsHold
    <3> QED BY <1>0, <2>1, <2>5, <3>1, DagsAre DEF RunsHold, NoRun
  <2>7. RestartsHold(w)'
    BY <1>0, <2>1, <2>3, <2>4, <2>5, DagsAre DEF RestartsHold, NoRun
  <2>8. Told(w)'
    BY <2>3, <2>4 DEF Told, Cut
  <2> QED BY <1>0, <2>1, <2>4, <2>5, <2>6, <2>7, <2>8, ShownOf
<1>13. ASSUME NEW w \in Author, NEW q \in restarts[w], TriggerRestart(w, q)
       PROVE  ShownInv'
  <2>1. /\ q.left = {} /\ SetRun(w, "init", Started) /\ UNCHANGED <<row, lost>>
        /\ spoilt' = (IF Executed(w) = {} THEN spoilt \ {w} ELSE spoilt)
        /\ restarts'[w] = restarts[w] \ {q}
        /\ \A o \in Author \ {w} : restarts'[o] = restarts[o] /\ saving'[o] = saving[o]
    BY <1>13, <1>d DEF TriggerRestart
  <2>2. /\ dag'[w]["init"] = Started /\ dag'[w]["approve"] = dag[w]["approve"]
        /\ dag'[w]["reject"] = dag[w]["reject"] /\ \A o \in Author \ {w} : dag'[o] = dag[o]
    BY <1>a, <1>s, <2>1, RunIs
  <2>3. w \notin spoilt' => dag[w]["approve"].at = "none" /\ dag[w]["reject"].at = "none"
    BY <1>0, <2>1, DagsAre DEF RestartsHold, Executed
  <2>4. \A d \in Dag : dag[w][d].at = "none" => dag[w][d] = NoRun
    <3> TAKE d \in Dag
    <3>1. dag[w][d].at = "none" => dag[w][d].failed = FALSE
      BY <1>0, <1>t DEF RunsHold, DagRun
    <3> QED BY <1>t, <3>1 DEF DagRun, NoRun
  <2>5. RunsHold(w)'
    <3>1. row[w].status # "none"
      BY <1>0 DEF RunsHold
    <3> QED BY <1>0, <1>s, <2>1, <2>2, <3>1, DagsAre DEF RunsHold, NoRun
  <2>6. RestartsHold(w)'
    BY <2>2, <2>3 DEF RestartsHold
  <2>7. Shown(w)'
    BY <1>a, <1>s, <2>2, ActiveIsShown
  <2>8. Told(w)'
    BY <1>a, <2>2, <2>3, <2>4, <2>7 DEF Told, InOrder
  <2> QED BY <1>0, <2>1, <2>2, <2>5, <2>6, <2>8, ShownOf
<1>14. ASSUME NEW w \in Author, NEW q \in restarts[w], FailRestart(w, q)
       PROVE  ShownInv'
  <2>1. /\ restarts'[w] = restarts[w] \ {q} /\ \A o \in Author \ {w} : restarts'[o] = restarts[o]
        /\ spoilt' = (IF q.cut /\ Executed(w) # {} THEN spoilt \cup {w} ELSE spoilt)
        /\ UNCHANGED <<row, dag, saving, lost>>
    BY <1>14, <1>d DEF FailRestart
  <2>2. RunsHold(w)' /\ RestartsHold(w)'
    BY <1>0, <2>1 DEF RunsHold, RestartsHold
  <2>3. Shown(w) => Shown(w)'
    BY <2>1 DEF Shown, Active, Executed, Broken
  <2>4. Executed(w) = {} => InOrder(w) /\ Shown(w)
    <3>1. \A d \in Dag : dag[w][d].at = "none" => dag[w][d] = NoRun
      <4> TAKE d \in Dag
      <4>1. dag[w][d].at = "none" => dag[w][d].failed = FALSE
        BY <1>0, <1>t DEF RunsHold, DagRun
      <4> QED BY <1>t, <4>1 DEF DagRun, NoRun
    <3> QED BY <3>1, DagsAre DEF InOrder, Shown, Executed
  <2>5. Told(w)'
    <3>1. CASE q.cut
      BY <2>1, <2>3, <2>4, <3>1 DEF Told, InOrder
    <3>2. CASE ~q.cut
      BY <1>0, <2>1, <2>3, <3>2 DEF Told, InOrder, Cut
    <3> QED BY <3>1, <3>2
  <2> QED BY <1>0, <2>1, <2>2, <2>5, ShownOf
<1>5. ASSUME NEW w \in Author, SaveProcessing(w)
      PROVE  ShownInv'
  <2>1. PICK number \in saving[w] :
          /\ row' = [row EXCEPT ![w].status = "processing", ![w].number = number]
          /\ saving' = [saving EXCEPT ![w] = @ \ {number}]
          /\ spoilt' = IF Active(w) THEN spoilt ELSE spoilt \cup {w}
          /\ lost' = IF row[w].number /\ ~number THEN lost \cup {w} ELSE lost
          /\ UNCHANGED <<dag, restarts>>
    BY <1>5 DEF SaveProcessing
  <2>2. number \in BOOLEAN
    BY <1>0 DEF AuthorsInv, AuthorsTypeOK
  <2>3. /\ row'[w].status = "processing" /\ row'[w].number = number
        /\ \A o \in Author \ {w} : row'[o] = row[o] /\ saving'[o] = saving[o]
    BY <1>t, <1>d, <2>1, <2>2 DEF AuthorRow
  <2>4. row[w].number \/ w \in lost => number \/ w \in lost'
    BY <2>1
  <2>5. RunsHold(w)' /\ RestartsHold(w)'
    BY <1>0, <2>1, <2>3, <2>4, DagsAre DEF RunsHold, RestartsHold
  <2>6. w \in spoilt' \/ Shown(w)'
    BY <2>1, DagsAre DEF Shown, Active
  <2>7. Told(w)'
    BY <1>0, <2>1, <2>6 DEF Told, InOrder, Cut
  <2> QED BY <1>0, <2>1, <2>3, <2>5, <2>7, ShownOf
<1>6. ASSUME NEW w \in Author, PrepareData(w)
      PROVE  ShownInv'
  <2>1. /\ dag[w]["init"].at = "data" /\ ~dag[w]["init"].failed
        /\ dag' = [dag EXCEPT ![w]["init"] = [dag[w]["init"] EXCEPT !.at = "approval"]]
        /\ UNCHANGED <<row, restarts, saving, spoilt, lost>>
    BY <1>6 DEF PrepareData, AtTask, Advance, NextTask, SetRun
  <2>2. PICK state : state = [at |-> "approval", failed |-> FALSE]
    OBVIOUS
  <2>a. SetRun(w, "init", state) /\ state.at = "approval" /\ ~state.failed
    <3>1. [dag[w]["init"] EXCEPT !.at = "approval"] = state
      <4>1. [dag[w]["init"] EXCEPT !.at = "approval"] = [at |-> "approval", failed |-> dag[w]["init"].failed]
        BY <1>a, RunAt DEF Place
      <4>2. dag[w]["init"].failed = FALSE
        BY <1>a, <1>t, <2>1 DEF DagRun
      <4> QED BY <2>2, <4>1, <4>2
    <3> QED BY <2>1, <2>2, <3>1 DEF SetRun
  <2>3. /\ dag'[w]["init"] = state /\ dag'[w]["approve"] = dag[w]["approve"]
        /\ dag'[w]["reject"] = dag[w]["reject"] /\ \A o \in Author \ {w} : dag'[o] = dag[o]
    BY <1>a, <2>a, RunIs
  <2>4. RunsHold(w)'
    BY <1>0, <2>1, <2>a, <2>3, DagsAre DEF RunsHold
  <2>5. Shown(w)'
    BY <1>a, <2>a, <2>3, ActiveIsShown
  <2>6. RestartsHold(w)' /\ Told(w)'
    BY <1>a, <2>1, <2>a, <2>3, <2>5, DagsAre, MovesOn
  <2> QED BY <1>0, <2>1, <2>3, <2>4, <2>6, ShownOf
<1>7. ASSUME NEW w \in Author, PostAuthor(w)
      PROVE  ShownInv'
  <2>1. /\ dag[w]["approve"].at = "create" /\ ~dag[w]["approve"].failed
        /\ UNCHANGED <<row, restarts, saving, spoilt>> /\ lost \subseteq lost' /\ lost' \subseteq lost \cup {w}
    BY <1>7 DEF PostAuthor, AtTask
  <2>2. CASE UNCHANGED dag
    <3>1. RunsHold(w)'
      BY <1>0, <2>1, <2>2, DagsAre DEF RunsHold
    <3>2. Shown(w)'
      BY <1>a, <2>1, <2>2, ActiveIsShown
    <3>3. RestartsHold(w)' /\ Told(w)'
      BY <1>a, <2>1, <2>2, <3>2, DagsAre, MovesOn
    <3> QED BY <1>0, <2>1, <2>2, <3>1, <3>3, ShownOf
  <2>3. CASE dag' = [dag EXCEPT ![w]["approve"] = [dag[w]["approve"] EXCEPT !.at = "number"]]
    <3>a. PICK state : state = [at |-> "number", failed |-> FALSE]
      OBVIOUS
    <3>1. SetRun(w, "approve", state) /\ state.at = "number" /\ ~state.failed
      <4>1. [dag[w]["approve"] EXCEPT !.at = "number"] = state
        <5>1. [dag[w]["approve"] EXCEPT !.at = "number"] = [at |-> "number", failed |-> dag[w]["approve"].failed]
          BY <1>a, RunAt DEF Place
        <5>2. dag[w]["approve"].failed = FALSE
          BY <1>a, <1>t, <2>1 DEF DagRun
        <5> QED BY <3>a, <5>1, <5>2
      <4>2. state.at = "number" /\ ~state.failed
        BY <3>a
      <4> QED BY <2>3, <4>1, <4>2 DEF SetRun
    <3>2. /\ dag'[w]["approve"] = state /\ dag'[w]["init"] = dag[w]["init"]
          /\ dag'[w]["reject"] = dag[w]["reject"] /\ \A o \in Author \ {w} : dag'[o] = dag[o]
      BY <1>a, <3>1, RunIs
    <3>3. RunsHold(w)'
      BY <1>0, <2>1, <3>1, <3>2, DagsAre DEF RunsHold, NoRun
    <3>4. Shown(w)'
      BY <1>a, <3>1, <3>2, ActiveIsShown
    <3>5. RestartsHold(w)' /\ Told(w)'
      BY <1>a, <2>1, <3>1, <3>2, <3>4, DagsAre, MovesOn
    <3> QED BY <1>0, <2>1, <3>2, <3>3, <3>5, ShownOf
  <2> QED BY <1>7, <2>2, <2>3 DEF PostAuthor, SetRun
<1>8. ASSUME NEW w \in Author, StoreNumber(w)
      PROVE  ShownInv'
  <2>1. /\ dag[w]["approve"].at = "number" /\ ~dag[w]["approve"].failed
        /\ row' = [row EXCEPT ![w].number = TRUE] /\ UNCHANGED <<restarts, saving, spoilt, lost>>
        /\ dag' = [dag EXCEPT ![w]["approve"] = [at |-> "completed", failed |-> FALSE]]
    BY <1>8 DEF StoreNumber, AtTask, SetRun
  <2>a. PICK state : state = [at |-> "completed", failed |-> FALSE]
    OBVIOUS
  <2>2. SetRun(w, "approve", state) /\ state.at = "completed" /\ ~state.failed
    BY <2>1, <2>a DEF SetRun
  <2>3. /\ dag'[w]["approve"] = state /\ dag'[w]["init"] = dag[w]["init"]
        /\ dag'[w]["reject"] = dag[w]["reject"] /\ \A o \in Author \ {w} : dag'[o] = dag[o]
    BY <1>a, <2>1, <2>2, RunIs
  <2>4. /\ row'[w].number = TRUE /\ row'[w].status = row[w].status
        /\ \A o \in Author \ {w} : row'[o] = row[o]
    BY <1>t, <1>d, <2>1 DEF AuthorRow
  <2>5. RunsHold(w)'
    BY <1>0, <2>1, <2>2, <2>3, <2>4, DagsAre DEF RunsHold, NoRun
  <2>6. Shown(w)'
    BY <1>a, <2>2, <2>3, ActiveIsShown
  <2>7. RestartsHold(w)' /\ Told(w)'
    BY <1>a, <2>1, <2>2, <2>3, <2>6, DagsAre, MovesOn
  <2> QED BY <1>0, <2>1, <2>3, <2>4, <2>5, <2>7, ShownOf
<1>9. ASSUME NEW w \in Author, NEW d \in Dag, ShowStatus(w, d)
      PROVE  ShownInv'
  <2>1. PICK task \in {"running", "approval", "completed"} :
          /\ dag[w][d].at = task /\ ~dag[w][d].failed /\ row' = [row EXCEPT ![w].status = task]
          /\ dag' = [dag EXCEPT ![w][d] = [dag[w][d] EXCEPT !.at = NextTask(d, task)]]
          /\ UNCHANGED <<restarts, saving, spoilt, lost>>
    BY <1>9 DEF ShowStatus, AtTask, SetStatus, Advance, SetRun
  <2>2. PICK next \in {"data", "approval", "create", "completed", "end"} : next = NextTask(d, task)
    BY NextTaskType
  <2>a. PICK state : state = [at |-> next, failed |-> FALSE]
    OBVIOUS
  <2>3. SetRun(w, d, state) /\ state.at = next /\ ~state.failed
    <3>1. [dag[w][d] EXCEPT !.at = next] = state
      <4>1. next \in Place
        BY <2>2 DEF Place
      <4>2. [dag[w][d] EXCEPT !.at = next] = [at |-> next, failed |-> dag[w][d].failed]
        BY <1>a, <4>1, RunAt
      <4>3. dag[w][d].failed = FALSE
        BY <1>t, <2>1 DEF DagRun
      <4> QED BY <2>a, <4>2, <4>3
    <3>2. state.at = next /\ ~state.failed
      BY <2>a
    <3>3. dag' = [dag EXCEPT ![w][d] = state]
      BY <2>1, <2>2, <3>1
    <3> QED BY <3>2, <3>3 DEF SetRun
  <2>4. /\ dag'[w][d] = state /\ \A e \in Dag \ {d} : dag'[w][e] = dag[w][e]
        /\ \A o \in Author \ {w} : dag'[o] = dag[o]
    BY <1>a, <2>3, RunIs
  <2>5. /\ row'[w].number = row[w].number /\ row'[w].status = task
        /\ \A o \in Author \ {w} : row'[o] = row[o]
    BY <1>t, <1>d, <2>1 DEF AuthorRow
  <2>6. RunsHold(w)'
    BY <1>0, <2>1, <2>2, <2>3, <2>4, <2>5, DagsAre DEF RunsHold, NoRun, NextTask
  <2>7. InOrder(w) => Shown(w)'
    <3> SUFFICES ASSUME InOrder(w) PROVE Shown(w)'
      OBVIOUS
    <3>1. CASE next # "end"
      BY <1>a, <2>2, <2>3, <2>4, <3>1, ActiveIsShown
    <3>2. CASE next = "end"
      <4>1. (d = "init" /\ task = "approval") \/ (d \in {"approve", "reject"} /\ task = "completed")
        BY <1>0, <2>1, <2>2, <3>2, DagsAre DEF RunsHold, NextTask
      <4>2. CASE d = "init" /\ task = "approval"
        <5>1. Executed(w)' = {"init"}
          <6>1. dag'[w]["init"].at = "end" /\ dag'[w]["approve"].at = "none" /\ dag'[w]["reject"].at = "none"
            <7>1. dag[w]["approve"] = NoRun /\ dag[w]["reject"] = NoRun
              BY <2>1, <4>2 DEF InOrder
            <7>2. dag'[w]["approve"] = NoRun /\ dag'[w]["reject"] = NoRun
              BY <1>a, <2>4, <4>2, <7>1, DagsAre
            <7>3. dag'[w]["init"].at = "end"
              BY <2>3, <2>4, <3>2, <4>2
            <7> QED BY <7>2, <7>3 DEF NoRun
          <6> QED BY <6>1, DagsAre DEF Executed
        <5> QED BY <2>5, <4>2, <5>1 DEF Shown
      <4>3. CASE d \in {"approve", "reject"} /\ task = "completed"
        BY <1>0, <2>1, <2>3, <2>4, <2>5, <3>2, <4>3, DagsAre DEF Shown, RunsHold
      <4> QED BY <4>1, <4>2, <4>3
    <3> QED BY <3>1, <3>2
  <2>8. RestartsHold(w)' /\ Told(w)'
    <3>1. dag'[w][d].at # "none" /\ dag[w][d].at \notin {"none", "end"}
      BY <2>1, <2>2, <2>3, <2>4
    <3> QED BY <2>1, <2>4, <2>7, <3>1, MovesOn
  <2> QED BY <1>0, <2>1, <2>4, <2>5, <2>6, <2>8, ShownOf
<1>10. ASSUME NEW w \in Author, NEW d \in Dag, FailAuthorRun(w, d)
       PROVE  ShownInv'
  <2>1. /\ dag[w][d].at \notin {"none", "end"} /\ ~dag[w][d].failed
        /\ dag' = [dag EXCEPT ![w][d] = [at |-> IF dag[w][d].at = "number" THEN "create" ELSE dag[w][d].at, failed |-> TRUE]]
        /\ lost \subseteq lost' /\ lost' \subseteq lost \cup {w} /\ UNCHANGED <<restarts, saving>>
    BY <1>10 DEF FailAuthorRun, SetRun
  <2>2. PICK place \in Place : place = IF dag[w][d].at = "number" THEN "create" ELSE dag[w][d].at
    BY <1>t DEF DagRun, Place
  <2>a. PICK state : state = [at |-> place, failed |-> TRUE]
    OBVIOUS
  <2>3. SetRun(w, d, state) /\ state.at = place /\ state.failed = TRUE
    BY <2>1, <2>2, <2>a DEF SetRun
  <2>4. /\ dag'[w][d] = state /\ \A e \in Dag \ {d} : dag'[w][e] = dag[w][e]
        /\ \A o \in Author \ {w} : dag'[o] = dag[o]
    BY <1>a, <2>3, RunIs
  <2>5. \/ /\ row'[w].status = "error" /\ row'[w].number = row[w].number /\ UNCHANGED spoilt
           /\ \A o \in Author \ {w} : row'[o] = row[o]
        \/ spoilt' = spoilt \cup {w} /\ UNCHANGED row
    BY <1>10, <1>t, <1>d DEF FailAuthorRun, SetStatus, ShownFailed, AuthorRow
  <2>6. RunsHold(w)'
    BY <1>0, <2>1, <2>2, <2>3, <2>4, <2>5, DagsAre DEF RunsHold, NoRun
  <2>7. d \in Broken(w)'
    BY <2>3, <2>4, DagsAre DEF Broken
  <2>8. w \in spoilt' \/ Shown(w)'
    BY <2>5, <2>7 DEF Shown
  <2>9. RestartsHold(w)' /\ Told(w)'
    <3>1. dag'[w][d].at # "none"
      BY <2>1, <2>2, <2>3, <2>4
    <3> QED BY <2>1, <2>4, <2>5, <2>8, <3>1, MovesOn
  <2> QED BY <1>0, <2>1, <2>4, <2>5, <2>6, <2>9, ShownOf
<1>11. CASE UNCHANGED authorVars
  BY <1>0, <1>11, ShownStays DEF authorVars, ShownInv
<1> QED BY <1>1, <1>2, <1>3, <1>4, <1>5, <1>6, <1>7, <1>8, <1>9, <1>10, <1>11,
           <1>12, <1>13, <1>14 DEF AuthorsNext

\* Unless it was spoilt or is being restarted, a workflow shows what its runs
\* have come to, and no decision is carried out before the first has ended.
THEOREM ShownInvHolds == AuthorsSpec => []ShownInv
BY ShownStart, ShownStep, PTL DEF AuthorsSpec

\* What an author workflow shows when nothing is under way is where it is.
THEOREM AuthorsAreShownHolds == AuthorsSpec => []AuthorsAreShown
<1>1. ShownInv => AuthorsAreShown
  BY DEF ShownInv, Told, Cut, Shown, AuthorsAreShown
<1> QED BY <1>1, ShownInvHolds, PTL

-----------------------------------------------------------------------------
(* Self-citations                                                          *)

\* What is committed and what is about to be; only commits change the first.
ContentHolds ==
  /\ content \in [Work -> WorkContent]
  /\ change \in [Work -> Change]
  /\ \A w \in Work : NotItself(w, content[w]) /\ NotItself(w, change[w].new)

\* What a transaction has seen of a record is so as long as that record has not
\* committed since.
SeenIsSo ==
  \A w, o \in Work :
    change[w].at = "looked" /\ o \notin change[w].since =>
      LET c == change[w].new IN
      o \in change[w].same <=> c.kind = "paper" /\ o \in SelfCitedPapers(w, c)

FlagsInv == ContentHolds /\ SeenIsSo /\ FlagsAreTrue

\* What the steps of a transaction have in common.
LEMMA ClosedIs ==
  ASSUME NEW c \in WorkContent
  PROVE  /\ Closed(c) \in Change /\ Closed(c).at = "none" /\ Closed(c).new = c
         /\ [Closed(c) EXCEPT !.at = "open"] \in Change /\ [Closed(c) EXCEPT !.at = "open"].at = "open"
         /\ [Closed(c) EXCEPT !.at = "open"].new = c
BY DEF Closed, Change

\* At the start every flag is right.
LEMMA FlagsInit == CitationsInit => FlagsInv
<1> SUFFICES ASSUME CitationsInit PROVE FlagsInv
  OBVIOUS
<1>1. content \in [Work -> WorkContent]
  BY DEF CitationsInit, WorkContent, Kind
<1>2. change = [w \in Work |-> Closed(content[w])]
  BY DEF CitationsInit
<1>3. ContentHolds /\ \A w \in Work : change[w].at = "none"
  <2>1. \A w \in Work : change[w] \in Change /\ change[w].at = "none" /\ change[w].new = content[w]
    BY <1>1, <1>2, ClosedIs
  <2>2. change \in [Work -> Change]
    BY <1>2, <2>1
  <2>3. \A w \in Work : NotItself(w, content[w])
    BY DEF CitationsInit
  <2> QED BY <1>1, <2>1, <2>2, <2>3 DEF ContentHolds
<1>4. SeenIsSo
  BY <1>3 DEF SeenIsSo
<1>5. FlagsAreTrue
  <2> SUFFICES ASSUME NEW y \in Work, NEW x \in Work, Row(y, x)
               PROVE  (<<y, x>> \in self) <=> ShareAuthor(content[y], content[x])
    BY DEF FlagsAreTrue
  <2>1. self = {r \in Work \X Work : Row(r[1], r[2]) /\ ShareAuthor(content[r[1]], content[r[2]])}
    BY DEF CitationsInit
  <2> QED BY <2>1
<1> QED BY <1>3, <1>4, <1>5 DEF FlagsInv

\* A commit: what w is afterwards, and what it leaves of the others.
LEMMA CommitIs ==
  ASSUME ContentHolds, NEW w \in Work, CommitChange(w)
  PROVE  /\ change[w].at = "looked" /\ change[w].new \in WorkContent
         /\ content' \in [Work -> WorkContent] /\ content'[w] = change[w].new
         /\ change'[w].new = change[w].new
         /\ \A o \in Work \ {w} : content'[o] = content[o]
         /\ change' \in [Work -> Change] /\ change'[w].at = "none"
         /\ \A o \in Work \ {w} :
              /\ change'[o].at = change[o].at /\ change'[o].new = change[o].new
              /\ change'[o].same = change[o].same
              /\ change'[o].since = IF change[o].at = "looked" THEN change[o].since \cup {w}
                                                               ELSE change[o].since
<1>1. /\ change[w].at = "looked" /\ content' = [content EXCEPT ![w] = change[w].new]
      /\ change' = [o \in Work |->
           IF o = w THEN Closed(change[w].new)
           ELSE IF o \in Looking(w) THEN [change[o] EXCEPT !.since = @ \cup {w}] ELSE change[o]]
  BY DEF CommitChange
<1>2. /\ content \in [Work -> WorkContent] /\ change \in [Work -> Change]
      /\ \A o \in Work : change[o].new \in WorkContent
  BY DEF ContentHolds, Change
<1>3. ASSUME NEW o \in Work \ {w}
      PROVE  /\ change'[o] \in Change
             /\ change'[o].at = change[o].at /\ change'[o].new = change[o].new
             /\ change'[o].same = change[o].same
             /\ change'[o].since = IF change[o].at = "looked" THEN change[o].since \cup {w}
                                                              ELSE change[o].since
  BY <1>1, <1>2 DEF Change, Looking
<1>4. change'[w] = Closed(change[w].new) /\ change[w].new \in WorkContent
  BY <1>1, <1>2
<1>5. change'[w] \in Change /\ change'[w].at = "none" /\ change'[w].new = change[w].new
  BY <1>4, ClosedIs
<1>6. change' \in [Work -> Change]
  BY <1>1, <1>3, <1>5
<1> QED BY <1>1, <1>2, <1>3, <1>5, <1>6

\* The rows of w are flagged by what it saw; a record that does not cite leaves
\* the flags of the rows that cite it; no other flag changes.
LEMMA FlagsAre ==
  ASSUME NEW w \in Work, CommitChange(w)
  PROVE  /\ \A y, x \in Work \ {w} : <<y, x>> \in self' <=> <<y, x>> \in self
         /\ change[w].new.kind = "paper" => \A o \in Work \ {w} :
              /\ <<w, o>> \in self' <=> o \in change[w].same /\ o \in Cited(change[w].new)
              /\ Row(o, w) => (<<o, w>> \in self' <=> o \in change[w].same)
<1>1. self' = {r \in self : w \notin {r[1], r[2]}} \cup FlagsOf(w, change[w].new, change[w].same)
  BY DEF CommitChange
<1>2. \A y, x \in Work \ {w} : <<y, x>> \notin FlagsOf(w, change[w].new, change[w].same)
  BY DEF FlagsOf
<1>3. change[w].new.kind = "paper" => \A o \in Work \ {w} :
        /\ <<w, o>> \in FlagsOf(w, change[w].new, change[w].same)
             <=> o \in change[w].same /\ o \in Cited(change[w].new)
        /\ Row(o, w) =>
             (<<o, w>> \in FlagsOf(w, change[w].new, change[w].same) <=> o \in change[w].same)
  BY DEF FlagsOf
<1> QED BY <1>1, <1>2, <1>3

\* Steps that commit nothing.
LEMMA OpenStep ==
  ASSUME FlagsInv, UNCHANGED <<content, self, crossed>>, change' \in [Work -> Change],
         \A w \in Work : NotItself(w, change'[w].new),
         \A w \in Work : change'[w].at = "looked" => change'[w] = change[w]
  PROVE  FlagsInv'
<1>1. ContentHolds' /\ FlagsAreTrue'
  BY DEF FlagsInv, ContentHolds, FlagsAreTrue, Row
<1>2. SeenIsSo'
  BY DEF FlagsInv, SeenIsSo, SelfCitedPapers, Row
<1> QED BY <1>1, <1>2 DEF FlagsInv

\* Every step keeps what a transaction saw true, or crossed.
LEMMA FlagsStep ==
  ASSUME FlagsInv, [CitationsNext]_citationVars
  PROVE  FlagsInv'
<1>0. /\ content \in [Work -> WorkContent] /\ change \in [Work -> Change]
      /\ \A w \in Work : NotItself(w, content[w]) /\ NotItself(w, change[w].new)
  BY DEF FlagsInv, ContentHolds
<1>1. CASE UNCHANGED citationVars
  BY <1>0, <1>1, OpenStep DEF citationVars
<1>2. ASSUME NEW w \in Work, OpenChange(w)
      PROVE  FlagsInv'
  <2>1. PICK c \in WorkContent : NotItself(w, c) /\ change' = [change EXCEPT ![w] = [Closed(c) EXCEPT !.at = "open"]]
    BY <1>2 DEF OpenChange
  <2> QED BY <1>0, <1>2, <2>1, ClosedIs, OpenStep DEF OpenChange
<1>3. ASSUME NEW w \in Work, RollbackChange(w)
      PROVE  FlagsInv'
  <2>1. change' = [change EXCEPT ![w] = Closed(content[w])] /\ UNCHANGED <<content, self, crossed>>
    BY <1>3 DEF RollbackChange
  <2>2. content[w] \in WorkContent
    BY <1>0
  <2>3. Closed(content[w]) \in Change /\ Closed(content[w]).at = "none" /\ Closed(content[w]).new = content[w]
    BY <2>2, ClosedIs
  <2>4. change' \in [Work -> Change]
    BY <1>0, <2>1, <2>3
  <2> QED BY <1>0, <2>1, <2>3, <2>4, OpenStep
<1>4. ASSUME NEW t \in toIndex, IndexCounts(t)
      PROVE  FlagsInv'
  BY <1>0, <1>4, OpenStep DEF IndexCounts
<1>5. ASSUME NEW w \in Work, LookUp(w)
      PROVE  FlagsInv'
  <2> DEFINE c == change[w].new
             seen == IF c.kind = "paper" THEN SelfCitedPapers(w, c) ELSE {}
  <2>1. /\ change' = [change EXCEPT ![w].at = "looked", ![w].same = seen]
        /\ UNCHANGED <<content, self, crossed>>
    BY <1>5 DEF LookUp
  <2>2. seen \in SUBSET Work
    BY DEF SelfCitedPapers
  <2> HIDE DEF seen
  <2>3. /\ change'[w] \in Change /\ change'[w].new = c /\ change'[w].same = seen /\ change'[w].at = "looked"
        /\ \A o \in Work \ {w} : change'[o] = change[o]
    <3>1. /\ change[w] \in Change /\ change'[w] = [[change[w] EXCEPT !.at = "looked"] EXCEPT !.same = seen]
          /\ \A o \in Work \ {w} : change'[o] = change[o]
      BY <1>0, <2>1
    <3> QED BY <2>2, <3>1 DEF Change
  <2>4. ContentHolds' /\ FlagsAreTrue'
    BY <1>0, <2>1, <2>3 DEF FlagsInv, ContentHolds, FlagsAreTrue, Row
  <2>5. SeenIsSo'
    <3> SUFFICES ASSUME NEW v \in Work, NEW o \in Work, change'[v].at = "looked", o \notin change'[v].since
                 PROVE  o \in change'[v].same <=>
                          /\ change'[v].new.kind = "paper"
                          /\ o \in SelfCitedPapers(v, change[v].new)'
      BY DEF SeenIsSo
    <3>1. change'[v].new = change[v].new
      BY <2>3
    <3>2. SelfCitedPapers(v, change[v].new)' = SelfCitedPapers(v, change[v].new)
      BY <2>1, <3>1 DEF SelfCitedPapers, Row, Cited, ShareAuthor, Writers
    <3>3. CASE v = w
      BY <2>3, <3>2, <3>3 DEF seen
    <3>4. CASE v # w
      BY <2>3, <3>2, <3>4 DEF FlagsInv, SeenIsSo
    <3> QED BY <3>3, <3>4
  <2> QED BY <2>4, <2>5 DEF FlagsInv
<1>6. ASSUME NEW w \in Work, CommitChange(w)
      PROVE  FlagsInv'
  <2> DEFINE c == change[w].new
  <2>1. /\ change[w].at = "looked" /\ c \in WorkContent
        /\ content' \in [Work -> WorkContent] /\ content'[w] = c /\ change'[w].new = c
        /\ \A o \in Work \ {w} : content'[o] = content[o]
        /\ change' \in [Work -> Change] /\ change'[w].at = "none"
        /\ \A o \in Work \ {w} :
             /\ change'[o].at = change[o].at /\ change'[o].new = change[o].new
             /\ change'[o].same = change[o].same
             /\ change'[o].since = IF change[o].at = "looked" THEN change[o].since \cup {w}
                                                              ELSE change[o].since
    BY <1>6, CommitIs DEF FlagsInv
  <2>2. ContentHolds'
    BY <2>1 DEF FlagsInv, ContentHolds
  <2>3. SeenIsSo'
    <3> SUFFICES ASSUME NEW v \in Work, NEW o \in Work, change'[v].at = "looked", o \notin change'[v].since
                 PROVE  o \in change'[v].same <=>
                          /\ change'[v].new.kind = "paper"
                          /\ o \in SelfCitedPapers(v, change[v].new)'
      BY DEF SeenIsSo
    <3>1. v # w /\ o # w /\ o \notin change[v].since /\ change[v].at = "looked"
      BY <2>1
    <3>2. content'[v] = content[v] /\ content'[o] = content[o]
      BY <2>1, <3>1
    <3>3. o \in SelfCitedPapers(v, change[v].new)' <=> o \in SelfCitedPapers(v, change[v].new)
      BY <2>1, <3>1, <3>2 DEF SelfCitedPapers, Row
    <3> QED BY <2>1, <3>1, <3>3 DEF FlagsInv, SeenIsSo
  <2>4. FlagsAreTrue'
    <3> SUFFICES ASSUME NEW y \in Work, NEW x \in Work, x \in Cited(content'[y]),
                        content'[x].kind = "paper", {y, x} \notin crossed'
                 PROVE  (<<y, x>> \in self') <=> ShareAuthor(content'[y], content'[x])
      BY DEF FlagsAreTrue, Row
    <3>1. crossed' = {p \in crossed : w \notin p} \cup {{w, o} : o \in change[w].since \cup Looking(w)}
      BY <1>6 DEF CommitChange
    <3>2. CASE y # w /\ x # w
      <4>1. {y, x} \notin crossed
        BY <3>1, <3>2
      <4>2. (<<y, x>> \in self') <=> (<<y, x>> \in self)
        BY <1>6, <3>2, FlagsAre
      <4> QED BY <2>1, <3>2, <4>1, <4>2 DEF FlagsInv, FlagsAreTrue, Row
    <3>3. ASSUME NEW o \in Work \ {w}, {w, o} \notin crossed'
          PROVE  o \in change[w].same <=> c.kind = "paper" /\ o \in SelfCitedPapers(w, c)
      <4>1. o \notin change[w].since
        BY <3>1, <3>3
      <4> QED BY <2>1, <4>1 DEF FlagsInv, SeenIsSo
    <3>4. CASE y = w /\ x # w
      <4>1. c.kind = "paper" /\ x \in Cited(c)
        BY <2>1, <3>4 DEF Cited
      <4>2. x \in change[w].same <=> ShareAuthor(c, content[x])
        BY <3>3, <3>4, <4>1 DEF SelfCitedPapers
      <4> QED BY <1>6, <2>1, <3>4, <4>1, <4>2, FlagsAre
    <3>5. CASE x = w /\ y # w
      <4>1. c.kind = "paper" /\ Row(y, w) /\ {w, y} \notin crossed'
        BY <2>1, <3>5 DEF Row
      <4>2. y \in change[w].same <=> ShareAuthor(c, content[y])
        BY <3>3, <3>5, <4>1 DEF SelfCitedPapers
      <4>3. ShareAuthor(c, content[y]) <=> ShareAuthor(content[y], c)
        BY DEF ShareAuthor
      <4> QED BY <1>6, <2>1, <3>5, <4>1, <4>2, <4>3, FlagsAre
    <3>6. CASE x = w /\ y = w
      BY <2>1, <3>6 DEF FlagsInv, ContentHolds, NotItself, Cited
    <3> QED BY <3>2, <3>4, <3>5, <3>6
  <2> QED BY <2>2, <2>3, <2>4 DEF FlagsInv
<1> QED BY <1>1, <1>2, <1>3, <1>4, <1>5, <1>6 DEF CitationsNext

\* What a transaction saw of another record still holds unless that committed
\* since; so the flags follow: the invariant behind FlagsAreTrue.
THEOREM FlagsInvHolds == CitationsSpec => []FlagsInv
BY FlagsInit, FlagsStep, PTL DEF CitationsSpec

\* Self-citations are flagged as such and nothing else is.
THEOREM FlagsAreTrueHolds == CitationsSpec => []FlagsAreTrue
BY FlagsInvHolds, PTL DEF FlagsInv

\* Types, once the contents are known to be what they are.
LEMMA WorkCounts == \A x, flags : CitationCount(x, flags) \in 0..Cardinality(Work)
<1> SUFFICES ASSUME NEW x, NEW flags PROVE CitationCount(x, flags) \in 0..Cardinality(Work)
  OBVIOUS
<1>1. PICK C : C = {y \in Work : Row(y, x) /\ <<y, x>> \notin flags} /\ C \subseteq Work
  OBVIOUS
<1>2. /\ Cardinality(C) \in Nat /\ Cardinality(Work) \in Nat
      /\ Cardinality(C) <= Cardinality(Work)
  BY <1>1, WorksAssumption, FS_Subset, FS_CardinalityType
<1> QED BY <1>1, <1>2 DEF CitationCount

\* Every step of the citations keeps the types.
LEMMA CitationsTypeStep ==
  ASSUME CitationsTypeOK, FlagsInv, FlagsInv', [CitationsNext]_citationVars
  PROVE  CitationsTypeOK'
<1>1. content' \in [Work -> WorkContent] /\ change' \in [Work -> Change]
  BY DEF FlagsInv, ContentHolds
<1>2. ASSUME NEW w \in Work, OpenChange(w) PROVE CitationsTypeOK'
  <2>1. changed' \in [Work -> 0..Changes]
    BY <1>2, WorksAssumption DEF OpenChange, CitationsTypeOK
  <2> QED BY <1>1, <1>2, <2>1 DEF OpenChange, CitationsTypeOK
<1>3. ASSUME NEW w \in Work, LookUp(w) \/ RollbackChange(w) PROVE CitationsTypeOK'
  BY <1>1, <1>3 DEF LookUp, RollbackChange, CitationsTypeOK
<1>4. ASSUME NEW w \in Work, CommitChange(w) PROVE CitationsTypeOK'
  <2>1. PICK c \in WorkContent, same \in SUBSET Work :
          c = change[w].new /\ same = change[w].same /\ change[w].since \subseteq Work
    BY DEF CitationsTypeOK, Change
  <2>2. Cited(c) \subseteq Work /\ c.refs \subseteq Work
    BY DEF Cited, WorkContent
  <2>3. FlagsOf(w, c, same) \subseteq Work \X Work
    BY <2>1, <2>2 DEF FlagsOf, CitationsTypeOK
  <2>4. self' \subseteq Work \X Work
    BY <1>4, <2>1, <2>3 DEF CommitChange, CitationsTypeOK
  <2>5. toIndex' \subseteq [rec : Work, old : WorkContent, new : WorkContent]
    BY <1>4, <2>1 DEF CommitChange, CitationsTypeOK
  <2>6. crossed' \subseteq SUBSET Work
    BY <1>4, <2>1 DEF CommitChange, Looking, CitationsTypeOK
  <2>7. unnoticed' \subseteq Work
    <3>1. unnoticed' = unnoticed \cup Overlooked(w, c, self') \cup change[w].since
      BY <1>4, <2>1 DEF CommitChange
    <3>2. Overlooked(w, c, self') \subseteq Work
      BY <2>2 DEF Overlooked
    <3> QED BY <2>1, <3>1, <3>2 DEF CitationsTypeOK
  <2>8. UNCHANGED <<shown, changed>>
    BY <1>4 DEF CommitChange
  <2> QED BY <1>1, <2>4, <2>5, <2>6, <2>7, <2>8 DEF CitationsTypeOK
<1>5. ASSUME NEW t \in toIndex, IndexCounts(t) PROVE CitationsTypeOK'
  <2>1. shown' \in [Work -> 0..Cardinality(Work)]
    BY <1>5, WorkCounts DEF IndexCounts, CitationsTypeOK
  <2> QED BY <1>1, <1>5, <2>1 DEF IndexCounts, CitationsTypeOK
<1>6. CASE UNCHANGED citationVars
  BY <1>6 DEF citationVars, CitationsTypeOK
<1> QED BY <1>2, <1>3, <1>4, <1>5, <1>6 DEF CitationsNext

\* Counts are at most the number of records, and flags and tasks are of records.
THEOREM CitationsTypes == CitationsSpec => []CitationsTypeOK
<1>1. CitationsInit => CitationsTypeOK
  <2> SUFFICES ASSUME CitationsInit PROVE CitationsTypeOK
    OBVIOUS
  <2>1. content \in [Work -> WorkContent] /\ change \in [Work -> Change]
    BY FlagsInit DEF FlagsInv, ContentHolds
  <2>2. shown \in [Work -> 0..Cardinality(Work)] /\ changed \in [Work -> 0..Changes]
    BY WorkCounts, WorksAssumption DEF CitationsInit
  <2> QED BY <2>1, <2>2 DEF CitationsInit, CitationsTypeOK
<1>2. CitationsTypeOK /\ FlagsInv /\ FlagsInv' /\ [CitationsNext]_citationVars => CitationsTypeOK'
  BY CitationsTypeStep
<1> QED BY <1>1, <1>2, FlagsInvHolds, PTL DEF CitationsSpec

-----------------------------------------------------------------------------
(* Counts                                                                  *)

\* What an index task, run now, would index.
Targets(t) == {t.rec} \cup ModifiedRefs(t) \cup Connected(t)

\* A count that is wrong in the index, and is noticed, has a task that indexes it.
CountComes(x) ==
  x \in unnoticed \/ shown[x] = CitationCount(x, self) \/ \E t \in toIndex : x \in Targets(t)

CountsInv ==
  /\ FlagsInv
  /\ DOMAIN shown = Work
  /\ \A t \in toIndex : t.rec \in Work
  /\ \A x \in Work : CountComes(x)

\* The count depends on nothing but the rows that cite x and their flags.
LEMMA CountSame ==
  ASSUME NEW x \in Work,
         \A y \in Work : (Row(y, x)' /\ <<y, x>> \notin self') <=> (Row(y, x) /\ <<y, x>> \notin self)
  PROVE  CitationCount(x, self)' = CitationCount(x, self)
<1>1. {y \in Work : Row(y, x)' /\ <<y, x>> \notin self'} = {y \in Work : Row(y, x) /\ <<y, x>> \notin self}
  OBVIOUS
<1> QED BY <1>1 DEF CitationCount

\* At the start the counts in the index are right.
LEMMA CountsStart == CitationsInit => CountsInv
BY FlagsInit DEF CitationsInit, CountsInv, CountComes

\* Steps that commit nothing and index nothing.
LEMMA CountStays ==
  ASSUME UNCHANGED <<content, self, shown, toIndex, unnoticed>>, NEW x \in Work, CountComes(x)
  PROVE  CountComes(x)'
<1>1. CitationCount(x, self)' = CitationCount(x, self)
  BY CountSame DEF Row
<1>2. ASSUME NEW t \in toIndex
      PROVE  Targets(t)' = Targets(t)
  BY DEF Targets, Connected, SelfCitedPapers, Row
<1> QED BY <1>1, <1>2 DEF CountComes

\* A record that w begins or ceases to cite is indexed by the task of the
\* commit, or is not noticed.
LEMMA RefsComeOrGo ==
  ASSUME ContentHolds, NEW w \in Work, CommitChange(w), NEW x \in Work, x # w,
         ~(x \in Cited(content[w]) <=> x \in Cited(change[w].new))
  PROVE  x \in unnoticed' \/ x \in ModifiedRefs([rec |-> w, old |-> content[w], new |-> change[w].new])
<1> DEFINE c == change[w].new
           d == content[w]
           t == [rec |-> w, old |-> d, new |-> c]
<1>1. c \in WorkContent /\ d \in WorkContent
  BY DEF ContentHolds, Change
<1>2. t.old = d /\ t.new = c
  OBVIOUS
<1>3. c.refs \subseteq unnoticed' \/ (c.kind = "hidden" <=> d.kind = "hidden")
  BY DEF CommitChange, Overlooked
<1> HIDE DEF c, d, t
<1>4. CASE c.kind = "paper" /\ d.kind = "paper"
  BY <1>2, <1>4 DEF Cited, ModifiedRefs, SymDiff, c, d
<1>5. CASE \E k \in {"deleted", "superseded"} : (t.old.kind = k) # (t.new.kind = k)
  BY <1>2, <1>5 DEF Cited, ModifiedRefs, c, d, t
<1>6. CASE /\ ~\E k \in {"deleted", "superseded"} : (t.old.kind = k) # (t.new.kind = k)
           /\ ~(c.kind = "paper" /\ d.kind = "paper")
  <2>1. (c.kind = "paper" /\ d.kind = "hidden") \/ (c.kind = "hidden" /\ d.kind = "paper")
    BY <1>1, <1>2, <1>6 DEF Cited, WorkContent, Kind, c, d
  <2>2. ModifiedRefs(t) = SymDiff(d.refs, c.refs) /\ c.refs \subseteq unnoticed'
    BY <1>2, <1>3, <1>6, <2>1 DEF ModifiedRefs
  <2> QED BY <2>1, <2>2 DEF Cited, SymDiff, c, d, t
<1> QED BY <1>4, <1>5, <1>6

\* The flag of a row that stays is cleared unnoticed, or set for an author that
\* w has got, whom the task of the commit looks for.
LEMMA FlagComesOrGoes ==
  ASSUME FlagsInv, NEW w \in Work, CommitChange(w), NEW x \in Work, x # w,
         x \in Cited(content[w]), x \in Cited(change[w].new),
         ~(<<w, x>> \in self' <=> <<w, x>> \in self),
         NEW t, t = [rec |-> w, old |-> content[w], new |-> change[w].new]
  PROVE  x \in unnoticed' \/ x \in Connected(t)'
<1> DEFINE c == change[w].new
           d == content[w]
<1>1. /\ c \in WorkContent /\ content'[w] = c /\ content'[x] = content[x] /\ change[w].at = "looked"
  BY CommitIs DEF FlagsInv
<1>2. /\ (<<w, x>> \in self /\ <<w, x>> \notin self') \/ ~FlagIsTrue(w, x) => x \in unnoticed'
      /\ change[w].since \subseteq unnoticed'
  BY DEF CommitChange, Overlooked
<1>3. c.kind = "paper" /\ d.kind = "paper"
  BY DEF Cited
<1>4. ASSUME x \notin unnoticed'
      PROVE  x \in Connected(t)'
  <2>1. <<w, x>> \in self' /\ <<w, x>> \notin self /\ ~ShareAuthor(d, content[x]) /\ x \notin change[w].since
    BY <1>2, <1>4 DEF FlagIsTrue
  <2>2. x \in change[w].same
    BY <1>3, <2>1, FlagsAre
  <2>3. x \in SelfCitedPapers(w, c)
    BY <1>1, <2>1, <2>2 DEF FlagsInv, SeenIsSo
  <2>4. PICK p : p \in Writers(c) /\ p \in Writers(content[x])
    BY <2>3 DEF SelfCitedPapers, ShareAuthor
  <2>5. p \in c.authors /\ p \notin d.authors
    BY <1>3, <2>1, <2>4 DEF Writers, ShareAuthor
  <2>6. p \in ModifiedAuthors(t)
    BY <2>5 DEF ModifiedAuthors, SymDiff
  <2>7. x \in {z \in Work \ {w} : (z \in Cited(content'[w]) \/ Row(z, w)') /\ ShareAuthor(content'[w], content'[z])}
    BY <1>1, <2>4 DEF ShareAuthor
  <2>8. x \in SelfCitedPapers(w, content[w])'
    BY <2>7 DEF SelfCitedPapers, ShareAuthor, Writers, Cited
  <2> QED BY <1>1, <2>4, <2>6, <2>8 DEF Connected, Writers, ModifiedAuthors, SymDiff
<1> QED BY <1>4

\* What another task would have indexed and now would not is indexed by the task
\* of the commit, or is not noticed.
LEMMA TargetsStay ==
  ASSUME FlagsInv, NEW w \in Work, CommitChange(w), NEW x \in Work, x # w,
         NEW s \in toIndex, s.rec \in Work, x \in Targets(s)
  PROVE  \/ x \in unnoticed' \/ x \in Targets(s)'
         \/ x \in ModifiedRefs([rec |-> w, old |-> content[w], new |-> change[w].new])
<1> DEFINE c == change[w].new
           d == content[w]
<1>1. /\ content \in [Work -> WorkContent] /\ content'[w] = c /\ content'[x] = content[x]
      /\ \A o \in Work \ {w} : content'[o] = content[o]
      /\ change[w].at = "looked"
  BY CommitIs DEF FlagsInv, ContentHolds
<1>2. CASE x \in {s.rec} \cup ModifiedRefs(s)
  BY <1>2 DEF Targets
<1>3. CASE ModifiedAuthors(s) # {} /\ Row(x, s.rec)
  BY <1>1, <1>3 DEF Targets, Connected, Row
<1>4. CASE /\ ModifiedAuthors(s) # {} /\ x \in SelfCitedPapers(s.rec, content[s.rec])
           /\ Writers(content[x]) \cap ModifiedAuthors(s) # {} /\ ~Row(x, s.rec)
  <2>1. CASE s.rec # w
    <3>1. content'[s.rec] = content[s.rec]
      BY <1>1, <2>1
    <3> QED BY <1>1, <1>4, <3>1 DEF Targets, Connected, SelfCitedPapers, Row
  <2>2. CASE s.rec = w
    <3>1. x \in Cited(d) /\ ShareAuthor(d, content[x])
      BY <1>4, <2>2 DEF SelfCitedPapers
    <3>2. CASE x \notin Cited(c)
      BY <3>1, <3>2, RefsComeOrGo DEF FlagsInv
    <3>3. CASE x \in Cited(c) /\ ShareAuthor(c, content[x])
      BY <1>1, <1>4, <2>2, <3>3 DEF Targets, Connected, SelfCitedPapers
    <3>4. CASE x \in Cited(c) /\ ~ShareAuthor(c, content[x])
      <4>1. /\ (<<w, x>> \in self /\ <<w, x>> \notin self') \/ ~FlagIsTrue(w, x) => x \in unnoticed'
            /\ change[w].since \subseteq unnoticed'
        BY <3>4 DEF CommitChange, Overlooked
      <4>2. c.kind = "paper"
        BY <3>4 DEF Cited
      <4>3. <<w, x>> \in self' => x \in change[w].since
        BY <1>1, <3>4, <4>2, FlagsAre DEF FlagsInv, SeenIsSo, SelfCitedPapers
      <4> QED BY <3>1, <4>1, <4>3 DEF FlagIsTrue
    <3> QED BY <3>2, <3>3, <3>4
  <2> QED BY <2>1, <2>2
<1> QED BY <1>2, <1>3, <1>4 DEF Targets, Connected

\* A commit that makes a count wrong sends a task that finds it, or the record
\* is unnoticed.
LEMMA CountCommit ==
  ASSUME FlagsInv, NEW w \in Work, CommitChange(w), NEW x \in Work, CountComes(x),
         \A s \in toIndex : s.rec \in Work
  PROVE  CountComes(x)'
<1> DEFINE c == change[w].new
           d == content[w]
<1> PICK t : t = [rec |-> w, old |-> d, new |-> c]
  OBVIOUS
<1>1. /\ toIndex' = toIndex \cup {t} /\ unnoticed \subseteq unnoticed' /\ UNCHANGED shown
  BY DEF CommitChange
<1>2. /\ content'[w] = c /\ \A o \in Work \ {w} : content'[o] = content[o]
  BY CommitIs DEF FlagsInv
<1>3. CASE x = w
  BY <1>1, <1>3 DEF CountComes, Targets
<1>4. CASE x # w
  <2>1. CASE \E s \in toIndex : x \in Targets(s)
    <3> PICK s \in toIndex : x \in Targets(s)
      BY <2>1
    <3>1. x \in unnoticed' \/ x \in Targets(s)' \/ x \in ModifiedRefs(t)
      BY <1>4, TargetsStay
    <3>2. x \in ModifiedRefs(t) => x \in Targets(t)'
      BY DEF Targets, ModifiedRefs, SymDiff
    <3> QED BY <1>1, <3>1, <3>2 DEF CountComes
  <2>2. CASE shown[x] = CitationCount(x, self)
    <3>1. CASE ~(x \in Cited(d) <=> x \in Cited(c))
      <4>1. x \in unnoticed' \/ x \in ModifiedRefs(t)
        BY <1>4, <3>1, RefsComeOrGo DEF FlagsInv
      <4>2. x \in ModifiedRefs(t) => x \in Targets(t)'
        BY DEF Targets, ModifiedRefs, SymDiff
      <4> QED BY <1>1, <4>1, <4>2 DEF CountComes
    <3>2. CASE x \in Cited(d) /\ x \in Cited(c) /\ ~(<<w, x>> \in self' <=> <<w, x>> \in self)
      <4>1. x \in unnoticed' \/ x \in Connected(t)'
        BY <1>4, <3>2, FlagComesOrGoes
      <4>2. x \in Connected(t)' => x \in Targets(t)'
        BY DEF Targets
      <4> QED BY <1>1, <4>1, <4>2 DEF CountComes
    <3>3. CASE /\ x \in Cited(d) <=> x \in Cited(c)
               /\ x \in Cited(d) => (<<w, x>> \in self' <=> <<w, x>> \in self)
      <4>1. ASSUME NEW y \in Work
            PROVE  (Row(y, x)' /\ <<y, x>> \notin self') <=> (Row(y, x) /\ <<y, x>> \notin self)
        <5>1. CASE y = w
          BY <1>2, <3>3, <5>1 DEF Row
        <5>2. CASE y # w
          <6>1. <<y, x>> \in self' <=> <<y, x>> \in self
            BY <1>4, <5>2, FlagsAre
          <6> QED BY <1>2, <5>2, <6>1 DEF Row
        <5> QED BY <5>1, <5>2
      <4>2. CitationCount(x, self)' = CitationCount(x, self)
        BY <4>1, CountSame
      <4> QED BY <1>1, <2>2, <4>2 DEF CountComes
    <3> QED BY <3>1, <3>2, <3>3
  <2>3. CASE x \in unnoticed
    BY <1>1, <2>3 DEF CountComes
  <2> QED BY <2>1, <2>2, <2>3 DEF CountComes
<1> QED BY <1>3, <1>4

\* An index task leaves its targets with the count they have.
LEMMA CountIndexed ==
  ASSUME DOMAIN shown = Work, NEW t \in toIndex, IndexCounts(t), NEW x \in Work, CountComes(x)
  PROVE  CountComes(x)'
<1>1. /\ toIndex' = toIndex \ {t} /\ unnoticed' = unnoticed \ Targets(t)
      /\ shown' = [z \in Work |-> IF z \in Targets(t) THEN CitationCount(z, self) ELSE shown[z]]
      /\ UNCHANGED <<content, self>>
  BY DEF IndexCounts, Targets
<1>2. CitationCount(x, self)' = CitationCount(x, self)
  BY <1>1, CountSame DEF Row
<1>3. ASSUME NEW s \in toIndex
      PROVE  Targets(s)' = Targets(s)
  BY <1>1 DEF Targets, Connected, SelfCitedPapers, Row
<1>4. CASE x \in Targets(t)
  BY <1>1, <1>2, <1>4 DEF CountComes
<1>5. CASE x \notin Targets(t)
  BY <1>1, <1>2, <1>3, <1>5 DEF CountComes
<1> QED BY <1>4, <1>5

\* Every step leaves a wrong count with a task on its way.
LEMMA CountsStep ==
  ASSUME CountsInv, [CitationsNext]_citationVars
  PROVE  CountsInv'
<1> DEFINE Counted == /\ DOMAIN shown = Work
                      /\ \A t \in toIndex : t.rec \in Work
                      /\ \A x \in Work : CountComes(x)
<1>1. FlagsInv'
  BY FlagsStep DEF CountsInv
<1>2. Counted'
  <2>1. CASE UNCHANGED citationVars
    BY <2>1, CountStays DEF CountsInv, citationVars
  <2>2. ASSUME NEW w \in Work, OpenChange(w) \/ LookUp(w) \/ RollbackChange(w)
        PROVE  Counted'
    <3>1. UNCHANGED <<content, self, shown, toIndex, unnoticed>>
      BY <2>2 DEF OpenChange, LookUp, RollbackChange
    <3> QED BY <3>1, CountStays DEF CountsInv
  <2>3. ASSUME NEW w \in Work, CommitChange(w)
        PROVE  Counted'
    <3>1. UNCHANGED shown /\ toIndex' = toIndex \cup {[rec |-> w, old |-> content[w], new |-> change[w].new]}
      BY <2>3 DEF CommitChange
    <3> QED BY <2>3, <3>1, CountCommit DEF CountsInv
  <2>4. ASSUME NEW t \in toIndex, IndexCounts(t)
        PROVE  Counted'
    <3>1. DOMAIN shown' = Work /\ toIndex' \subseteq toIndex
      BY <2>4 DEF IndexCounts
    <3> QED BY <2>4, <3>1, CountIndexed DEF CountsInv
  <2> QED BY <2>1, <2>2, <2>3, <2>4 DEF CitationsNext
<1> QED BY <1>1, <1>2 DEF CountsInv

\* A count in the index that is wrong is unnoticed or a task of index_records
\* that will correct it is on its way.
THEOREM CountsInvHolds == CitationsSpec => []CountsInv
BY CountsStart, CountsStep, PTL DEF CitationsSpec

\* When the index tasks are done every count is shown, but where they do not look.
THEOREM CountsAreShownHolds == CitationsSpec => []CountsAreShown
<1>1. CountsInv => CountsAreShown
  BY DEF CountsInv, CountComes, CountsAreShown
<1> QED BY <1>1, CountsInvHolds, PTL

-----------------------------------------------------------------------------
(* PIDs, links, author workflows and citations together                    *)

\* A behaviour of the parts, as MCRecords puts them together, is a behaviour of
\* each: what is proved of one holds there too.
THEOREM RecordPartsAreParts ==
  PartsSpec => Spec /\ LinksSpec /\ AuthorsSpec /\ CitationsSpec
<1>1. PartsInit => Init /\ LinksInit /\ AuthorsInit /\ CitationsInit
  BY DEF PartsInit
<1>2. [PartsNext]_partVars => [Next]_vars
  BY DEF PartsNext, partVars
<1>3. [PartsNext]_partVars => [LinksNext]_linksVars
  BY DEF PartsNext, partVars
<1>4. [PartsNext]_partVars => [AuthorsNext]_authorVars
  BY DEF PartsNext, partVars
<1>5. [PartsNext]_partVars => [CitationsNext]_citationVars
  BY DEF PartsNext, partVars
<1> QED
  BY <1>1, <1>2, <1>3, <1>4, <1>5, PTL DEF PartsSpec, Spec, LinksSpec, AuthorsSpec, CitationsSpec

\* The types of all parts, there too.
THEOREM RecordPartsTypes == PartsSpec => []TypesOK
<1>1. TypeOK /\ LinksTypeOK /\ AuthorsTypeOK /\ CitationsTypeOK => TypesOK
  BY DEF TypesOK
<1> QED
  BY <1>1, RecordPartsAreParts, TypeCorrect, LinksTypes, AuthorsTypes, CitationsTypes, PTL
=============================================================================
