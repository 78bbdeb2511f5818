---------------------------- MODULE PushesProofs ----------------------------
(* What pushes to HAL and to ORCID leave behind, for every number of       *)
(* records, identifiers, versions and workers.                             *)
EXTENDS MCPushes, TLAPS

-----------------------------------------------------------------------------
(* HAL                                                                     *)

\* The text of the paper is that of the last edit, and edits have their version
\* as text; once a text has its deposit's id it keeps it.
PaperHolds ==
  /\ \A v \in 1..Len(paper) : paper[v].text \in 1..v /\ (paper[v].edited => paper[v].text = v)
  /\ \A u, v \in 1..Len(paper) : u <= v => paper[u].text <= paper[v].text
  /\ \A v \in 1..Len(paper) : paper[v].text = Current.text /\ paper[v].hal => Current.hal
  /\ \A d \in draft : d.edited /\ d.text = Len(paper) + 1 /\ d.text <= PaperVersions

IsLastEdit(v) ==
  /\ v \in 1..Len(paper) /\ paper[v].edited /\ \A u \in (v + 1)..Len(paper) : ~paper[u].edited
  /\ Current.text = v
  /\ "overwritten" \notin wrong => Current.ids = paper[v].ids
EditIsLast == \E v \in 1..Len(paper) : IsLastEdit(v)

HasLock(j) == pusher[j].at \in {"locked", "answered", "reloaded"}
LockHolds == \A j, k \in Pusher : HasLock(j) /\ HasLock(k) => j = k

\* A task has loaded a version no older than its own; while it has the lock, HAL
\* has what it sent.
PusherHolds(j) ==
  /\ ~Pushing(j, "idle") =>
       1 <= pusher[j].task /\ pusher[j].task <= pusher[j].seen /\ pusher[j].seen <= Len(paper)
  /\ pusher[j].at \in {"answered", "reloaded"} => deposit = Sent(j).text

\* The task of the last edit waits or runs, or HAL has that text, or had it.
Carried ==
  \/ Current.text \in pushes
  \/ \E j \in Pusher : ~Pushing(j, "idle") /\ pusher[j].task = Current.text
Arrived == Current.hal /\ (deposit = Current.text \/ "overtaken" \in wrong)
TaskHolds ==
  "given up" \notin wrong =>
    /\ draft # {} => Len(paper) + 1 \in pushes
    /\ Carried \/ Arrived

PaperInv == HalTypeOK /\ PaperHolds /\ EditIsLast
HalInv == PaperInv /\ (\A j \in Pusher : PusherHolds(j)) /\ LockHolds /\ TaskHolds

\* What a task has loaded is a version of the paper.
LEMMA SentIs ==
  ASSUME HalInv, NEW j \in Pusher, ~Pushing(j, "idle")
  PROVE  /\ pusher[j].seen \in 1..Len(paper) /\ Sent(j) \in Paper
         /\ Sent(j).text \in 1..Current.text
         /\ Current \in Paper /\ Len(paper) \in 1..PaperVersions /\ Current.text \in 1..Len(paper)
         /\ Sent(j).text = Current.text /\ Sent(j).hal => Current.hal
         /\ pusher[j].task = Current.text => Sent(j).text = Current.text
<1>1. /\ paper \in Seq(Paper) /\ Len(paper) \in 1..PaperVersions /\ pusher[j] \in PusherState
      /\ PaperHolds /\ PusherHolds(j) /\ EditIsLast
  BY DEF HalInv, PaperInv, HalTypeOK
<1>2. Len(paper) \in Nat \ {0} /\ Len(paper) \in 1..Len(paper)
  BY <1>1, VersionsAssumption
<1>3. pusher[j].seen \in 1..Len(paper) /\ pusher[j].task \in 1..pusher[j].seen
  BY <1>1, <1>2 DEF PusherHolds, PusherState
<1>4. Sent(j) \in Paper /\ Current \in Paper
  BY <1>1, <1>2, <1>3 DEF Sent, Current
<1>5. Sent(j).text <= Current.text /\ Sent(j).text >= 1
  BY <1>1, <1>2, <1>3 DEF Sent, Current, PaperHolds
<1>6. Current.text \in 1..Len(paper) /\ Sent(j).text \in Nat
  BY <1>1, <1>2, <1>4 DEF PaperHolds, Current, Paper
<1>7. ASSUME pusher[j].task = Current.text
      PROVE  Sent(j).text = Current.text
  <2>1. PICK v \in 1..Len(paper) : IsLastEdit(v)
    BY <1>1 DEF EditIsLast
  <2>2. paper[v].text = v /\ Current.text = v
    BY <1>1, <2>1 DEF IsLastEdit, PaperHolds
  <2>3. v <= pusher[j].seen /\ pusher[j].seen \in 1..Len(paper)
    BY <1>3, <1>7, <2>2
  <2>4. v <= Sent(j).text
    BY <1>1, <2>1, <2>2, <2>3 DEF PaperHolds, Sent
  <2> QED BY <1>5, <1>6, <2>2, <2>4
<1> QED BY <1>1, <1>2, <1>3, <1>4, <1>5, <1>6, <1>7 DEF PaperHolds, Sent

\* A new version that is an edit, or has the text of the one before with its id.
LEMMA AppendStep ==
  ASSUME PaperInv, NEW d \in Paper, paper' = Append(paper, d), draft' = {},
         Len(paper) < PaperVersions,
         \/ d.edited /\ d.text = Len(paper) + 1
         \/ /\ ~d.edited /\ d.hal /\ d.text = Current.text
            /\ "overwritten" \notin wrong' => "overwritten" \notin wrong /\ d.ids = Current.ids
  PROVE  /\ PaperHolds' /\ EditIsLast'
         /\ paper' \in Seq(Paper) /\ Len(paper)' \in 1..PaperVersions
         /\ Current' = d /\ Len(paper)' = Len(paper) + 1
         /\ \A v \in 1..Len(paper) : paper'[v] = paper[v]
<1>0. paper \in Seq(Paper) /\ Len(paper) \in 1..PaperVersions /\ PaperVersions \in Nat
  BY VersionsAssumption DEF PaperInv, HalTypeOK
<1> PICK n \in Nat : n = Len(paper)
  BY <1>0
<1>1. paper \in Seq(Paper) /\ n = Len(paper) /\ n \in 1..PaperVersions /\ n \in Nat /\ PaperVersions \in Nat
  BY <1>0
<1>2. /\ paper' \in Seq(Paper) /\ Len(paper)' = n + 1 /\ Len(paper)' \in 1..PaperVersions
      /\ paper'[n + 1] = d /\ \A v \in 1..n : paper'[v] = paper[v]
  BY <1>1
<1>3. Current' = d /\ Current = paper[n]
  BY <1>2 DEF Current
<1>4. \A v \in 1..n : paper[v].text \in Nat
  <2>1. \A v \in 1..n : paper[v] \in Paper
    BY <1>1
  <2> QED BY <2>1 DEF Paper
<1>5. PICK e \in 1..n : IsLastEdit(e)
  BY DEF PaperInv, EditIsLast
<1>6. Current.text \in 1..n /\ \A v \in 1..n : paper[v].text <= Current.text
  BY <1>1, <1>3, <1>4 DEF PaperInv, PaperHolds
<1>7. d.text \in 1..(n + 1) /\ Current.text <= d.text /\ (d.edited => d.text = n + 1)
  BY <1>1, <1>6
<1>8. PaperHolds'
  <2>1. \A v \in 1..(n + 1) : paper'[v].text \in 1..v /\ (paper'[v].edited => paper'[v].text = v)
    BY <1>1, <1>2, <1>7 DEF PaperInv, PaperHolds
  <2>2. \A u, v \in 1..(n + 1) : u <= v => paper'[u].text <= paper'[v].text
    BY <1>1, <1>2, <1>4, <1>6, <1>7 DEF PaperInv, PaperHolds
  <2>3. ASSUME NEW v \in 1..(n + 1), paper'[v].text = d.text, paper'[v].hal
        PROVE  d.hal
    <3>1. CASE v = n + 1
      BY <1>2, <2>3, <3>1
    <3>2. CASE v \in 1..n
      <4>1. paper[v].text = d.text
        BY <1>2, <2>3, <3>2
      <4> QED BY <1>1, <1>6, <3>2, <4>1
    <3> QED BY <1>1, <3>1, <3>2
  <2> QED BY <1>2, <1>3, <2>1, <2>2, <2>3 DEF PaperHolds
<1>9. EditIsLast'
  <2>1. CASE d.edited /\ d.text = n + 1
    <3>1. IsLastEdit(n + 1)'
      BY <1>1, <1>2, <1>3, <2>1 DEF IsLastEdit
    <3> QED BY <1>1, <1>2, <3>1 DEF EditIsLast
  <2>2. CASE /\ ~d.edited /\ d.text = Current.text
             /\ "overwritten" \notin wrong' => "overwritten" \notin wrong /\ d.ids = Current.ids
    <3>1. IsLastEdit(e)'
      BY <1>1, <1>2, <1>3, <1>5, <2>2 DEF IsLastEdit
    <3> QED BY <1>1, <1>2, <3>1 DEF EditIsLast
  <2> QED BY <2>1, <2>2
<1> QED BY <1>2, <1>3, <1>8, <1>9

\* A step that leaves the paper leaves what its versions say.
LEMMA SamePaper ==
  ASSUME PaperInv, paper' = paper, draft' \subseteq draft,
         "overwritten" \notin wrong' => "overwritten" \notin wrong
  PROVE  PaperHolds' /\ EditIsLast' /\ Current' = Current
<1>1. Current' = Current
  BY DEF Current
<1>2. PICK e \in 1..Len(paper) : IsLastEdit(e)
  BY DEF PaperInv, EditIsLast
<1>3. IsLastEdit(e)'
  BY <1>1, <1>2 DEF IsLastEdit
<1> QED BY <1>1, <1>3 DEF PaperInv, PaperHolds, EditIsLast

\* The worker that takes a step, and the others.
LEMMA OnePusher ==
  ASSUME HalInv, NEW j \in Pusher, NEW s \in PusherState, GoOn(j, s),
         Len(paper) \in Nat /\ Len(paper)' \in Nat /\ Len(paper) <= Len(paper)',
         \A v \in 1..Len(paper) : paper'[v] = paper[v],
         s.at = "idle" \/ (1 <= s.task /\ s.task <= s.seen /\ s.seen <= Len(paper)),
         s.at \in {"idle", "loaded"} \/ HasLock(j) \/ \A k \in Pusher : ~HasLock(k),
         s.at \in {"answered", "reloaded"} => deposit' = paper[s.seen].text,
         deposit' = deposit \/ HasLock(j)
  PROVE  /\ pusher' \in [Pusher -> PusherState] /\ pusher'[j] = s
         /\ \A k \in Pusher \ {j} : pusher'[k] = pusher[k]
         /\ \A k \in Pusher : PusherHolds(k)'
         /\ LockHolds'
<1>1. /\ pusher' \in [Pusher -> PusherState] /\ pusher'[j] = s
      /\ \A k \in Pusher \ {j} : pusher'[k] = pusher[k]
  BY DEF HalInv, PaperInv, HalTypeOK, GoOn
<1>2. LockHolds'
  BY <1>1 DEF HalInv, LockHolds, HasLock
<1>3. PusherHolds(j)'
  BY <1>1 DEF PusherHolds, Pushing, Sent, PusherState
<1>4. ASSUME NEW k \in Pusher \ {j}
      PROVE  PusherHolds(k)'
  <2>1. PusherHolds(k) /\ pusher'[k] = pusher[k] /\ pusher[k] \in PusherState
    BY <1>1, <1>4 DEF HalInv, PaperInv, HalTypeOK
  <2>2. pusher[k].at \in {"answered", "reloaded"} => deposit' = deposit
    BY <1>4 DEF HalInv, LockHolds, HasLock
  <2> QED BY <2>1, <2>2 DEF PusherHolds, Pushing, Sent, PusherState
<1> QED BY <1>1, <1>2, <1>3, <1>4

\* Every step of the pushes to HAL keeps the invariant.
LEMMA HalStep ==
  ASSUME HalInv, [HalNext]_halVars
  PROVE  HalInv'
<1>0. /\ HalTypeOK /\ PaperHolds /\ PaperInv /\ LockHolds
      /\ paper \in Seq(Paper) /\ Len(paper) \in 1..PaperVersions
      /\ Len(paper) \in Nat /\ PaperVersions \in Nat /\ Current.text \in 1..Len(paper)
      /\ Current \in Paper /\ pushes \subseteq 1..PaperVersions
  <2>1. /\ HalTypeOK /\ PaperHolds /\ PaperInv /\ LockHolds
        /\ paper \in Seq(Paper) /\ Len(paper) \in 1..PaperVersions
        /\ Len(paper) \in Nat /\ PaperVersions \in Nat /\ pushes \subseteq 1..PaperVersions
    BY VersionsAssumption DEF HalInv, PaperInv, HalTypeOK
  <2> QED BY <2>1 DEF PaperHolds, Current
<1>a. /\ Len(paper) \in Nat /\ Len(paper) <= PaperVersions /\ PaperVersions \in Nat
      /\ Current.text \in 1..Len(paper) /\ pushes \subseteq 1..PaperVersions
  BY <1>0
<1>1. CASE EditPaper
  <2>1. PICK ids \in SUBSET Ext, hal \in {FALSE, Current.hal} :
          draft' = {[text |-> Len(paper) + 1, ids |-> ids, hal |-> hal, edited |-> TRUE]}
    BY <1>1 DEF EditPaper
  <2>2. Current.hal \in BOOLEAN
    BY <1>0 DEF Paper
  <2>3. draft' \in SUBSET Paper
    <3>1. hal \in BOOLEAN /\ Len(paper) + 1 \in Nat
      <4>1. hal \in BOOLEAN
        BY <2>2
      <4>2. Len(paper) \in Nat
        BY <1>a
      <4>3. Len(paper) + 1 \in Nat
        BY <4>2
      <4> QED BY <4>1, <4>3
    <3>2. [text |-> Len(paper) + 1, ids |-> ids, hal |-> hal, edited |-> TRUE] \in Paper
      BY <3>1 DEF Paper
    <3> QED BY <2>1, <3>2
  <2>4. Current' = Current
    BY <1>1 DEF EditPaper, Current
  <2>5. HalTypeOK'
    <3>1. pushes' \subseteq 1..PaperVersions
      <4>1. pushes' = pushes \cup {Len(paper) + 1} /\ Len(paper) < PaperVersions
        BY <1>1 DEF EditPaper
      <4>2. Len(paper) + 1 \in 1..PaperVersions
        BY <1>a, <4>1
      <4> QED BY <1>a, <4>1, <4>2
    <3> QED BY <1>0, <1>1, <2>3, <3>1 DEF EditPaper, HalTypeOK
  <2>6. PaperHolds' /\ EditIsLast'
    BY <1>0, <1>1, <2>1, <2>4 DEF EditPaper, PaperHolds, PaperInv, EditIsLast, IsLastEdit
  <2>7. \A j \in Pusher : PusherHolds(j)'
    BY <1>1 DEF EditPaper, HalInv, PusherHolds, Pushing, Sent
  <2>8. LockHolds' /\ TaskHolds'
    BY <1>0, <1>1, <2>4 DEF EditPaper, HalInv, LockHolds, HasLock, TaskHolds, Carried, Arrived, Pushing
  <2> QED BY <2>5, <2>6, <2>7, <2>8 DEF HalInv, PaperInv
<1>2. CASE CommitPaper
  <2>1. PICK d \in draft : paper' = Append(paper, d)
    BY <1>2 DEF CommitPaper
  <2>2. d \in Paper /\ d.edited /\ d.text = Len(paper) + 1 /\ Len(paper) < PaperVersions
    BY <1>0, <2>1 DEF HalTypeOK, PaperHolds
  <2>3. /\ PaperHolds' /\ EditIsLast' /\ paper' \in Seq(Paper) /\ Len(paper)' \in 1..PaperVersions
        /\ Current' = d /\ Len(paper)' = Len(paper) + 1 /\ \A v \in 1..Len(paper) : paper'[v] = paper[v]
    BY <1>0, <1>2, <2>1, <2>2, AppendStep DEF CommitPaper
  <2>4. HalTypeOK'
    BY <1>0, <1>2, <2>3 DEF CommitPaper, HalTypeOK
  <2>5. ASSUME NEW j \in Pusher
        PROVE  PusherHolds(j)'
    <3>1. PusherHolds(j) /\ pusher[j] \in PusherState
      BY <1>0 DEF HalInv, HalTypeOK
    <3> QED BY <1>0, <1>2, <2>3, <3>1 DEF CommitPaper, PusherHolds, Pushing, Sent, PusherState
  <2>6. LockHolds' /\ TaskHolds'
    BY <1>0, <1>2, <2>1, <2>2, <2>3 DEF CommitPaper, HalInv, LockHolds, HasLock, TaskHolds, Carried
  <2> QED BY <2>3, <2>4, <2>5, <2>6 DEF HalInv, PaperInv
<1>3. CASE RollbackPaper \/ UNCHANGED halVars
  <2>1. UNCHANGED <<paper, pushes, pusher, deposit, wrong>> /\ draft' \subseteq draft
    BY <1>3 DEF RollbackPaper, halVars
  <2>2. PaperHolds' /\ EditIsLast' /\ Current' = Current
    BY <1>0, <2>1, SamePaper
  <2>3. HalTypeOK' /\ LockHolds' /\ \A j \in Pusher : PusherHolds(j)'
    BY <1>0, <2>1 DEF HalInv, HalTypeOK, LockHolds, HasLock, PusherHolds, Pushing, Sent
  <2>4. TaskHolds'
    BY <2>1, <2>2 DEF HalInv, TaskHolds, Carried, Arrived, Pushing
  <2> QED BY <2>2, <2>3, <2>4 DEF HalInv, PaperInv
<1>4. ASSUME NEW v \in pushes, DropPush(v)
      PROVE  HalInv'
  <2>1. PaperHolds' /\ EditIsLast' /\ Current' = Current
    BY <1>0, <1>4, SamePaper DEF DropPush
  <2>2. HalTypeOK' /\ LockHolds' /\ \A j \in Pusher : PusherHolds(j)'
    BY <1>0, <1>4 DEF DropPush, HalInv, HalTypeOK, LockHolds, HasLock, PusherHolds, Pushing, Sent, Cause
  <2>3. v > Len(paper) /\ v # Current.text
    <3>1. v > Len(paper)
      BY <1>4 DEF DropPush
    <3>2. v \in 1..PaperVersions
      BY <1>a
    <3>3. Current.text \in Nat /\ Current.text <= Len(paper)
      BY <1>a
    <3>4. v # Current.text
      BY <3>1, <3>2, <3>3
    <3> QED BY <3>1, <3>4
  <2>4. TaskHolds'
    BY <1>0, <1>4, <2>1, <2>3 DEF DropPush, HalInv, TaskHolds, Carried, Arrived, Pushing
  <2> QED BY <2>1, <2>2, <2>4 DEF HalInv, PaperInv
<1>5. ASSUME NEW j \in Pusher, LoadPaper(j)
      PROVE  HalInv'
  <2>1. PICK v \in pushes :
          /\ v <= Len(paper) /\ pushes' = pushes \ {v}
          /\ GoOn(j, [at |-> "loaded", task |-> v, base |-> Len(paper), seen |-> Len(paper)])
    BY <1>5 DEF LoadPaper
  <2> DEFINE s == [at |-> "loaded", task |-> v, base |-> Len(paper), seen |-> Len(paper)]
  <2>2. v \in 1..Len(paper) /\ s \in PusherState
    BY <1>0, <2>1 DEF HalTypeOK, PusherState
  <2>3. PaperHolds' /\ EditIsLast' /\ Current' = Current
    BY <1>0, <1>5, SamePaper DEF LoadPaper
  <2>4. /\ pusher' \in [Pusher -> PusherState] /\ pusher'[j] = s
        /\ \A k \in Pusher \ {j} : pusher'[k] = pusher[k]
        /\ \A k \in Pusher : PusherHolds(k)'
        /\ LockHolds'
    BY <1>0, <1>5, <2>1, <2>2, OnePusher DEF LoadPaper
  <2>5. HalTypeOK'
    BY <1>0, <1>5, <2>1, <2>4 DEF LoadPaper, HalTypeOK
  <2>6. Carried => Carried'
    BY <1>5, <2>1, <2>3, <2>4 DEF LoadPaper, Carried, Pushing
  <2>7. TaskHolds'
    <3>1. UNCHANGED <<paper, draft, deposit, wrong>> /\ (Arrived => Arrived')
      BY <1>5, <2>3 DEF LoadPaper, Arrived
    <3>2. Len(paper) + 1 # v
      BY <1>a, <2>2
    <3>3. Len(paper) + 1 \in pushes => Len(paper) + 1 \in pushes'
      BY <2>1, <3>2
    <3> QED BY <2>6, <3>1, <3>3 DEF HalInv, TaskHolds
  <2> QED BY <2>3, <2>4, <2>5, <2>7 DEF HalInv, PaperInv
<1>6. ASSUME NEW j \in Pusher, NEW at \in {"locked", "answered", "reloaded"}, NEW base \in Nat,
             GoOn(j, [pusher[j] EXCEPT !.at = at, !.base = base]), ~Pushing(j, "idle"),
             HasLock(j) \/ (at = "locked" /\ \A k \in Pusher : ~HasLock(k)),
             at # "locked" => deposit' = Sent(j).text,
             deposit' \in {deposit, Sent(j).text} /\ (deposit' = deposit \/ HasLock(j)),
             wrong' \subseteq Cause /\ wrong \ {"overtaken"} \subseteq wrong',
             deposit' # deposit /\ Sent(j).text < deposit => "overtaken" \in wrong',
             "overtaken" \in wrong /\ "overtaken" \notin wrong' => deposit' = Current.text,
             UNCHANGED <<paper, draft, pushes>>
      PROVE  HalInv'
  <2>1. PICK s \in PusherState :
          GoOn(j, s) /\ s.seen = pusher[j].seen /\ s.task = pusher[j].task /\ s.at = at
    <3>1. pusher[j] \in PusherState
      BY <1>0 DEF HalTypeOK
    <3>2. [pusher[j] EXCEPT !.at = at, !.base = base] \in PusherState
      BY <3>1 DEF PusherState
    <3> QED BY <1>6, <3>1, <3>2 DEF PusherState
  <2>2. /\ pusher[j].seen \in 1..Len(paper) /\ Sent(j) \in Paper
        /\ Sent(j).text \in 1..Current.text
    BY <1>6, SentIs
  <2>3. PaperHolds' /\ EditIsLast' /\ Current' = Current
    BY <1>0, <1>6, SamePaper
  <2>4. 1 <= s.task /\ s.task <= s.seen /\ s.seen <= Len(paper)
    BY <1>6, <2>1 DEF HalInv, PusherHolds
  <2>5. /\ pusher' \in [Pusher -> PusherState] /\ pusher'[j] = s
        /\ \A k \in Pusher \ {j} : pusher'[k] = pusher[k]
        /\ \A k \in Pusher : PusherHolds(k)'
        /\ LockHolds'
    BY <1>0, <1>6, <2>1, <2>4, OnePusher DEF Sent
  <2>6. HalTypeOK'
    BY <1>0, <1>6, <2>2, <2>5 DEF HalTypeOK
  <2>7. Carried => Carried'
    BY <1>6, <2>1, <2>3, <2>5 DEF Carried, Pushing
  <2>8. Arrived => Arrived'
    BY <1>0, <1>6, <2>2, <2>3 DEF Arrived
  <2>9. TaskHolds'
    BY <1>6, <2>3, <2>7, <2>8 DEF HalInv, TaskHolds
  <2> QED BY <2>3, <2>5, <2>6, <2>9 DEF HalInv, PaperInv
<1>7. ASSUME NEW j \in Pusher, LockPaper(j) \/ Answer(j) \/ Reload(j)
      PROVE  HalInv'
  <2>1. pusher[j] \in PusherState /\ pusher[j].base \in Nat /\ pusher[j] = [pusher[j] EXCEPT !.base = pusher[j].base]
    BY <1>0 DEF HalTypeOK, PusherState
  <2>2. CASE LockPaper(j)
    <3>1. GoOn(j, [pusher[j] EXCEPT !.at = "locked", !.base = pusher[j].base])
      BY <2>1, <2>2 DEF LockPaper, GoOn, PusherState
    <3>2. ~Pushing(j, "idle") /\ \A k \in Pusher : ~HasLock(k)
      BY <2>2 DEF LockPaper, HasLock, Pushing
    <3>3. UNCHANGED <<paper, draft, pushes, deposit, wrong>> /\ wrong \subseteq Cause
      BY <1>0, <2>2 DEF LockPaper, HalTypeOK
    <3> QED BY <1>6, <2>1, <3>1, <3>2, <3>3
  <2>3. CASE Answer(j)
    <3>1. GoOn(j, [pusher[j] EXCEPT !.at = "answered", !.base = pusher[j].base])
      BY <2>1, <2>3 DEF Answer, GoOn, PusherState
    <3>2. ~Pushing(j, "idle") /\ HasLock(j)
      BY <2>3 DEF Answer, HasLock, Pushing
    <3>3. /\ UNCHANGED <<paper, draft, pushes>> /\ deposit' = Sent(j).text
          /\ wrong' \subseteq Cause /\ wrong \ {"overtaken"} \subseteq wrong'
          /\ Sent(j).text < deposit => "overtaken" \in wrong'
          /\ "overtaken" \in wrong /\ "overtaken" \notin wrong' => deposit' = Current.text
      BY <1>0, <2>3 DEF Answer, Deposited, HalTypeOK, Cause
    <3> QED BY <1>6, <2>1, <3>1, <3>2, <3>3
  <2>4. CASE Reload(j)
    <3>1. GoOn(j, [pusher[j] EXCEPT !.at = "reloaded", !.base = Len(paper)])
      BY <2>4 DEF Reload
    <3>2. ~Pushing(j, "idle") /\ HasLock(j) /\ deposit = Sent(j).text
      BY <2>4 DEF Reload, HasLock, Pushing, HalInv, PusherHolds
    <3>3. UNCHANGED <<paper, draft, pushes, deposit, wrong>> /\ wrong \subseteq Cause
      BY <1>0, <2>4 DEF Reload, HalTypeOK
    <3> QED BY <1>6, <1>a, <3>1, <3>2, <3>3
  <2> QED BY <1>7, <2>2, <2>3, <2>4
<1>8. ASSUME NEW j \in Pusher, GoOn(j, NoPush), ~Pushing(j, "idle"), UNCHANGED <<paper, draft>>,
             deposit' \in {deposit, Sent(j).text} /\ (deposit' = deposit \/ HasLock(j)),
             wrong' \subseteq Cause /\ wrong \ {"overtaken", "given up"} \subseteq wrong',
             pushes' \in {pushes, pushes \cup {pusher[j].task}},
             TaskHolds'
      PROVE  HalInv'
  <2>1. PaperHolds' /\ EditIsLast' /\ Current' = Current
    BY <1>0, <1>8, SamePaper
  <2>2. NoPush \in PusherState /\ NoPush.at = "idle"
    BY DEF NoPush, PusherState
  <2>3. /\ pusher' \in [Pusher -> PusherState]
        /\ \A k \in Pusher : PusherHolds(k)'
        /\ LockHolds'
    <3>1. Len(paper)' = Len(paper) /\ \A v \in 1..Len(paper) : paper'[v] = paper[v]
      BY <1>8
    <3>2. Len(paper)' \in Nat /\ Len(paper) <= Len(paper)' /\ NoPush.at \notin {"answered", "reloaded"}
      BY <1>a, <2>2, <3>1
    <3> QED BY <1>a, <1>8, <2>2, <3>1, <3>2, OnePusher
  <2>4. /\ pusher[j].seen \in 1..Len(paper) /\ Sent(j).text \in 1..Current.text
        /\ pusher[j].task \in 1..PaperVersions
    <3>1. pusher[j].task \in Nat /\ pusher[j].seen \in Nat
      BY <1>0 DEF HalTypeOK, PusherState
    <3>2. 1 <= pusher[j].task /\ pusher[j].task <= pusher[j].seen /\ pusher[j].seen <= Len(paper)
      BY <1>8 DEF HalInv, PusherHolds
    <3>3. pusher[j].task \in 1..PaperVersions
      BY <1>a, <3>1, <3>2
    <3> QED BY <1>8, <3>3, SentIs
  <2>5. deposit' \in 0..PaperVersions
    <3>1. deposit \in 0..PaperVersions
      BY <1>0 DEF HalTypeOK
    <3>2. Sent(j).text \in 0..PaperVersions
      BY <1>a, <2>4
    <3> QED BY <1>8, <3>1, <3>2
  <2>6. pushes' \subseteq 1..PaperVersions
    BY <1>a, <1>8, <2>4
  <2>7. HalTypeOK'
    BY <1>0, <1>8, <2>3, <2>5, <2>6 DEF HalTypeOK
  <2> QED BY <1>8, <2>1, <2>3, <2>7 DEF HalInv, PaperInv
\* A task that goes back to the queue is still carried.
<1>9. ASSUME NEW j \in Pusher, RetryPush(j), ~Pushing(j, "idle"),
             Arrived => Arrived', "given up" \in wrong => "given up" \in wrong'
      PROVE  TaskHolds'
  <2>1. Current' = Current /\ pushes' = pushes \cup {pusher[j].task} /\ UNCHANGED <<paper, draft>>
    BY <1>9 DEF RetryPush, Current
  <2>2. \A k \in Pusher \ {j} : pusher'[k] = pusher[k]
    BY <1>0, <1>9 DEF RetryPush, GoOn, HalTypeOK
  <2>3. Carried => Carried'
    BY <2>1, <2>2 DEF Carried, Pushing
  <2> QED BY <1>9, <2>1, <2>3 DEF HalInv, TaskHolds
<1>10. ASSUME NEW j \in Pusher, KeepId(j)
      PROVE  HalInv'
  <2>1. /\ ~Pushing(j, "idle") /\ HasLock(j) /\ deposit = Sent(j).text /\ Sent(j).hal
        /\ UNCHANGED <<paper, draft, pushes, deposit>> /\ GoOn(j, NoPush) /\ Current' = Current
    BY <1>10 DEF KeepId, EndPush, Pushing, HasLock, HalInv, PusherHolds, Current
  <2>2. wrong' \subseteq Cause /\ wrong \ {"overtaken", "given up"} \subseteq wrong'
    BY <1>0, <1>10 DEF KeepId, Succeeded, HalTypeOK
  <2>3. Sent(j).text = Current.text => Arrived'
    BY <2>1, SentIs DEF Arrived
  <2>4. Arrived => Arrived'
    BY <1>10, <2>1 DEF KeepId, Succeeded, Arrived
  <2>5. Carried => Carried' \/ Sent(j).text = Current.text
    <3>1. \A k \in Pusher \ {j} : pusher'[k] = pusher[k]
      BY <1>0, <2>1 DEF GoOn, HalTypeOK
    <3> QED BY <2>1, <3>1, SentIs DEF Carried, Pushing
  <2>6. "given up" \in wrong /\ "given up" \notin wrong' => draft = {} /\ Sent(j).text = Current.text
    BY <1>10 DEF KeepId, Succeeded
  <2>7. TaskHolds'
    BY <2>1, <2>3, <2>4, <2>5, <2>6 DEF HalInv, TaskHolds
  <2> QED BY <1>8, <2>1, <2>2, <2>7
<1>11. ASSUME NEW j \in Pusher, WriteId(j)
      PROVE  HalInv'
  <2> DEFINE d == WithId(j)
  <2>1. /\ ~Pushing(j, "idle") /\ HasLock(j) /\ deposit = Sent(j).text
        /\ UNCHANGED <<draft, pushes, deposit>> /\ GoOn(j, NoPush) /\ draft = {} /\ Len(paper) < PaperVersions
        /\ paper' = Append(paper, d)
    BY <1>11 DEF WriteId, EndPush, Pushing, HasLock, HalInv, PusherHolds
  <2>2. Sent(j) \in Paper /\ Current \in Paper /\ pusher[j].seen \in 1..Len(paper)
    BY <2>1, SentIs
  <2>3. d \in Paper /\ ~d.edited /\ d.hal /\ d.text = Current.text /\ d.ids = Sent(j).ids
    BY <2>2 DEF WithId, Paper
  <2>4. "overwritten" \notin wrong' => "overwritten" \notin wrong /\ d.ids = Current.ids
    BY <1>11, <2>3 DEF WriteId, Succeeded
  <2>5. /\ PaperHolds' /\ EditIsLast' /\ paper' \in Seq(Paper) /\ Len(paper)' \in 1..PaperVersions
        /\ Current' = d /\ Len(paper)' = Len(paper) + 1 /\ \A v \in 1..Len(paper) : paper'[v] = paper[v]
    BY <1>0, <2>1, <2>3, <2>4, AppendStep
  <2>6. NoPush \in PusherState /\ NoPush.at = "idle" /\ NoPush.at \notin {"answered", "reloaded"}
    BY DEF NoPush, PusherState
  <2>7. /\ pusher' \in [Pusher -> PusherState]
        /\ \A k \in Pusher \ {j} : pusher'[k] = pusher[k]
        /\ \A k \in Pusher : PusherHolds(k)'
        /\ LockHolds'
    <3>1. Len(paper)' \in Nat /\ Len(paper) <= Len(paper)'
      BY <1>a, <2>5
    <3> QED BY <1>a, <2>1, <2>5, <2>6, <3>1, OnePusher
  <2>8. HalTypeOK'
    BY <1>0, <1>11, <2>1, <2>5, <2>7 DEF HalTypeOK, WriteId, Succeeded, Cause
  <2>9. Current'.text = Current.text /\ Current'.hal
    BY <2>3, <2>5
  <2>10. (Arrived => Arrived') /\ (Sent(j).text = Current.text => Arrived')
    BY <1>11, <2>1, <2>9 DEF WriteId, Succeeded, Arrived
  <2>11. Carried => Carried' \/ Sent(j).text = Current.text
    BY <2>1, <2>7, <2>9, SentIs DEF Carried, Pushing
  <2>12. "given up" \in wrong /\ "given up" \notin wrong' => Sent(j).text = Current.text
    BY <1>11 DEF WriteId, Succeeded
  <2>13. TaskHolds'
    BY <2>1, <2>10, <2>11, <2>12 DEF HalInv, TaskHolds
  <2> QED BY <2>5, <2>7, <2>8, <2>13 DEF HalInv, PaperInv
<1>12. ASSUME NEW j \in Pusher, StaleAgain(j) \/ Disturb(j)
      PROVE  HalInv'
  <2>1. /\ ~Pushing(j, "idle") /\ RetryPush(j) /\ UNCHANGED <<paper, draft, deposit, wrong>>
        /\ wrong \subseteq Cause /\ GoOn(j, NoPush) /\ pushes' = pushes \cup {pusher[j].task}
    BY <1>0, <1>12 DEF StaleAgain, Disturb, RetryPush, Pushing, HalTypeOK
  <2>2. Arrived => Arrived'
    BY <2>1 DEF Arrived, Current
  <2>3. TaskHolds'
    BY <1>9, <2>1, <2>2
  <2> QED BY <1>8, <2>1, <2>3
<1>13. ASSUME NEW j \in Pusher, TimeOut(j)
      PROVE  HalInv'
  <2>1. /\ ~Pushing(j, "idle") /\ HasLock(j) /\ RetryPush(j) /\ UNCHANGED <<paper, draft>>
        /\ GoOn(j, NoPush) /\ pushes' = pushes \cup {pusher[j].task}
    BY <1>13 DEF TimeOut, RetryPush, Pushing, HasLock
  <2>2. /\ deposit' \in {deposit, Sent(j).text}
        /\ wrong' \subseteq Cause /\ wrong \ {"overtaken"} \subseteq wrong'
        /\ deposit' # deposit /\ Sent(j).text < deposit => "overtaken" \in wrong'
        /\ "overtaken" \in wrong /\ "overtaken" \notin wrong' => deposit' = Current.text
    BY <1>0, <1>13 DEF TimeOut, Deposited, HalTypeOK, Cause
  <2>3. Arrived => Arrived'
    <3>1. Current' = Current
      BY <2>1 DEF Current
    <3>2. Sent(j).text \in Nat /\ Sent(j).text <= Current.text /\ Current.text \in Nat
      BY <1>a, <2>1, SentIs
    <3> QED BY <2>2, <3>1, <3>2 DEF Arrived
  <2>4. TaskHolds'
    BY <1>9, <2>1, <2>2, <2>3
  <2> QED BY <1>8, <2>1, <2>2, <2>4
<1>14. ASSUME NEW j \in Pusher, GiveUpPush(j)
      PROVE  HalInv'
  <2>1. /\ ~Pushing(j, "idle") /\ GoOn(j, NoPush) /\ UNCHANGED <<paper, draft, pushes>>
        /\ wrong' = wrong \cup {"given up"} /\ wrong' \subseteq Cause
        /\ deposit' \in {deposit, Sent(j).text} /\ (deposit' = deposit \/ HasLock(j))
    BY <1>0, <1>14 DEF GiveUpPush, Pushing, HasLock, HalTypeOK, Cause
  <2>2. TaskHolds'
    BY <2>1 DEF TaskHolds
  <2> QED BY <1>8, <2>1, <2>2
<1> QED
  BY <1>1, <1>2, <1>3, <1>4, <1>5, <1>7, <1>10, <1>11, <1>12, <1>13, <1>14 DEF HalNext

\* The invariant holds throughout.
LEMMA HalInvariant == HalSpec => []HalInv
<1>1. HalInit => HalInv
  <2> SUFFICES ASSUME HalInit
               PROVE  HalInv
    OBVIOUS
  <2> DEFINE p == [text |-> 1, ids |-> {}, hal |-> FALSE, edited |-> TRUE]
  <2>1. paper = <<p>> /\ p \in Paper
    BY DEF HalInit, Paper
  <2>2. paper \in Seq(Paper) /\ Len(paper) = 1 /\ paper[1] = p /\ Current = p
    BY <2>1 DEF Current
  <2>3. HalTypeOK
    BY <2>2, VersionsAssumption DEF HalInit, HalTypeOK, NoPush, PusherState
  <2>4. PaperHolds
    BY <2>2 DEF HalInit, PaperHolds
  <2>5. IsLastEdit(1)
    BY <2>2 DEF IsLastEdit
  <2>6. EditIsLast /\ LockHolds /\ TaskHolds /\ \A j \in Pusher : PusherHolds(j)
    BY <2>2, <2>5 DEF HalInit, EditIsLast, LockHolds, HasLock, TaskHolds, Carried, PusherHolds, Pushing, NoPush
  <2> QED BY <2>3, <2>4, <2>6 DEF HalInv, PaperInv
<1> QED BY <1>1, HalStep, PTL DEF HalSpec

\* The types of the pushes to HAL.
THEOREM HalTypeCorrect == HalSpec => []HalTypeOK
<1>1. HalInv => HalTypeOK
  BY DEF HalInv, PaperInv
<1> QED BY <1>1, HalInvariant, PTL

\* Pushes undo nothing that curators wrote but identifiers they met, and HAL ends
\* with the paper as it is, which names its deposit: whatever fails, is retried,
\* is rolled back or comes late, but for what is given up or comes last though
\* it is older.
THEOREM HalEndsUpRight == HalSpec => []HalAgrees
<1>1. HalInv => HalAgrees
  <2> SUFFICES ASSUME HalInv
               PROVE  HalAgrees
    OBVIOUS
  <2>1. PICK e \in 1..Len(paper) : IsLastEdit(e)
    BY DEF HalInv, PaperInv, EditIsLast
  <2>2. Len(paper) \in Nat
    BY DEF HalInv, PaperInv, HalTypeOK
  <2> DEFINE Edit(v) == paper[v].edited /\ \A u \in (v + 1)..Len(paper) : ~paper[u].edited
  <2>3. \A v \in 1..Len(paper) : Edit(v) => v = e
    BY <2>1, <2>2 DEF IsLastEdit
  <2>4. (CHOOSE v \in 1..Len(paper) : Edit(v)) = e
    BY <2>1, <2>3 DEF IsLastEdit
  <2>5. LastEdit = paper[e]
    BY <2>4 DEF LastEdit
  <2>6. Current.text = LastEdit.text /\ ("overwritten" \notin wrong => Current.ids = LastEdit.ids)
    BY <2>1, <2>5 DEF IsLastEdit, HalInv, PaperInv, PaperHolds
  <2>7. Pushed /\ wrong \cap {"overtaken", "given up"} = {} => Current.hal /\ deposit = Current.text
    BY DEF Pushed, HalInv, TaskHolds, Carried, Arrived
  <2> QED BY <2>6, <2>7 DEF HalAgrees
<1> QED BY <1>1, HalInvariant, PTL

-----------------------------------------------------------------------------
(* ORCID: whose work a putcode is                                          *)

RecordsHold ==
  /\ history \in [Rec -> Seq(Content)] /\ \A r \in Rec : Len(history[r]) > 0
  /\ pending \in [Rec -> SUBSET Content]
  /\ sent \subseteq Rec \X Nat
  /\ spoilt \subseteq Reason \X Rec

\* A task with a record has a task; only tasks of the record itself look for the
\* works it clashes with, for whoever is deleted has no work to push.
StateHolds(w) ==
  /\ IF w.at = "idle" THEN w = Free ELSE w.task \in Rec \X Nat /\ w.rec \in Rec
  /\ w.at \in {"written", "delete", "deleted"} => w.putcode # 0
  /\ w.at \in {"clash", "clashes", "post"} => w.rec = w.task[1]
  /\ w.at \in {"search", "listed"} => w.gone \/ w.rec = w.task[1]
  /\ w.at \in {"push", "missing", "relisted", "again", "clash", "clashes", "post", "written"} => ~w.gone
  /\ w.at \in {"delete", "deleted"} => w.gone
  /\ w.at = "clashes" => w.putcode = 0

\* A putcode that ORCID gave is of the record it was given for, for ever.
Owned(p, r) == p \in 1..issued /\ (Live(p) => work[p].rec = r)
StateOwns(w) ==
  /\ w.putcode # 0 => Owned(w.putcode, w.rec)
  /\ \A f \in w.found : Owned(f[1], f[2])

JobsHold == job \in [Job -> JobState] /\ \A j \in Job : StateHolds(job[j]) /\ StateOwns(job[j])
CacheHolds ==
  /\ cache \in [Rec -> [putcode : 0..MaxPutcode, hash : SUBSET (SUBSET Id)]]
  /\ \A r \in Rec : cache[r].putcode # 0 => Owned(cache[r].putcode, r)
OneWork == \A p, q \in Putcode : Live(p) /\ work[p].rec = work[q].rec => p = q
OrcidHolds ==
  /\ work \in [Putcode -> [rec : Rec \cup {NoRec}, ids : SUBSET Id]]
  /\ issued \in 0..MaxPutcode
  /\ \A p \in Putcode : Live(p) => p <= issued
  /\ OneWork

OwnInv == RecordsHold /\ JobsHold /\ CacheHolds /\ OrcidHolds

\* What no step does: give a putcode to another record.
Kept == issued <= issued' /\ \A p \in 1..issued : work'[p].rec \in {work[p].rec, NoRec}

\* Putcodes are numbers from 1, and 0 is none.
LEMMA Bound == MaxPutcode \in Nat /\ MaxPutcode > 0 /\ Putcode = 1..MaxPutcode /\ 0 \notin Putcode
BY PushAssumption DEF Putcode

\* A putcode given for a record stays that record's.
LEMMA OwnedKept ==
  ASSUME OrcidHolds, Kept, issued' \in 0..MaxPutcode, NEW p, NEW r, r # NoRec, Owned(p, r)
  PROVE  Owned(p, r)'
<1>1. p \in 1..issued' /\ work'[p].rec \in {work[p].rec, NoRec}
  BY Bound DEF Kept, Owned, OrcidHolds
<1> QED BY <1>1 DEF Owned, Live

\* So the putcodes a task holds stay those of its records.
LEMMA StateOwnsKept ==
  ASSUME OrcidHolds, Kept, issued' \in 0..MaxPutcode, NEW w \in JobState, w.at # "idle" => w.rec \in Rec,
         w.at = "idle" => w = Free, StateOwns(w)
  PROVE  StateOwns(w)'
<1>1. w.putcode # 0 => w.rec # NoRec
  BY PushAssumption DEF Free
<1>2. \A f \in w.found : f[2] # NoRec
  BY PushAssumption DEF JobState
<1> QED BY <1>1, <1>2, OwnedKept DEF StateOwns

\* The worker that takes a step, and the others.
LEMMA OneJob ==
  ASSUME JobsHold, OrcidHolds, NEW j \in Job, NEW s \in JobState, Go(j, s), StateHolds(s), StateOwns(s)',
         Kept, issued' \in 0..MaxPutcode
  PROVE  JobsHold' /\ job'[j] = s /\ \A k \in Job \ {j} : job'[k] = job[k]
<1>1. job' \in [Job -> JobState] /\ job'[j] = s /\ \A k \in Job \ {j} : job'[k] = job[k]
  BY DEF JobsHold, Go
<1>2. ASSUME NEW k \in Job \ {j}
      PROVE  StateHolds(job[k])' /\ StateOwns(job[k])'
  <2>1. PICK w \in JobState : w = job[k]
    BY DEF JobsHold
  <2>2. StateHolds(w) /\ StateOwns(w) /\ job'[k] = w
    BY <1>1, <2>1 DEF JobsHold
  <2>3. (w.at # "idle" => w.rec \in Rec) /\ (w.at = "idle" => w = Free)
    BY <2>2 DEF StateHolds
  <2>4. StateOwns(w)'
    BY <2>2, <2>3, StateOwnsKept
  <2> QED BY <2>2, <2>4 DEF StateOwns, StateHolds
<1>3. StateHolds(job[j])' /\ StateOwns(job[j])'
  BY <1>1 DEF StateOwns, StateHolds
<1> QED BY <1>1, <1>2, <1>3 DEF JobsHold

\* A step that leaves ORCID leaves whose putcodes are.
LEMMA SameOrcid ==
  ASSUME OrcidHolds, UNCHANGED orcidVars
  PROVE  /\ OrcidHolds' /\ Kept /\ issued' \in 0..MaxPutcode
         /\ \A w : StateOwns(w) => StateOwns(w)'
<1>1. OrcidHolds' /\ issued' \in 0..MaxPutcode
  BY DEF OrcidHolds, orcidVars, OneWork, Live
<1>2. Kept
  BY Bound DEF OrcidHolds, orcidVars, Kept
<1>3. \A w : StateOwns(w) => StateOwns(w)'
  BY DEF orcidVars, StateOwns, Owned, Live
<1> QED BY <1>1, <1>2, <1>3

\* A work is deleted.
LEMMA LessWork ==
  ASSUME OrcidHolds, NEW p \in Putcode, work' = [work EXCEPT ![p] = NoWork], issued' = issued
  PROVE  OrcidHolds' /\ Kept /\ issued' \in 0..MaxPutcode
<1>1. work' \in [Putcode -> [rec : Rec \cup {NoRec}, ids : SUBSET Id]] /\ issued' \in 0..MaxPutcode
  BY DEF OrcidHolds, NoWork
<1>2. \A q \in Putcode : work'[q].rec \in {work[q].rec, NoRec}
  BY DEF OrcidHolds, NoWork
<1>3. Kept
  <2>1. \A q \in 1..issued : q \in Putcode
    BY Bound DEF OrcidHolds
  <2> QED BY <1>2, <2>1, Bound DEF Kept, OrcidHolds
<1>4. OneWork' /\ \A q \in Putcode : Live(q)' => q <= issued'
  BY <1>2 DEF OrcidHolds, OneWork, Live
<1> QED BY <1>1, <1>3, <1>4 DEF OrcidHolds

\* Entries of the cache may be dropped.
LEMMA SameCache ==
  ASSUME CacheHolds, OrcidHolds, Kept, issued' \in 0..MaxPutcode,
         NEW R \in SUBSET Rec, cache' = [r \in Rec |-> IF r \in R THEN Uncached ELSE cache[r]]
  PROVE  CacheHolds'
<1>1. Uncached \in [putcode : 0..MaxPutcode, hash : SUBSET (SUBSET Id)] /\ Uncached.putcode = 0
  BY Bound DEF Uncached
<1>2. cache' \in [Rec -> [putcode : 0..MaxPutcode, hash : SUBSET (SUBSET Id)]]
  BY <1>1 DEF CacheHolds
<1>3. \A r \in Rec : cache'[r].putcode # 0 => cache'[r] = cache[r]
  BY <1>1
<1>4. ASSUME NEW r \in Rec, cache'[r].putcode # 0
      PROVE  Owned(cache[r].putcode, r)'
  <2>1. cache'[r] = cache[r] /\ r # NoRec /\ Owned(cache[r].putcode, r)
    BY <1>3, <1>4, PushAssumption DEF CacheHolds
  <2> QED BY <2>1, OwnedKept DEF Owned
<1> QED BY <1>2, <1>4 DEF CacheHolds

\* A record has a latest version.
LEMMA LatestIs ==
  ASSUME RecordsHold, NEW r \in Rec
  PROVE  Latest(r) \in Content /\ Len(history[r]) \in Nat \ {0}
<1>1. history[r] \in Seq(Content) /\ Len(history[r]) > 0
  BY DEF RecordsHold
<1> QED BY <1>1 DEF Latest

\* The putcode a search found for the task's own record, if any.
LEMMA OwnPutcodeIs ==
  ASSUME JobsHold, NEW j \in Job
  PROVE  /\ OwnPutcode(j) \in 0..MaxPutcode
         /\ OwnPutcode(j) # 0 => <<OwnPutcode(j), job[j].rec>> \in job[j].found
         /\ OwnPutcode(j) = 0 => \A p \in Putcode : <<p, job[j].rec>> \notin job[j].found
<1> DEFINE own == {w[1] : w \in {f \in job[j].found : f[2] = job[j].rec}}
<1>1. job[j].found \subseteq Putcode \X Rec
  BY DEF JobsHold, JobState
<1>2. \A p : p \in own => p \in Putcode /\ <<p, job[j].rec>> \in job[j].found
  BY <1>1
<1>3. \A p : <<p, job[j].rec>> \in job[j].found => p \in own
  BY <1>1
<1>4. own # {} => (CHOOSE p \in own : TRUE) \in own
  OBVIOUS
<1>5. OwnPutcode(j) = IF own = {} THEN 0 ELSE CHOOSE p \in own : TRUE
  BY DEF OwnPutcode
<1>6. CASE own = {}
  BY <1>3, <1>5, <1>6, Bound
<1>7. CASE own # {}
  <2>1. OwnPutcode(j) \in Putcode /\ <<OwnPutcode(j), job[j].rec>> \in job[j].found
    BY <1>2, <1>4, <1>5, <1>7
  <2> QED BY <2>1, Bound
<1> QED BY <1>6, <1>7

\* A nested push that ends goes back to the clashes of its task, any other ends.
LEMMA ReturnedIs ==
  ASSUME JobsHold, NEW j \in Job, job[j].at # "idle"
  PROVE  /\ Returned(j) \in JobState /\ StateHolds(Returned(j)) /\ StateOwns(Returned(j))
         /\ Returned(j).putcode = 0 /\ Returned(j).found = {}
         /\ Returned(j).at \in {"idle", "clashes"}
         /\ Returned(j).at = "clashes" =>
              /\ Nested(j) /\ Returned(j).task = job[j].task /\ Returned(j).rec = job[j].task[1]
              /\ Returned(j).mine = job[j].mine /\ Returned(j).ids = job[j].mine
              /\ Returned(j).gone = FALSE /\ Returned(j).todo = job[j].todo /\ Returned(j).drop = job[j].drop
              /\ Returned(j).after = job[j].after
         /\ Returned(j).at = "idle" => Returned(j) = Free /\ ~Nested(j)
<1>1. job[j] \in JobState /\ job[j].task \in Rec \X Nat /\ job[j].task[1] \in Rec
  BY DEF JobsHold, StateHolds
<1>2. CASE Nested(j)
  <2> DEFINE s == [job[j] EXCEPT !.at = "clashes", !.rec = job[j].task[1], !.ids = job[j].mine,
                      !.gone = FALSE, !.putcode = 0, !.found = {}]
  <2>1. Returned(j) = s
    BY <1>2 DEF Returned
  <2>2. s \in JobState
    <3>1. 0 \in 0..MaxPutcode /\ job[j].task[1] \in Rec \cup {NoRec} /\ job[j].mine \in SUBSET Id
      BY <1>1, Bound DEF JobState
    <3>2. {} \in SUBSET (Putcode \X Rec) /\ FALSE \in BOOLEAN
      OBVIOUS
    <3> QED BY <1>1, <3>1, <3>2 DEF JobState
  <2>3. /\ s.at = "clashes" /\ s.rec = job[j].task[1] /\ s.ids = job[j].mine /\ s.mine = job[j].mine
        /\ s.gone = FALSE /\ s.putcode = 0 /\ s.found = {} /\ s.task = job[j].task
        /\ s.todo = job[j].todo /\ s.drop = job[j].drop /\ s.after = job[j].after
    BY <1>1 DEF JobState
  <2> HIDE DEF s
  <2> QED BY <1>1, <1>2, <2>1, <2>2, <2>3 DEF StateHolds, StateOwns
<1>3. CASE ~Nested(j)
  <2>1. Returned(j) = Free
    BY <1>3 DEF Returned
  <2>2. Free \in JobState /\ Free.putcode = 0 /\ Free.found = {} /\ Free.at = "idle"
    BY Bound DEF Free, JobState
  <2>3. StateHolds(Free) /\ StateOwns(Free)
    BY <2>2 DEF StateHolds, StateOwns
  <2> QED BY <1>3, <2>1, <2>2, <2>3
<1> QED BY <1>2, <1>3

\* A worker without a task holds nothing.
LEMMA FreeIs ==
  Free \in JobState /\ Free.at = "idle" /\ Free.putcode = 0 /\ Free.found = {} /\ StateHolds(Free) /\ StateOwns(Free)
BY Bound DEF Free, JobState, StateHolds, StateOwns

\* What the task of a busy worker is about.
LEMMA TaskIs ==
  ASSUME OwnInv, NEW j \in Job, job[j].at # "idle"
  PROVE  /\ job[j] \in JobState /\ StateHolds(job[j]) /\ StateOwns(job[j])
         /\ job[j].task \in Rec \X Nat /\ job[j].rec \in Rec /\ job[j].task[1] \in Rec
         /\ Unanswered(j) \subseteq Reason \X Rec /\ Blamed(j) \subseteq Reason \X Rec
         /\ \A r \in Rec : Crossing(j, r) \subseteq Reason \X Rec
<1>1. job[j] \in JobState /\ StateHolds(job[j]) /\ StateOwns(job[j])
  BY DEF OwnInv, JobsHold
<1>2. job[j].task \in Rec \X Nat /\ job[j].rec \in Rec /\ job[j].task[1] \in Rec
  BY <1>1 DEF StateHolds
<1> QED BY <1>1, <1>2 DEF Unanswered, Blamed, Crossing, Reason

\* A step of a worker that changes nothing at ORCID.
LEMMA JobMoves ==
  ASSUME OwnInv, NEW j \in Job, NEW s \in JobState, Go(j, s), StateHolds(s), StateOwns(s),
         UNCHANGED recVars, UNCHANGED orcidVars, cache' = cache \/ CacheHolds',
         sent' \subseteq Rec \X Nat, spoilt' \subseteq Reason \X Rec
  PROVE  OwnInv' /\ Kept
<1>1. OrcidHolds' /\ Kept /\ issued' \in 0..MaxPutcode /\ StateOwns(s)'
  BY SameOrcid DEF OwnInv
<1>2. JobsHold'
  BY <1>1, OneJob DEF OwnInv
<1>3. RecordsHold'
  BY DEF OwnInv, RecordsHold, recVars
<1>4. CacheHolds'
  BY DEF OwnInv, CacheHolds, orcidVars, Owned, Live
<1> QED BY <1>1, <1>2, <1>3, <1>4 DEF OwnInv

\* A task that ends or is sent again takes nothing with it.
LEMMA RetriedOrOver ==
  ASSUME OwnInv, NEW j \in Job, job[j].at # "idle", Retried(j) \/ Over(j), spoilt' \subseteq Reason \X Rec
  PROVE  OwnInv' /\ Kept
<1>1. /\ UNCHANGED recVars /\ UNCHANGED orcidVars /\ cache' = cache /\ Go(j, Free)
      /\ sent' \in {sent, sent \cup {job[j].task}}
  BY DEF Retried, Over
<1>2. sent' \subseteq Rec \X Nat
  BY <1>1, TaskIs DEF OwnInv, RecordsHold
<1> QED BY <1>1, <1>2, FreeIs, JobMoves

\* A work that is put or posted is the only one of its record.
LEMMA WriteIs ==
  ASSUME OwnInv, NEW j \in Job, Write(j), job[j].at \in {"push", "again", "post"}
  PROVE  /\ OwnInv' /\ Kept
         /\ \E p \in Putcode :
              /\ work' = [work EXCEPT ![p] = [rec |-> job[j].rec, ids |-> job[j].ids]]
              /\ Live(p) => work[p].rec = job[j].rec
              /\ \A q \in Putcode \ {p} : work[q].rec # job[j].rec
              /\ job'[j].rec = job[j].rec /\ job'[j].task = job[j].task /\ job'[j].ids = job[j].ids
              /\ job'[j].at = "written" /\ job'[j].putcode = p /\ job'[j].gone = FALSE
              /\ job'[j].found = job[j].found /\ job'[j].mine = job[j].mine
              /\ \A k \in Job \ {j} : job'[k] = job[k]
<1>0. /\ OrcidHolds /\ RecordsHold /\ JobsHold /\ CacheHolds /\ job[j] \in JobState
      /\ StateHolds(job[j]) /\ StateOwns(job[j]) /\ job[j].rec \in Rec /\ job[j].ids \subseteq Id
  BY TaskIs DEF OwnInv, JobState
<1>1. PICK p \in Putcode :
        /\ p = (IF job[j].putcode = 0 THEN issued + 1 ELSE job[j].putcode)
        /\ job[j].putcode # 0 => Live(p)
        /\ ~Refused(j, p) /\ Put(j, p)
        /\ issued' = IF job[j].putcode = 0 THEN p ELSE issued
        /\ Go(j, [job[j] EXCEPT !.at = "written", !.putcode = p])
  BY DEF Write
<1>2. issued \in Nat /\ issued <= MaxPutcode /\ p \in 1..MaxPutcode /\ MaxPutcode \in Nat
  BY <1>0, Bound DEF OrcidHolds
<1>3. issued' \in 0..MaxPutcode /\ issued <= issued' /\ p <= issued'
  <2>1. job[j].putcode # 0 => p <= issued
    BY <1>0, <1>1, Bound DEF OrcidHolds
  <2> QED BY <1>1, <1>2, <2>1
<1>4. /\ work' = [work EXCEPT ![p] = [rec |-> job[j].rec, ids |-> job[j].ids]]
      /\ work' \in [Putcode -> [rec : Rec \cup {NoRec}, ids : SUBSET Id]]
      /\ work'[p] = [rec |-> job[j].rec, ids |-> job[j].ids]
      /\ \A q \in Putcode \ {p} : work'[q] = work[q]
  BY <1>0, <1>1 DEF Put, OrcidHolds
<1>5. \A q \in Putcode \ {p} : work[q].rec # job[j].rec
  BY <1>1 DEF Refused, Clashing
<1>6. Live(p) => job[j].putcode = p
  <2>1. Live(p) => p <= issued
    BY <1>0 DEF OrcidHolds
  <2> QED BY <1>1, <1>2, <2>1
<1>7. Live(p) => work[p].rec = job[j].rec
  BY <1>0, <1>1, <1>6, Bound DEF StateOwns, Owned
<1>8. Kept
  <2>1. ASSUME NEW q \in 1..issued
        PROVE  work'[q].rec \in {work[q].rec, NoRec}
    <3>1. q \in Putcode
      BY <1>2, Bound
    <3>2. q = p => Live(p)
      BY <1>1, <1>2
    <3> QED BY <1>4, <1>7, <3>1, <3>2
  <2> QED BY <1>3, <2>1 DEF Kept
<1>9. OrcidHolds'
  <2>1. \A q \in Putcode : Live(q)' => q <= issued'
    <3>1. \A q \in Putcode : Live(q) => q <= issued
      BY <1>0 DEF OrcidHolds
    <3>2. \A q \in Putcode \ {p} : Live(q)' => Live(q)
      BY <1>4 DEF Live
    <3>3. \A q \in Putcode : q \in Nat
      BY Bound
    <3> QED BY <1>2, <1>3, <3>1, <3>2, <3>3
  <2>2. OneWork'
    BY <1>0, <1>4, <1>5 DEF OrcidHolds, OneWork, Live
  <2> QED BY <1>3, <1>4, <2>1, <2>2 DEF OrcidHolds
<1>10. PICK s \in JobState :
         /\ Go(j, s) /\ s.rec = job[j].rec /\ s.task = job[j].task /\ s.at = "written" /\ s.putcode = p
         /\ s.gone = job[j].gone /\ s.found = job[j].found /\ s.ids = job[j].ids /\ s.mine = job[j].mine
  <2> DEFINE s == [job[j] EXCEPT !.at = "written", !.putcode = p]
  <2>1. p \in 0..MaxPutcode
    BY <1>2
  <2>2. s \in JobState
    BY <1>0, <2>1 DEF JobState
  <2>3. /\ s.rec = job[j].rec /\ s.task = job[j].task /\ s.at = "written" /\ s.putcode = p
        /\ s.gone = job[j].gone /\ s.found = job[j].found /\ s.ids = job[j].ids /\ s.mine = job[j].mine
    BY <1>0 DEF JobState
  <2>4. Go(j, s)
    BY <1>1
  <2> HIDE DEF s
  <2> QED BY <2>2, <2>3, <2>4
<1>11. StateHolds(s) /\ s.gone = FALSE
  <2>1. ~job[j].gone /\ job[j].gone \in BOOLEAN /\ p # 0
    BY <1>0, <1>2 DEF StateHolds, JobState
  <2> QED BY <1>0, <1>10, <2>1 DEF StateHolds
<1>12. StateOwns(s)'
  <2>1. ASSUME NEW f \in s.found
        PROVE  Owned(f[1], f[2])'
    <3>1. Owned(f[1], f[2]) /\ f[2] # NoRec
      BY <1>0, <1>10, PushAssumption DEF StateOwns, JobState
    <3> QED BY <1>0, <1>3, <1>8, <3>1, OwnedKept
  <2>2. Owned(p, s.rec)'
    <3>1. p \in 1..issued'
      BY <1>2, <1>3
    <3> QED BY <1>4, <1>10, <3>1 DEF Owned, Live
  <2> QED BY <1>10, <2>1, <2>2 DEF StateOwns
<1>13. JobsHold' /\ job'[j] = s /\ \A k \in Job \ {j} : job'[k] = job[k]
  BY <1>0, <1>3, <1>8, <1>10, <1>11, <1>12, OneJob
<1>14. CacheHolds'
  <2>1. cache' = [r \in Rec |-> IF r \in {} THEN Uncached ELSE cache[r]]
    BY <1>0 DEF Write, CacheHolds
  <2>2. {} \in SUBSET Rec
    OBVIOUS
  <2> QED BY <1>0, <1>3, <1>8, <2>1, <2>2, SameCache
<1>15. RecordsHold'
  BY <1>0 DEF Write, RecordsHold, recVars
<1> QED
  BY <1>4, <1>5, <1>7, <1>8, <1>9, <1>10, <1>11, <1>13, <1>14, <1>15 DEF OwnInv


\* A search of the works finds each under the record it was given for.
LEMMA AllWorksAre ==
  ASSUME OrcidHolds
  PROVE  /\ \A f \in AllWorks : Owned(f[1], f[2])
         /\ AllWorks \subseteq Putcode \X Rec
         /\ \A p \in Putcode : Live(p) => <<p, work[p].rec>> \in AllWorks
<1>1. \A p \in Putcode : Live(p) => p \in 1..issued /\ work[p].rec \in Rec
  BY Bound DEF OrcidHolds, Live
<1> QED BY <1>1 DEF AllWorks, Owned

\* What a search leaves in the cache is what it found.
LEMMA CacheAllIs ==
  ASSUME OwnInv, NEW j \in Job, CacheAll(j)
  PROVE  /\ CacheHolds'
         /\ \A r \in Rec : IF \E p \in Putcode : <<p, r>> \in job[j].found
                           THEN <<cache'[r].putcode, r>> \in job[j].found /\ cache'[r].putcode \in Putcode
                           ELSE cache'[r].putcode = cache[r].putcode
         /\ \A r \in Rec : cache'[r].hash = cache[r].hash
<1>0. OrcidHolds /\ CacheHolds /\ JobsHold /\ job[j] \in JobState /\ StateOwns(job[j]) /\ UNCHANGED orcidVars
  BY DEF OwnInv, JobsHold, CacheAll
<1>1. cache' = [r \in Rec |->
       IF \E p \in Putcode : <<p, r>> \in job[j].found
       THEN [cache[r] EXCEPT !.putcode = CHOOSE p \in Putcode : <<p, r>> \in job[j].found]
       ELSE cache[r]]
  BY DEF CacheAll
<1>2. ASSUME NEW r \in Rec, \E p \in Putcode : <<p, r>> \in job[j].found
      PROVE  /\ cache'[r].putcode \in Putcode /\ <<cache'[r].putcode, r>> \in job[j].found
             /\ cache'[r].hash = cache[r].hash
             /\ cache'[r] \in [putcode : 0..MaxPutcode, hash : SUBSET (SUBSET Id)]
  <2>1. PICK p \in Putcode : /\ p = (CHOOSE q \in Putcode : <<q, r>> \in job[j].found)
                             /\ <<p, r>> \in job[j].found
    BY <1>2
  <2>2. cache'[r] = [cache[r] EXCEPT !.putcode = p]
    BY <1>1, <1>2, <2>1
  <2>3. cache[r] \in [putcode : 0..MaxPutcode, hash : SUBSET (SUBSET Id)] /\ p \in 0..MaxPutcode
    BY <1>0, Bound DEF CacheHolds
  <2> QED BY <2>1, <2>2, <2>3
<1>3. ASSUME NEW r \in Rec, ~\E p \in Putcode : <<p, r>> \in job[j].found
      PROVE  cache'[r] = cache[r]
  BY <1>1, <1>3
<1>4. cache' \in [Rec -> [putcode : 0..MaxPutcode, hash : SUBSET (SUBSET Id)]]
  <2>1. \A r \in Rec : cache[r] \in [putcode : 0..MaxPutcode, hash : SUBSET (SUBSET Id)]
    BY <1>0 DEF CacheHolds
  <2>2. \A r \in Rec : cache'[r] \in [putcode : 0..MaxPutcode, hash : SUBSET (SUBSET Id)]
    BY <1>2, <1>3, <2>1
  <2>3. cache' = [r \in Rec |-> cache'[r]]
    BY <1>1
  <2> QED BY <2>2, <2>3
<1>5. ASSUME NEW r \in Rec, cache'[r].putcode # 0
      PROVE  Owned(cache[r].putcode, r)'
  <2>1. PICK p : p = cache'[r].putcode
    OBVIOUS
  <2>2. Owned(p, r)
    BY <1>0, <1>2, <1>3, <1>5, <2>1 DEF CacheHolds, StateOwns
  <2> QED BY <1>0, <2>1, <2>2 DEF Owned, Live, orcidVars
<1> QED BY <1>2, <1>3, <1>4, <1>5 DEF CacheHolds

\* Every step keeps putcodes with their records.
LEMMA OwnStep ==
  ASSUME OwnInv, [Next]_vars
  PROVE  OwnInv' /\ Kept
<1>0. OrcidHolds /\ RecordsHold /\ JobsHold /\ CacheHolds
  BY DEF OwnInv
<1>1. ASSUME UNCHANGED <<job, orcidVars, cache>>, RecordsHold'
      PROVE  OwnInv' /\ Kept
  <2>1. OrcidHolds' /\ Kept
    BY <1>0, <1>1, SameOrcid
  <2>2. JobsHold' /\ CacheHolds'
    BY <1>0, <1>1 DEF JobsHold, StateHolds, StateOwns, Owned, Live, CacheHolds, orcidVars
  <2> QED BY <1>1, <2>1, <2>2 DEF OwnInv
<1>2. ASSUME NEW r \in Rec, Update(r)
      PROVE  OwnInv' /\ Kept
  <2>1. pending' \in [Rec -> SUBSET Content]
    BY <1>0, <1>2 DEF Update, RecordsHold
  <2>2. Len(history[r]) + 1 \in Nat
    BY <1>0, LatestIs
  <2>3. sent' \subseteq Rec \X Nat
    BY <1>0, <1>2, <2>2 DEF Update, RecordsHold
  <2> QED BY <1>0, <1>1, <1>2, <2>1, <2>3 DEF Update, RecordsHold
<1>3. ASSUME NEW r \in Rec, Commit(r)
      PROVE  OwnInv' /\ Kept
  <2>1. PICK c \in pending[r] : history' = [history EXCEPT ![r] = Append(@, c)]
    BY <1>3 DEF Commit
  <2>2. c \in Content /\ history[r] \in Seq(Content)
    BY <1>0, <2>1 DEF RecordsHold
  <2>3. Append(history[r], c) \in Seq(Content) /\ Len(Append(history[r], c)) > 0
    BY <2>2
  <2>4. history' \in [Rec -> Seq(Content)] /\ \A o \in Rec : Len(history'[o]) > 0
    BY <1>0, <2>1, <2>3 DEF RecordsHold
  <2> QED BY <1>0, <1>1, <1>3, <2>4 DEF Commit, RecordsHold
<1>4. ASSUME NEW r \in Rec, Rollback(r)
      PROVE  OwnInv' /\ Kept
  BY <1>0, <1>1, <1>4 DEF Rollback, RecordsHold
<1>5. ASSUME NEW t \in sent, DropTask(t)
      PROVE  OwnInv' /\ Kept
  <2>1. t[1] \in Rec
    BY <1>0 DEF RecordsHold
  <2> QED BY <1>0, <1>1, <1>5, <2>1 DEF DropTask, RecordsHold, recVars, Reason
<1>6. ASSUME NEW p \in Putcode, RemoveWork(p)
      PROVE  OwnInv' /\ Kept
  <2>1. OrcidHolds' /\ Kept /\ issued' \in 0..MaxPutcode
    BY <1>0, <1>6, LessWork DEF RemoveWork
  <2>2. JobsHold'
    <3>1. ASSUME NEW k \in Job
          PROVE  StateHolds(job[k])' /\ StateOwns(job[k])'
      <4>1. PICK w \in JobState : w = job[k]
        BY <1>0 DEF JobsHold
      <4>2. StateHolds(w) /\ StateOwns(w) /\ job'[k] = w
        BY <1>0, <1>6, <4>1 DEF JobsHold, RemoveWork
      <4>3. (w.at # "idle" => w.rec \in Rec) /\ (w.at = "idle" => w = Free)
        BY <4>2 DEF StateHolds
      <4>4. StateOwns(w)'
        BY <1>0, <2>1, <4>2, <4>3, StateOwnsKept
      <4> QED BY <4>2, <4>4 DEF StateOwns, StateHolds
    <3> QED BY <1>0, <1>6, <3>1 DEF JobsHold, RemoveWork
  <2>3. CacheHolds'
    <3>1. cache' = [r \in Rec |-> IF r \in {} THEN Uncached ELSE cache[r]] /\ {} \in SUBSET Rec
      BY <1>0, <1>6 DEF RemoveWork, CacheHolds
    <3> QED BY <1>0, <2>1, <3>1, SameCache
  <2>4. RecordsHold'
    <3>1. work[p].rec \in Rec
      BY <1>0, <1>6 DEF RemoveWork, Live, OrcidHolds
    <3> QED BY <1>0, <1>6, <3>1 DEF RemoveWork, RecordsHold, recVars, Reason
  <2> QED BY <2>1, <2>2, <2>3, <2>4 DEF OwnInv
<1>7. ASSUME NEW j \in Job, Load(j)
      PROVE  OwnInv' /\ Kept
  <2>1. PICK t \in sent :
          /\ sent' = sent \ {t} /\ spoilt' = spoilt \cup Crossing(j, t[1])
          /\ Go(j, [Free EXCEPT !.at = "loaded", !.task = t, !.rec = t[1],
                                !.ids = Latest(t[1]).ids, !.gone = Latest(t[1]).gone])
    BY <1>7 DEF Load
  <2>2. t \in Rec \X Nat /\ t[1] \in Rec /\ Latest(t[1]) \in Content
    BY <1>0, LatestIs DEF RecordsHold
  <2> DEFINE s == [Free EXCEPT !.at = "loaded", !.task = t, !.rec = t[1],
                               !.ids = Latest(t[1]).ids, !.gone = Latest(t[1]).gone]
  <2>3. s \in JobState /\ s.at = "loaded" /\ s.task = t /\ s.rec = t[1] /\ s.putcode = 0 /\ s.found = {}
    BY <2>2, FreeIs DEF JobState, Content
  <2>4. Go(j, s)
    BY <2>1
  <2> HIDE DEF s
  <2>5. StateHolds(s) /\ StateOwns(s)
    BY <2>2, <2>3 DEF StateHolds, StateOwns
  <2>6. sent' \subseteq Rec \X Nat /\ spoilt' \subseteq Reason \X Rec
    BY <1>0, <2>1, <2>2 DEF RecordsHold, Crossing, Reason
  <2> QED BY <1>7, <2>3, <2>4, <2>5, <2>6, JobMoves DEF Load
<1>8. ASSUME NEW j \in Job, Compare(j)
      PROVE  OwnInv' /\ Kept
  <2> DEFINE c == cache[job[j].rec]
  <2>1. /\ job[j].at # "idle" /\ On(j, "loaded") /\ UNCHANGED recVars /\ UNCHANGED orcidVars
        /\ UNCHANGED <<sent, cache, spoilt>>
    BY <1>8 DEF Compare, On
  <2>2. /\ job[j] \in JobState /\ StateHolds(job[j]) /\ StateOwns(job[j]) /\ job[j].rec \in Rec
        /\ c.putcode \in 0..MaxPutcode /\ (c.putcode # 0 => Owned(c.putcode, job[j].rec))
    BY <1>0, <2>1, TaskIs DEF CacheHolds
  <2>3. CASE Go(j, Returned(j))
    BY <1>0, <2>1, <2>3, ReturnedIs, JobMoves DEF RecordsHold
  <2>4. ASSUME NEW at \in {"push", "search", "delete"}, Go(j, [job[j] EXCEPT !.at = at, !.putcode = c.putcode]),
               at = "push" => ~job[j].gone, at # "push" => job[j].gone, at = "delete" => c.putcode # 0
        PROVE  OwnInv' /\ Kept
    <3> DEFINE s == [job[j] EXCEPT !.at = at, !.putcode = c.putcode]
    <3>1. /\ s \in JobState /\ s.at = at /\ s.task = job[j].task /\ s.rec = job[j].rec
          /\ s.putcode = c.putcode /\ s.found = job[j].found /\ s.gone = job[j].gone
      BY <2>2 DEF JobState
    <3>2. Go(j, s)
      BY <2>4
    <3> HIDE DEF s
    <3>3. StateHolds(s) /\ StateOwns(s)
      BY <2>1, <2>2, <2>4, <3>1 DEF StateHolds, StateOwns, On
    <3> QED BY <1>0, <2>1, <3>1, <3>2, <3>3, JobMoves DEF RecordsHold
  <2> QED BY <1>8, <2>3, <2>4 DEF Compare
<1>9. ASSUME NEW j \in Job, Push(j) \/ Again(j)
      PROVE  OwnInv' /\ Kept
  BY <1>9, WriteIs DEF Push, Again, On
<1>10. ASSUME NEW j \in Job, PushRefused(j)
       PROVE  OwnInv' /\ Kept
  <2>1. /\ job[j].at # "idle" /\ On(j, "push") /\ UNCHANGED recVars /\ UNCHANGED orcidVars
        /\ UNCHANGED <<cache, spoilt>>
    BY <1>10 DEF PushRefused, On
  <2>2. /\ job[j] \in JobState /\ StateHolds(job[j]) /\ StateOwns(job[j]) /\ job[j].task \in Rec \X Nat
    BY <2>1, TaskIs
  <2>3. ASSUME NEW at \in {"missing", "search", "clash"}, NEW putcode \in {0, job[j].putcode},
               Go(j, [job[j] EXCEPT !.at = at, !.putcode = putcode]), sent' = sent,
               at # "missing" => ~Nested(j)
        PROVE  OwnInv' /\ Kept
    <3> DEFINE s == [job[j] EXCEPT !.at = at, !.putcode = putcode]
    <3>1. putcode \in 0..MaxPutcode
      BY <2>2, Bound DEF JobState
    <3>2. /\ s \in JobState /\ s.at = at /\ s.task = job[j].task /\ s.rec = job[j].rec
          /\ s.putcode = putcode /\ s.found = job[j].found /\ s.gone = job[j].gone
      BY <2>2, <3>1 DEF JobState
    <3>3. Go(j, s)
      BY <2>3
    <3> HIDE DEF s
    <3>4. StateHolds(s) /\ StateOwns(s)
      BY <2>1, <2>2, <2>3, <3>2 DEF StateHolds, StateOwns, On, Nested
    <3> QED BY <1>0, <2>1, <2>3, <3>2, <3>3, <3>4, JobMoves DEF RecordsHold
  <2>4. CASE Go(j, Free) /\ sent' = sent \cup {job[j].task}
    BY <1>0, <2>1, <2>2, <2>4, FreeIs, JobMoves DEF RecordsHold
  <2>5. [job[j] EXCEPT !.at = "search"] = [job[j] EXCEPT !.at = "search", !.putcode = job[j].putcode]
    BY <2>2 DEF JobState
  <2>6. [job[j] EXCEPT !.at = "clash"] = [job[j] EXCEPT !.at = "clash", !.putcode = job[j].putcode]
    BY <2>2 DEF JobState
  <2>7. \/ Go(j, [job[j] EXCEPT !.at = "missing", !.putcode = 0]) /\ sent' = sent
        \/ Go(j, [job[j] EXCEPT !.at = "search"]) /\ sent' = sent /\ ~Nested(j)
        \/ Go(j, [job[j] EXCEPT !.at = "clash"]) /\ sent' = sent /\ ~Nested(j)
        \/ Go(j, Free) /\ sent' = sent \cup {job[j].task}
    BY <1>10 DEF PushRefused
  <2> QED BY <2>3, <2>4, <2>5, <2>6, <2>7
<1>11. ASSUME NEW j \in Job, Search(j) \/ Missing(j)
       PROVE  OwnInv' /\ Kept
  <2>1. /\ job[j].at \in {"search", "missing"} /\ job[j].at # "idle" /\ UNCHANGED recVars /\ UNCHANGED orcidVars
        /\ UNCHANGED <<sent, spoilt>>
    BY <1>11 DEF Search, Missing, On
  <2>2. /\ job[j] \in JobState /\ StateHolds(job[j]) /\ StateOwns(job[j]) /\ job[j].rec \in Rec
    BY <2>1, TaskIs
  <2>3. cache' = cache \/ CacheHolds'
    <3>1. CASE Missing(j)
      <4>1. cache' = [r \in Rec |-> IF r \in {job[j].rec} THEN Uncached ELSE cache[r]]
        BY <1>0, <3>1 DEF Missing, CacheHolds
      <4>2. Kept /\ issued' \in 0..MaxPutcode /\ {job[j].rec} \in SUBSET Rec
        BY <1>0, <2>1, <2>2, SameOrcid
      <4> QED BY <1>0, <4>1, <4>2, SameCache
    <3> QED BY <1>11, <3>1 DEF Search
  <2>4. ASSUME NEW at \in {"listed", "relisted"}, at = "relisted" <=> job[j].at = "missing",
               Go(j, [job[j] EXCEPT !.at = at, !.found = AllWorks])
        PROVE  OwnInv' /\ Kept
    <3> DEFINE s == [job[j] EXCEPT !.at = at, !.found = AllWorks]
    <3>1. AllWorks \in SUBSET (Putcode \X Rec)
      BY <1>0, AllWorksAre
    <3>2. /\ s \in JobState /\ s.at = at /\ s.task = job[j].task /\ s.rec = job[j].rec
          /\ s.putcode = job[j].putcode /\ s.found = AllWorks /\ s.gone = job[j].gone
      BY <2>2, <3>1 DEF JobState
    <3>3. Go(j, s)
      BY <2>4
    <3> HIDE DEF s
    <3>4. StateHolds(s)
      BY <2>1, <2>2, <2>4, <3>2 DEF StateHolds
    <3>5. StateOwns(s)
      BY <1>0, <2>2, <3>2, AllWorksAre DEF StateOwns
    <3> QED BY <1>0, <2>1, <2>3, <3>2, <3>3, <3>4, <3>5, JobMoves DEF RecordsHold
  <2> QED BY <1>11, <2>4 DEF Search, Missing, On
<1>12. ASSUME NEW j \in Job, CacheAll(j)
       PROVE  OwnInv' /\ Kept
  <2>1. /\ job[j].at \in {"listed", "relisted"} /\ job[j].at # "idle"
        /\ UNCHANGED recVars /\ UNCHANGED orcidVars /\ sent' = sent /\ CacheHolds'
    BY <1>12, CacheAllIs DEF CacheAll
  <2>2. /\ job[j] \in JobState /\ StateHolds(job[j]) /\ StateOwns(job[j]) /\ job[j].rec \in Rec
        /\ job[j].found \subseteq Putcode \X Rec
    BY <2>1, TaskIs DEF JobState
  <2>3. spoilt' \subseteq Reason \X Rec
    <3>1. spoilt' = spoilt \cup {<<"crossed", w[2]>> : w \in {f \in job[j].found : work[f[1]].rec # f[2]}}
      BY <1>12 DEF CacheAll
    <3> QED BY <1>0, <2>2, <3>1 DEF RecordsHold, Reason
  <2>4. PICK own \in 0..MaxPutcode :
          own = OwnPutcode(j) /\ (own # 0 => Owned(own, job[j].rec))
    BY <1>0, <2>2, OwnPutcodeIs DEF StateOwns
  <2>5. CASE Go(j, Returned(j))
    BY <1>0, <2>1, <2>3, <2>5, ReturnedIs, JobMoves DEF RecordsHold
  <2>6. ASSUME NEW at \in {"delete", "clash", "again"}, NEW after \in {"post", "retry"},
               Go(j, [job[j] EXCEPT !.found = {}, !.putcode = own, !.at = at, !.after = after]),
               at = "delete" => job[j].gone /\ own # 0, at # "delete" => ~job[j].gone,
               at = "clash" => On(j, "listed")
        PROVE  OwnInv' /\ Kept
    <3> DEFINE s == [job[j] EXCEPT !.found = {}, !.putcode = own, !.at = at, !.after = after]
    <3>1. {} \in SUBSET (Putcode \X Rec)
      OBVIOUS
    <3>2. /\ s \in JobState /\ s.at = at /\ s.task = job[j].task /\ s.rec = job[j].rec
          /\ s.putcode = own /\ s.found = {} /\ s.gone = job[j].gone
      BY <2>2, <3>1 DEF JobState
    <3>3. Go(j, s)
      BY <2>6
    <3> HIDE DEF s
    <3>4. StateHolds(s) /\ StateOwns(s)
      BY <2>1, <2>2, <2>4, <2>6, <3>2 DEF StateHolds, StateOwns, On
    <3> QED BY <1>0, <2>1, <2>3, <3>2, <3>3, <3>4, JobMoves DEF RecordsHold
  <2>7. /\ job[j].after \in {"post", "retry"}
        /\ \A at : [[job[j] EXCEPT !.found = {}, !.putcode = own] EXCEPT !.at = at] =
                   [job[j] EXCEPT !.found = {}, !.putcode = own, !.at = at, !.after = job[j].after]
        /\ [[job[j] EXCEPT !.found = {}, !.putcode = own] EXCEPT !.at = "clash", !.after = "post"] =
                   [job[j] EXCEPT !.found = {}, !.putcode = own, !.at = "clash", !.after = "post"]
    BY <2>2 DEF JobState
  <2>8. \/ Go(j, Returned(j))
        \/ job[j].gone /\ own # 0 /\ Go(j, [[job[j] EXCEPT !.found = {}, !.putcode = own] EXCEPT !.at = "delete"])
        \/ /\ ~job[j].gone /\ On(j, "listed")
           /\ Go(j, [[job[j] EXCEPT !.found = {}, !.putcode = own] EXCEPT !.at = "clash", !.after = "post"])
        \/ ~job[j].gone /\ Go(j, [[job[j] EXCEPT !.found = {}, !.putcode = own] EXCEPT !.at = "again"])
    BY <1>12, <2>4 DEF CacheAll
  <2> QED BY <2>5, <2>6, <2>7, <2>8
<1>13. ASSUME NEW j \in Job, AgainRefused(j) \/ Interrupt(j) \/ GiveUp(j)
       PROVE  OwnInv' /\ Kept
  <2>1. job[j].at # "idle" /\ (Retried(j) \/ Over(j))
    BY <1>13 DEF AgainRefused, Interrupt, GiveUp, On
  <2>2. spoilt' \subseteq Reason \X Rec
    BY <1>0, <1>13, <2>1, TaskIs DEF AgainRefused, Interrupt, GiveUp, RecordsHold
  <2> QED BY <2>1, <2>2, RetriedOrOver
<1>14. ASSUME NEW j \in Job, CacheWritten(j) \/ CacheDeleted(j)
       PROVE  OwnInv' /\ Kept
  <2>1. /\ job[j].at # "idle" /\ UNCHANGED recVars /\ UNCHANGED orcidVars /\ sent' = sent
        /\ Go(j, Returned(j)) /\ spoilt' \subseteq spoilt
    BY <1>14 DEF CacheWritten, CacheDeleted, On
  <2>2. job[j] \in JobState /\ StateHolds(job[j]) /\ StateOwns(job[j]) /\ job[j].rec \in Rec
    BY <2>1, TaskIs
  <2>3. CASE CacheWritten(j)
    <3>1. PICK c \in [putcode : 0..MaxPutcode, hash : SUBSET (SUBSET Id)] :
            cache' = [cache EXCEPT ![job[j].rec] = c] /\ c.putcode = job[j].putcode
      <4>1. job[j].putcode \in 0..MaxPutcode /\ {job[j].ids} \in SUBSET (SUBSET Id)
        BY <2>2 DEF JobState
      <4>2. PICK c : c = [putcode |-> job[j].putcode, hash |-> {job[j].ids}]
        OBVIOUS
      <4>3. c \in [putcode : 0..MaxPutcode, hash : SUBSET (SUBSET Id)] /\ c.putcode = job[j].putcode
        BY <4>1, <4>2
      <4>4. cache' = [cache EXCEPT ![job[j].rec] = c]
        BY <2>3, <4>2 DEF CacheWritten, Hash
      <4> QED BY <4>3, <4>4
    <3>2. \A r \in Rec : cache'[r].putcode # 0 => Owned(cache'[r].putcode, r)
      BY <1>0, <2>2, <3>1 DEF CacheHolds, StateOwns
    <3>3. CacheHolds'
      BY <1>0, <2>1, <2>2, <3>1, <3>2 DEF CacheHolds, Owned, Live, orcidVars
    <3> QED BY <1>0, <2>1, <3>3, ReturnedIs, JobMoves DEF RecordsHold
  <2>4. CASE CacheDeleted(j)
    <3>1. cache' = [r \in Rec |-> IF r \in {job[j].rec} THEN Uncached ELSE cache[r]]
      BY <1>0, <2>4 DEF CacheDeleted, CacheHolds
    <3>2. Kept /\ issued' \in 0..MaxPutcode /\ {job[j].rec} \in SUBSET Rec
      BY <1>0, <2>1, <2>2, SameOrcid
    <3>3. CacheHolds'
      BY <1>0, <3>1, <3>2, SameCache
    <3> QED BY <1>0, <2>1, <3>3, ReturnedIs, JobMoves DEF RecordsHold
  <2> QED BY <1>14, <2>3, <2>4
<1>15. ASSUME NEW j \in Job, NEW p \in Putcode, NEW s \in JobState, Go(j, s), StateHolds(s), StateOwns(s),
              s.at # "idle", work' = [work EXCEPT ![p] = NoWork], issued' = issued,
              NEW R \in SUBSET Rec, cache' = [r \in Rec |-> IF r \in R THEN Uncached ELSE cache[r]],
              UNCHANGED recVars, sent' = sent, spoilt' \subseteq Reason \X Rec
       PROVE  OwnInv' /\ Kept
  <2>1. OrcidHolds' /\ Kept /\ issued' \in 0..MaxPutcode
    BY <1>0, <1>15, LessWork
  <2>2. CacheHolds'
    BY <1>0, <1>15, <2>1, SameCache
  <2>3. StateOwns(s)'
    BY <1>0, <1>15, <2>1, StateOwnsKept DEF StateHolds
  <2>4. JobsHold'
    BY <1>0, <1>15, <2>1, <2>3, OneJob
  <2>5. RecordsHold'
    BY <1>0, <1>15 DEF RecordsHold, recVars
  <2> QED BY <2>1, <2>2, <2>4, <2>5 DEF OwnInv
<1>16. ASSUME NEW j \in Job, Delete(j)
       PROVE  OwnInv' /\ Kept
  <2>1. On(j, "delete") /\ job[j].at # "idle"
    BY <1>16 DEF Delete, On
  <2>2. /\ job[j] \in JobState /\ StateHolds(job[j]) /\ StateOwns(job[j])
        /\ job[j].putcode \in Putcode
    <3>1. job[j] \in JobState /\ StateHolds(job[j]) /\ StateOwns(job[j])
      BY <2>1, TaskIs
    <3>2. job[j].putcode \in 0..MaxPutcode /\ job[j].putcode # 0
      BY <2>1, <3>1 DEF StateHolds, On, JobState
    <3> QED BY <3>1, <3>2, Bound
  <2> DEFINE s == [job[j] EXCEPT !.at = "deleted"]
  <2>3. /\ s \in JobState /\ s.at = "deleted" /\ s.task = job[j].task /\ s.rec = job[j].rec
        /\ s.putcode = job[j].putcode /\ s.found = job[j].found /\ s.gone = job[j].gone
    BY <2>2 DEF JobState
  <2>4. Go(j, s)
    BY <1>16 DEF Delete
  <2> HIDE DEF s
  <2>5. StateHolds(s) /\ StateOwns(s) /\ s.at # "idle"
    BY <2>1, <2>2, <2>3 DEF StateHolds, StateOwns, On
  <2>6. cache' = [r \in Rec |-> IF r \in {} THEN Uncached ELSE cache[r]] /\ {} \in SUBSET Rec
    BY <1>0, <1>16 DEF Delete, CacheHolds
  <2>7. /\ work' = [work EXCEPT ![job[j].putcode] = NoWork] /\ issued' = issued /\ sent' = sent
        /\ UNCHANGED recVars /\ spoilt' \subseteq Reason \X Rec
    BY <1>0, <1>16 DEF Delete, RecordsHold
  <2> QED BY <1>15, <2>2, <2>3, <2>4, <2>5, <2>6, <2>7
<1>17. ASSUME NEW j \in Job, NEW p \in Putcode, DropClashing(j, p)
       PROVE  OwnInv' /\ Kept
  <2>1. On(j, "clashes") /\ job[j].at # "idle"
    BY <1>17 DEF DropClashing, On
  <2>2. job[j] \in JobState /\ StateHolds(job[j]) /\ StateOwns(job[j]) /\ job[j].rec \in Rec
    BY <2>1, TaskIs
  <2> DEFINE s == [job[j] EXCEPT !.drop = @ \ {p}]
  <2>3. /\ s \in JobState /\ s.at = "clashes" /\ s.task = job[j].task /\ s.rec = job[j].rec
        /\ s.putcode = job[j].putcode /\ s.found = job[j].found /\ s.gone = job[j].gone
    BY <2>1, <2>2 DEF JobState, On
  <2>4. Go(j, s)
    BY <1>17 DEF DropClashing
  <2> HIDE DEF s
  <2>5. StateHolds(s) /\ StateOwns(s) /\ s.at # "idle"
    BY <2>1, <2>2, <2>3 DEF StateHolds, StateOwns, On
  <2>6. cache' = [r \in Rec |-> IF r \in {job[j].rec} THEN Uncached ELSE cache[r]] /\ {job[j].rec} \in SUBSET Rec
    BY <1>0, <1>17, <2>2 DEF DropClashing, CacheHolds
  <2>7. /\ work' = [work EXCEPT ![p] = NoWork] /\ issued' = issued /\ sent' = sent /\ UNCHANGED recVars
        /\ spoilt' = spoilt \cup {<<"dropped", r>> : r \in {work[p].rec} \ {NoRec}}
    BY <1>17 DEF DropClashing
  <2>8. spoilt' \subseteq Reason \X Rec
    BY <1>0, <2>7 DEF RecordsHold, OrcidHolds, Reason
  <2> QED BY <1>15, <2>3, <2>4, <2>5, <2>6, <2>7, <2>8
<1>18. ASSUME NEW j \in Job, ListClashes(j)
       PROVE  OwnInv' /\ Kept
  <2>1. On(j, "clash") /\ job[j].at # "idle"
    BY <1>18 DEF ListClashes, On
  <2>2. job[j] \in JobState /\ StateHolds(job[j]) /\ StateOwns(job[j]) /\ job[j].rec \in Rec
    BY <2>1, TaskIs
  <2>3. PICK drop \in SUBSET Putcode, todo \in SUBSET Rec :
          Go(j, [job[j] EXCEPT !.at = "clashes", !.mine = job[j].ids, !.putcode = 0,
                               !.drop = drop, !.todo = todo])
    <3> DEFINE shared(p) == work[p].ids \cap job[j].ids
               clashing == {p \in Putcode : Live(p) /\ shared(p) # {}}
    <3>1. {p \in clashing : Cardinality(shared(p)) > 1} \in SUBSET Putcode
      OBVIOUS
    <3>2. {work[p].rec : p \in clashing} \ {job[j].rec} \in SUBSET Rec
      BY <1>0 DEF OrcidHolds, Live
    <3> QED BY <1>18, <3>1, <3>2 DEF ListClashes
  <2> DEFINE s == [job[j] EXCEPT !.at = "clashes", !.mine = job[j].ids, !.putcode = 0,
                                 !.drop = drop, !.todo = todo]
  <2>4. 0 \in 0..MaxPutcode /\ job[j].ids \in SUBSET Id
    BY <2>2, Bound DEF JobState
  <2>5. /\ s \in JobState /\ s.at = "clashes" /\ s.task = job[j].task /\ s.rec = job[j].rec
        /\ s.putcode = 0 /\ s.found = job[j].found /\ s.gone = job[j].gone
    BY <2>2, <2>4 DEF JobState
  <2>6. Go(j, s)
    BY <2>3
  <2> HIDE DEF s
  <2>7. StateHolds(s) /\ StateOwns(s)
    BY <2>1, <2>2, <2>5 DEF StateHolds, StateOwns, On
  <2> QED BY <1>0, <1>18, <2>5, <2>6, <2>7, JobMoves DEF ListClashes, RecordsHold
<1>19. ASSUME NEW j \in Job, PushedClashing(j)
       PROVE  OwnInv' /\ Kept
  <2>1. On(j, "clashes") /\ job[j].at # "idle" /\ spoilt' = spoilt
    BY <1>19 DEF PushedClashing, On
  <2>2. job[j] \in JobState /\ StateHolds(job[j]) /\ StateOwns(job[j])
    BY <2>1, TaskIs
  <2>3. CASE Retried(j)
    BY <1>0, <2>1, <2>3, RetriedOrOver DEF RecordsHold
  <2>4. CASE /\ Go(j, [job[j] EXCEPT !.at = "post", !.mine = {}])
             /\ UNCHANGED <<recVars, sent, orcidVars, cache>>
    <3> DEFINE s == [job[j] EXCEPT !.at = "post", !.mine = {}]
    <3>1. {} \in SUBSET Id
      OBVIOUS
    <3>2. /\ s \in JobState /\ s.at = "post" /\ s.task = job[j].task /\ s.rec = job[j].rec
          /\ s.putcode = job[j].putcode /\ s.found = job[j].found /\ s.gone = job[j].gone
      BY <2>2, <3>1 DEF JobState
    <3>3. Go(j, s)
      BY <2>4
    <3> HIDE DEF s
    <3>4. StateHolds(s) /\ StateOwns(s)
      BY <2>1, <2>2, <3>2 DEF StateHolds, StateOwns, On
    <3> QED BY <1>0, <2>1, <2>4, <3>2, <3>3, <3>4, JobMoves DEF RecordsHold
  <2> QED BY <1>19, <2>3, <2>4 DEF PushedClashing
<1>20. ASSUME NEW j \in Job, NEW r \in Rec, PushClashing(j, r)
       PROVE  OwnInv' /\ Kept
  <2>1. /\ On(j, "clashes") /\ job[j].at # "idle" /\ sent' = sent /\ spoilt' = spoilt \cup Crossing(j, r)
        /\ UNCHANGED recVars /\ UNCHANGED orcidVars /\ cache' = cache
    BY <1>20 DEF PushClashing, On
  <2>2. /\ job[j] \in JobState /\ StateHolds(job[j]) /\ StateOwns(job[j])
        /\ Latest(r) \in Content /\ spoilt' \subseteq Reason \X Rec
    BY <1>0, <2>1, TaskIs, LatestIs DEF RecordsHold
  <2> DEFINE s == [job[j] EXCEPT !.at = "loaded", !.rec = r, !.todo = @ \ {r},
                                 !.ids = Latest(r).ids, !.gone = Latest(r).gone]
  <2>3. /\ s \in JobState /\ s.at = "loaded" /\ s.task = job[j].task /\ s.rec = r
        /\ s.putcode = job[j].putcode /\ s.found = job[j].found
    BY <2>2 DEF JobState, Content
  <2>4. Go(j, s)
    BY <1>20 DEF PushClashing
  <2> HIDE DEF s
  <2>5. StateHolds(s) /\ StateOwns(s)
    BY <2>1, <2>2, <2>3 DEF StateHolds, StateOwns, On
  <2> QED BY <1>0, <2>1, <2>2, <2>3, <2>4, <2>5, JobMoves DEF RecordsHold
<1>21. CASE UNCHANGED vars
  <2>1. UNCHANGED <<job, orcidVars, cache>> /\ UNCHANGED <<history, pending, sent, spoilt>>
    BY <1>21 DEF vars, orcidVars
  <2> QED BY <1>0, <1>1, <2>1 DEF RecordsHold
<1> QED
  BY <1>2, <1>3, <1>4, <1>5, <1>6, <1>7, <1>8, <1>9, <1>10, <1>11, <1>12, <1>13, <1>14,
     <1>16, <1>17, <1>18, <1>19, <1>20, <1>21 DEF Next, Step

\* A putcode is for ever of the record it was given for: in ORCID, in the cache
\* and in the tasks.
LEMMA OwnInvariant == Spec => []OwnInv
<1>1. Init => OwnInv
  <2> SUFFICES ASSUME Init
               PROVE  OwnInv
    OBVIOUS
  <2>1. RecordsHold
    <3>1. PICK ids \in [Rec -> SUBSET Id] : history = [r \in Rec |-> <<[ids |-> ids[r], gone |-> FALSE]>>]
      BY DEF Init
    <3>2. \A r \in Rec : <<[ids |-> ids[r], gone |-> FALSE]>> \in Seq(Content)
      BY DEF Content
    <3>3. history \in [Rec -> Seq(Content)] /\ \A r \in Rec : Len(history[r]) > 0
      BY <3>1, <3>2
    <3> QED BY <3>3 DEF Init, RecordsHold
  <2>2. JobsHold
    BY FreeIs DEF Init, JobsHold
  <2>3. CacheHolds
    BY Bound DEF Init, CacheHolds, Uncached
  <2>4. OrcidHolds
    <3>1. PICK r \in Rec : work = [p \in Putcode |-> IF p <= issued THEN [rec |-> r, ids |-> history[r][1].ids] ELSE NoWork]
      BY DEF Init
    <3>2. history[r][1].ids \in SUBSET Id
      BY DEF Init
    <3>3. work \in [Putcode -> [rec : Rec \cup {NoRec}, ids : SUBSET Id]]
      BY <3>1, <3>2 DEF NoWork
    <3>4. issued \in 0..1 /\ issued \in 0..MaxPutcode
      BY Bound DEF Init
    <3>5. \A p \in Putcode : Live(p) => p <= issued /\ p = 1
      BY <3>1, <3>4, Bound DEF Live, NoWork
    <3>6. OneWork
      BY <3>5 DEF OneWork, Live
    <3> QED BY <3>3, <3>4, <3>5, <3>6 DEF OrcidHolds
  <2> QED BY <2>1, <2>2, <2>3, <2>4 DEF OwnInv
<1> QED BY <1>1, OwnStep, PTL DEF Spec

\* The types of the pushes to ORCID.
THEOREM PushTypeCorrect == Spec => []PushTypeOK
<1>1. OwnInv => PushTypeOK
  BY DEF OwnInv, RecordsHold, JobsHold, CacheHolds, OrcidHolds, PushTypeOK
<1> QED BY <1>1, OwnInvariant, PTL

\* No push writes over the work of another record, whatever the cache and the
\* listings of works were when it learnt its putcode.
THEOREM PushesOwnWorks == Spec => NoForeignWork
<1>1. OwnInv /\ [Next]_vars => [\A p \in Putcode : Live(p) /\ Live(p)' => work'[p].rec = work[p].rec]_vars
  <2> SUFFICES ASSUME OwnInv, [Next]_vars, NEW p \in Putcode, Live(p), Live(p)'
               PROVE  work'[p].rec = work[p].rec
    OBVIOUS
  <2>1. p \in 1..issued
    BY Bound DEF OwnInv, OrcidHolds
  <2> QED BY <2>1, OwnStep DEF Kept, Live
<1> QED BY <1>1, OwnInvariant, PTL DEF Spec, NoForeignWork

-----------------------------------------------------------------------------
(* ORCID: what the cache says was pushed                                   *)

Crossed(r) == <<"crossed", r>> \in spoilt
Pushes(w, r) == w.at # "idle" /\ r \in {w.rec, w.task[1]}

\* Unless its pushes overlapped, a record is pushed by one worker at most.
Uncrossed == \A r \in Rec : ~Crossed(r) =>
  \A j, k \in Job : Pushes(job[j], r) /\ Pushes(job[k], r) => j = k

\* Before the cache is told, the record has no work but the one just written.
WrittenHolds(j) ==
  On(j, "written") /\ ~Crossed(job[j].rec) =>
    /\ Works(job[j].rec) \subseteq {job[j].putcode}
    /\ ~Spoilt({"removed", "dropped"}, job[j].rec) =>
         work[job[j].putcode] = [rec |-> job[j].rec, ids |-> job[j].ids]

NotAt(places, r) == \A j \in Job : job[j].at \in places => job[j].rec # r
CacheTrue(r) ==
  ~Spoilt({"unanswered", "crossed", "removed", "dropped"}, r) /\ NotAt({"written", "deleted"}, r) =>
    \A I \in SUBSET Id : cache[r].hash = {I} => \E p \in Works(r) : work[p].ids = I

HitInv == Uncrossed /\ (\A j \in Job : WrittenHolds(j)) /\ (\A r \in Rec : CacheTrue(r))

\* What the steps of a worker have in common.
Others(j) == \A k \in Job \ {j} : job'[k] = job[k]
Stays(j) ==
  \/ job'[j].at = "idle"
  \/ job[j].at # "idle" /\ job'[j].task = job[j].task /\ job'[j].rec \in {job[j].rec, job[j].task[1]}
Quietly(j) ==
  /\ Others(j) /\ UNCHANGED work /\ spoilt \subseteq spoilt'
  /\ \A r \in Rec : cache'[r].hash \in {cache[r].hash, {}}
  /\ job'[j].at \notin {"written", "deleted"}
  /\ job[j].at \in {"written", "deleted"} => <<"unanswered", job[j].rec>> \in spoilt'

\* A step of one worker leaves the others.
LEMMA JobIs ==
  ASSUME OwnInv, NEW j \in Job, NEW s, Go(j, s)
  PROVE  job'[j] = s /\ Others(j)
BY DEF OwnInv, JobsHold, Go, Others

\* The states of workers have the same fields.
LEMMA FieldsAre ==
  ASSUME OwnInv, NEW j \in Job
  PROVE  job[j] \in JobState /\ \A s \in JobState : DOMAIN s = DOMAIN job[j]
BY DEF OwnInv, JobsHold, JobState

\* A step without a call of ORCID or the cache, away from a write, is quiet.
LEMMA StillQuiet ==
  ASSUME OwnInv, NEW j \in Job, job[j].at \notin {"written", "deleted"}, UNCHANGED <<work, cache>>,
         spoilt \subseteq spoilt', Others(j), job'[j].at \notin {"written", "deleted"}
  PROVE  Quietly(j)
BY DEF Quietly

\* The steps of a push that are quiet.
LEMMA QuietSteps ==
  ASSUME OwnInv, NEW j \in Job,
         \/ Load(j) \/ Compare(j) \/ PushRefused(j) \/ Search(j) \/ Missing(j) \/ CacheAll(j)
         \/ AgainRefused(j) \/ ListClashes(j) \/ PushedClashing(j) \/ Interrupt(j) \/ GiveUp(j)
         \/ \E r \in Rec : PushClashing(j, r)
  PROVE  Quietly(j) /\ (Stays(j) \/ Load(j) \/ \E r \in Rec : PushClashing(j, r))
<1>0. /\ job[j] \in JobState /\ Free.at = "idle"
      /\ cache \in [Rec -> [putcode : 0..MaxPutcode, hash : SUBSET (SUBSET Id)]] /\ Uncached.hash = {}
  BY FreeIs DEF OwnInv, JobsHold, CacheHolds, Uncached
<1>1. CASE Load(j)
  <2>1. PICK s : Go(j, s) /\ s.at = "loaded"
    <3>1. PICK t \in sent : Go(j, [Free EXCEPT !.at = "loaded", !.task = t, !.rec = t[1],
                                     !.ids = Latest(t[1]).ids, !.gone = Latest(t[1]).gone])
      BY <1>1 DEF Load
    <3>2. [Free EXCEPT !.at = "loaded", !.task = t, !.rec = t[1],
                       !.ids = Latest(t[1]).ids, !.gone = Latest(t[1]).gone].at = "loaded"
      BY DEF Free
    <3> QED BY <3>1, <3>2
  <2>2. /\ job[j].at \notin {"written", "deleted"} /\ UNCHANGED <<work, cache>> /\ spoilt \subseteq spoilt'
    BY <1>1 DEF Load, On, orcidVars
  <2> QED BY <1>1, <2>1, <2>2, JobIs, StillQuiet
<1>2. CASE Compare(j)
  <2>1. /\ job[j].at = "loaded" /\ UNCHANGED <<work, cache, spoilt>>
    BY <1>2 DEF Compare, On, orcidVars
  <2>2. PICK s : /\ Go(j, s) /\ s.at \notin {"written", "deleted"}
                 /\ s.at = "idle" \/ (s.task = job[j].task /\ s.rec \in {job[j].rec, job[j].task[1]})
    <3>1. CASE Go(j, Returned(j))
      BY <2>1, <3>1, ReturnedIs DEF OwnInv
    <3>2. ASSUME NEW at \in {"push", "search", "delete"}, NEW c, Go(j, [job[j] EXCEPT !.at = at, !.putcode = c])
          PROVE  \E s : /\ Go(j, s) /\ s.at \notin {"written", "deleted"}
                        /\ s.at = "idle" \/ (s.task = job[j].task /\ s.rec \in {job[j].rec, job[j].task[1]})
      <4> DEFINE s == [job[j] EXCEPT !.at = at, !.putcode = c]
      <4>1. s.at = at /\ s.task = job[j].task /\ s.rec = job[j].rec
        BY <1>0 DEF JobState
      <4> QED BY <3>2, <4>1
    <3> QED BY <1>2, <3>1, <3>2 DEF Compare
  <2>3. job'[j] = s /\ Others(j)
    BY <2>2, JobIs
  <2> QED BY <2>1, <2>2, <2>3, StillQuiet DEF Stays
<1>3. CASE PushRefused(j)
  <2>1. job[j].at = "push" /\ UNCHANGED <<work, cache, spoilt>>
    BY <1>3 DEF PushRefused, On, orcidVars
  <2>2. PICK s : /\ Go(j, s) /\ s.at \notin {"written", "deleted"}
                 /\ s.at = "idle" \/ (s.task = job[j].task /\ s.rec \in {job[j].rec, job[j].task[1]})
    <3> DEFINE miss == [job[j] EXCEPT !.at = "missing", !.putcode = 0]
               next(at) == [job[j] EXCEPT !.at = at]
    <3>1. /\ miss.at = "missing" /\ miss.task = job[j].task /\ miss.rec = job[j].rec
          /\ \A at : next(at).at = at /\ next(at).task = job[j].task /\ next(at).rec = job[j].rec
      BY <1>0 DEF JobState
    <3>2. Go(j, miss) \/ Go(j, next("search")) \/ Go(j, next("clash")) \/ Go(j, Free)
      BY <1>3 DEF PushRefused
    <3> HIDE DEF miss, next
    <3> QED BY <1>0, <3>1, <3>2
  <2>3. job'[j] = s /\ Others(j)
    BY <2>2, JobIs
  <2> QED BY <2>1, <2>2, <2>3, StillQuiet DEF Stays
<1>4. CASE Search(j) \/ Missing(j)
  <2>1. job[j].at \in {"search", "missing"} /\ UNCHANGED <<work, spoilt>>
    BY <1>4 DEF Search, Missing, On, orcidVars
  <2>2. PICK s : /\ Go(j, s) /\ s.at \notin {"written", "deleted"}
                 /\ s.task = job[j].task /\ s.rec = job[j].rec
    <3> DEFINE next(at) == [job[j] EXCEPT !.at = at, !.found = AllWorks]
    <3>1. \A at : next(at).at = at /\ next(at).task = job[j].task /\ next(at).rec = job[j].rec
      BY <1>0 DEF JobState
    <3>2. Go(j, next("listed")) \/ Go(j, next("relisted"))
      BY <1>4 DEF Search, Missing
    <3> HIDE DEF next
    <3> QED BY <3>1, <3>2
  <2>3. job'[j] = s /\ Others(j)
    BY <2>2, JobIs
  <2>4. \A r \in Rec : cache'[r].hash \in {cache[r].hash, {}}
    BY <1>0, <1>4 DEF Search, Missing
  <2> QED BY <2>1, <2>2, <2>3, <2>4 DEF Stays, Quietly
<1>5. CASE CacheAll(j)
  <2>1. job[j].at \in {"listed", "relisted"} /\ UNCHANGED work /\ spoilt \subseteq spoilt'
    BY <1>5 DEF CacheAll, orcidVars
  <2>2. PICK s : /\ Go(j, s) /\ s.at \notin {"written", "deleted"}
                 /\ s.at = "idle" \/ (s.task = job[j].task /\ s.rec \in {job[j].rec, job[j].task[1]})
    <3>1. CASE Go(j, Returned(j))
      BY <2>1, <3>1, ReturnedIs DEF OwnInv
    <3>2. CASE ~Go(j, Returned(j))
      <4> DEFINE next(at) == [[job[j] EXCEPT !.found = {}, !.putcode = OwnPutcode(j)] EXCEPT !.at = at]
                 clash == [[job[j] EXCEPT !.found = {}, !.putcode = OwnPutcode(j)] EXCEPT !.at = "clash", !.after = "post"]
      <4>1. /\ \A at : next(at).at = at /\ next(at).task = job[j].task /\ next(at).rec = job[j].rec
            /\ clash.at = "clash" /\ clash.task = job[j].task /\ clash.rec = job[j].rec
        BY <1>0 DEF JobState
      <4>2. Go(j, next("delete")) \/ Go(j, next("again")) \/ Go(j, clash)
        BY <1>5, <3>2 DEF CacheAll
      <4> HIDE DEF next, clash
      <4> QED BY <4>1, <4>2
    <3> QED BY <3>1, <3>2
  <2>3. job'[j] = s /\ Others(j)
    BY <2>2, JobIs
  <2>4. \A r \in Rec : cache'[r].hash = cache[r].hash
    BY <1>5, CacheAllIs
  <2> QED BY <2>1, <2>2, <2>3, <2>4 DEF Stays, Quietly
<1>6. CASE AgainRefused(j) \/ Interrupt(j) \/ GiveUp(j)
  <2>1. Go(j, Free) /\ UNCHANGED <<work, cache>> /\ spoilt \subseteq spoilt'
    BY <1>6 DEF AgainRefused, Interrupt, GiveUp, Retried, Over, orcidVars
  <2>2. job'[j] = Free /\ Others(j)
    BY <2>1, JobIs
  <2>3. job[j].at \in {"written", "deleted"} => <<"unanswered", job[j].rec>> \in spoilt'
    BY <1>6 DEF AgainRefused, Interrupt, GiveUp, Unanswered, On
  <2> QED BY <1>0, <2>1, <2>2, <2>3 DEF Stays, Quietly
<1>7. CASE ListClashes(j) \/ PushedClashing(j)
  <2>1. job[j].at \in {"clash", "clashes"} /\ UNCHANGED <<work, cache, spoilt>>
    BY <1>7 DEF ListClashes, PushedClashing, Retried, On, orcidVars
  <2>2. PICK s : /\ Go(j, s) /\ s.at \notin {"written", "deleted"}
                 /\ s.at = "idle" \/ (s.task = job[j].task /\ s.rec \in {job[j].rec, job[j].task[1]})
    <3> DEFINE list(drop, todo) == [job[j] EXCEPT !.at = "clashes", !.mine = job[j].ids, !.putcode = 0,
                                                  !.drop = drop, !.todo = todo]
               post == [job[j] EXCEPT !.at = "post", !.mine = {}]
    <3>1. /\ \A drop, todo : /\ list(drop, todo).at = "clashes" /\ list(drop, todo).task = job[j].task
                              /\ list(drop, todo).rec = job[j].rec
          /\ post.at = "post" /\ post.task = job[j].task /\ post.rec = job[j].rec
      BY <1>0 DEF JobState
    <3>2. (\E drop, todo : Go(j, list(drop, todo))) \/ Go(j, post) \/ Go(j, Free)
      BY <1>7 DEF ListClashes, PushedClashing, Retried
    <3> HIDE DEF list, post
    <3> QED BY <1>0, <3>1, <3>2
  <2>3. job'[j] = s /\ Others(j)
    BY <2>2, JobIs
  <2> QED BY <2>1, <2>2, <2>3, StillQuiet DEF Stays
<1>8. ASSUME NEW r \in Rec, PushClashing(j, r)
      PROVE  Quietly(j)
  <2>1. PICK s : Go(j, s) /\ s.at = "loaded"
    <3> DEFINE s == [job[j] EXCEPT !.at = "loaded", !.rec = r, !.todo = @ \ {r},
                                   !.ids = Latest(r).ids, !.gone = Latest(r).gone]
    <3>1. s.at = "loaded"
      BY <1>0 DEF JobState
    <3>2. Go(j, s)
      BY <1>8 DEF PushClashing
    <3> QED BY <3>1, <3>2
  <2>2. job[j].at \notin {"written", "deleted"} /\ UNCHANGED <<work, cache>> /\ spoilt \subseteq spoilt'
    BY <1>8 DEF PushClashing, On, orcidVars
  <2> QED BY <2>1, <2>2, JobIs, StillQuiet
<1> QED BY <1>1, <1>2, <1>3, <1>4, <1>5, <1>6, <1>7, <1>8

\* A record pushed by a second worker is crossed.
LEMMA UncrossedKept ==
  ASSUME OwnInv, Uncrossed, NEW j \in Job, Others(j), \A r \in Rec : Crossed(r) => Crossed(r)',
         \A r \in Rec : Pushes(job'[j], r) =>
           Pushes(job[j], r) \/ Crossed(r)' \/ \A k \in Job \ {j} : ~Pushes(job[k], r)
  PROVE  Uncrossed'
<1> SUFFICES ASSUME NEW r \in Rec, ~Crossed(r)', NEW k \in Job, NEW l \in Job,
                    Pushes(job'[k], r), Pushes(job'[l], r)
             PROVE  k = l
  BY DEF Uncrossed
<1>1. ~Crossed(r) /\ \A m \in Job \ {j} : job'[m] = job[m]
  BY DEF Others
<1> QED BY <1>1 DEF Uncrossed

\* Removing works never adds any.
LEMMA LessWorks ==
  ASSUME OwnInv, NEW p \in Putcode, work' = [work EXCEPT ![p] = NoWork]
  PROVE  /\ \A q \in Putcode \ {p} : work'[q] = work[q]
         /\ \A r \in Rec : Works(r)' = Works(r) \ {p}
         /\ \A r \in Rec : p \in Works(r) => work[p].rec = r
<1>1. work' \in [Putcode -> [rec : Rec \cup {NoRec}, ids : SUBSET Id]] /\ work'[p].rec = NoRec
  BY DEF OwnInv, OrcidHolds, NoWork
<1>2. \A q \in Putcode \ {p} : work'[q] = work[q]
  BY DEF OwnInv, OrcidHolds
<1>3. \A r \in Rec : r # NoRec
  BY PushAssumption
<1> QED BY <1>1, <1>2, <1>3 DEF Works

\* Quiet steps keep what the cache says true.
LEMMA QuietHolds ==
  ASSUME OwnInv, HitInv, NEW j \in Job, Quietly(j), Uncrossed'
  PROVE  HitInv'
<1>1. ASSUME NEW k \in Job
      PROVE  WrittenHolds(k)'
  <2>1. CASE k = j
    BY <2>1 DEF WrittenHolds, On, Quietly
  <2>2. CASE k # j
    <3>1. WrittenHolds(k) /\ job'[k] = job[k] /\ work' = work /\ spoilt \subseteq spoilt'
      BY <2>2 DEF HitInv, Quietly, Others
    <3> QED BY <3>1 DEF WrittenHolds, On, Crossed, Works, Spoilt
  <2> QED BY <2>1, <2>2
<1>2. ASSUME NEW r \in Rec
      PROVE  CacheTrue(r)'
  <2> SUFFICES ASSUME ~Spoilt({"unanswered", "crossed", "removed", "dropped"}, r)',
                      NotAt({"written", "deleted"}, r)', NEW I \in SUBSET Id, cache'[r].hash = {I}
               PROVE  \E p \in Works(r)' : work'[p].ids = I
    BY DEF CacheTrue
  <2>1. ~Spoilt({"unanswered", "crossed", "removed", "dropped"}, r)
    BY DEF Quietly, Spoilt
  <2>2. NotAt({"written", "deleted"}, r)
    <3> SUFFICES ASSUME NEW k \in Job, job[k].at \in {"written", "deleted"}, job[k].rec = r
                 PROVE  FALSE
      BY DEF NotAt
    <3>1. CASE k = j
      BY <3>1 DEF Quietly, Spoilt
    <3>2. CASE k # j
      <4>1. job'[k] = job[k]
        BY <3>2 DEF Quietly, Others
      <4> QED BY <4>1 DEF NotAt
    <3> QED BY <3>1, <3>2
  <2>3. cache[r].hash = {I} /\ work' = work
    BY DEF Quietly
  <2> QED BY <2>1, <2>2, <2>3 DEF HitInv, CacheTrue, Works
<1> QED BY <1>1, <1>2 DEF HitInv

\* A work goes, and what it was the work of is at "deleted" or no more to be relied on.
LEMMA WorkGoes ==
  ASSUME OwnInv, HitInv, NEW p \in Putcode, work' = [work EXCEPT ![p] = NoWork], spoilt \subseteq spoilt',
         \A r \in Rec : cache'[r].hash \in {cache[r].hash, {}},
         \A k \in Job : \/ job'[k] = job[k]
                        \/ job[k].at # "written" /\ job'[k].at # "written" /\ job'[k].rec = job[k].rec
                           /\ (job[k].at = "deleted" => job'[k].at = "deleted"),
         \A r \in Rec : p \in Works(r) =>
           /\ \/ Spoilt({"removed", "dropped"}, r)'
              \/ \E k \in Job : job'[k].at = "deleted" /\ job'[k].rec = r
           /\ \A k \in Job : On(k, "written") /\ job[k].rec = r /\ ~Crossed(r) => Spoilt({"removed", "dropped"}, r)',
         Uncrossed'
  PROVE  HitInv'
<1>1. /\ \A q \in Putcode \ {p} : work'[q] = work[q]
      /\ \A r \in Rec : Works(r)' = Works(r) \ {p}
  BY LessWorks
<1>2. ASSUME NEW k \in Job
      PROVE  WrittenHolds(k)'
  <2> SUFFICES ASSUME On(k, "written")'
               PROVE  WrittenHolds(k)'
    BY DEF WrittenHolds
  <2>1. job'[k] = job[k] /\ On(k, "written")
    BY DEF On
  <2>2. PICK w \in JobState : w = job[k]
    BY FieldsAre
  <2>3. w = job'[k] /\ w.at = "written" /\ WrittenHolds(k) /\ w.rec \in Rec /\ w.putcode \in Putcode
    <3>1. w.rec \in Rec /\ w.putcode \in 0..MaxPutcode /\ w.putcode # 0
      BY <2>1, <2>2, TaskIs DEF On, StateHolds, JobState
    <3> QED BY <2>1, <2>2, <3>1, Bound DEF HitInv, On
  <2> SUFFICES ASSUME ~Crossed(w.rec)'
               PROVE  /\ Works(w.rec)' \subseteq {w.putcode}
                      /\ ~Spoilt({"removed", "dropped"}, w.rec)' => work'[w.putcode] = [rec |-> w.rec, ids |-> w.ids]
    BY <2>3 DEF WrittenHolds, Crossed, Works, Spoilt
  <2>4. ~Crossed(w.rec)
    BY DEF Crossed
  <2>5. Works(w.rec)' \subseteq {w.putcode}
    BY <1>1, <2>1, <2>2, <2>3, <2>4 DEF WrittenHolds
  <2>6. ASSUME ~Spoilt({"removed", "dropped"}, w.rec)'
        PROVE  work'[w.putcode] = [rec |-> w.rec, ids |-> w.ids]
    <3>1. ~Spoilt({"removed", "dropped"}, w.rec)
      BY <2>6 DEF Spoilt
    <3>2. work[w.putcode] = [rec |-> w.rec, ids |-> w.ids]
      BY <2>1, <2>2, <2>3, <2>4, <3>1 DEF WrittenHolds
    <3>3. w.putcode \in Works(w.rec)
      BY <2>3, <3>2 DEF Works
    <3>4. w.putcode # p
      BY <2>1, <2>2, <2>3, <2>4, <2>6, <3>3
    <3> QED BY <1>1, <2>3, <3>2, <3>4
  <2> QED BY <2>5, <2>6
<1>3. ASSUME NEW r \in Rec
      PROVE  CacheTrue(r)'
  <2> SUFFICES ASSUME ~Spoilt({"unanswered", "crossed", "removed", "dropped"}, r)',
                      NotAt({"written", "deleted"}, r)', NEW I \in SUBSET Id, cache'[r].hash = {I}
               PROVE  \E q \in Works(r)' : work'[q].ids = I
    BY DEF CacheTrue
  <2>1. ~Spoilt({"unanswered", "crossed", "removed", "dropped"}, r) /\ ~Spoilt({"removed", "dropped"}, r)'
    BY DEF Spoilt
  <2>2. NotAt({"written", "deleted"}, r)
    BY DEF NotAt
  <2>3. p \notin Works(r)
    BY <2>1 DEF NotAt
  <2>4. PICK q \in Works(r) : work[q].ids = I
    <3>1. {I} # {} /\ cache'[r].hash \in {cache[r].hash, {}}
      OBVIOUS
    <3>2. cache[r].hash = {I}
      BY <3>1
    <3> QED BY <2>1, <2>2, <3>2 DEF HitInv, CacheTrue
  <2> QED BY <1>1, <2>3, <2>4 DEF Works
<1> QED BY <1>2, <1>3 DEF HitInv

\* A write holds a record that no other worker writes unless they cross.
LEMMA WriteHolds ==
  ASSUME OwnInv, HitInv, NEW j \in Job, Write(j), job[j].at \in {"push", "again", "post"}
  PROVE  HitInv' /\ Stays(j) /\ Others(j)
<1>1. PICK p \in Putcode :
        /\ work' = [work EXCEPT ![p] = [rec |-> job[j].rec, ids |-> job[j].ids]]
        /\ Live(p) => work[p].rec = job[j].rec
        /\ \A q \in Putcode \ {p} : work[q].rec # job[j].rec
        /\ job'[j].rec = job[j].rec /\ job'[j].task = job[j].task /\ job'[j].ids = job[j].ids
        /\ job'[j].at = "written" /\ job'[j].putcode = p
        /\ \A k \in Job \ {j} : job'[k] = job[k]
  BY WriteIs
<1> PICK r, ids : r \in Rec /\ r = job[j].rec /\ ids = job[j].ids
  BY TaskIs
<1>2. /\ work'[p] = [rec |-> r, ids |-> ids] /\ \A q \in Putcode \ {p} : work'[q] = work[q]
      /\ cache' = cache /\ spoilt' = spoilt \ ({"removed", "dropped"} \X {r})
  BY <1>1 DEF Write, OwnInv, OrcidHolds
<1>3. /\ Works(r)' = {p}
      /\ \A o \in Rec \ {r} : p \notin Works(o) /\ Works(o)' = Works(o)
  <2>1. \A o \in Rec : o # NoRec
    BY PushAssumption
  <2> QED BY <1>1, <1>2, <2>1 DEF Works, Live
<1>4. Stays(j) /\ Others(j)
  BY <1>1 DEF Stays, Others
<1>5. \A o \in Rec : Crossed(o) <=> Crossed(o)'
  BY <1>2 DEF Crossed
<1>6. Uncrossed'
  BY <1>1, <1>4, <1>5, UncrossedKept DEF HitInv, Pushes
<1>7. \A o \in Rec \ {r} : \A why : <<why, o>> \in spoilt <=> <<why, o>> \in spoilt'
  BY <1>2
<1>8. ASSUME NEW k \in Job
      PROVE  WrittenHolds(k)'
  <2>1. CASE k = j
    <3>1. job'[j].rec = r /\ job'[j].putcode = p /\ job'[j].ids = ids
      BY <1>1
    <3> QED BY <1>2, <1>3, <2>1, <3>1 DEF WrittenHolds, Works
  <2>2. CASE k # j /\ job[k].at = "written"
    <3>1. PICK w \in JobState : w = job[k]
      BY FieldsAre
    <3>2. /\ w = job'[k] /\ w.at = "written" /\ w.rec \in Rec /\ w.putcode \in Putcode /\ WrittenHolds(k)
      <4>1. w.rec \in Rec /\ w.putcode \in 0..MaxPutcode /\ w.putcode # 0
        BY <2>2, <3>1, TaskIs DEF StateHolds, JobState
      <4> QED BY <1>1, <2>2, <3>1, <4>1, Bound DEF HitInv
    <3>3. CASE w.rec = r
      <4>1. Crossed(r)
        BY <2>2, <3>1, <3>2, <3>3 DEF HitInv, Uncrossed, Pushes
      <4> QED BY <1>5, <3>2, <3>3, <4>1 DEF WrittenHolds, Crossed
    <3>4. CASE w.rec # r
      <4>1. ASSUME ~Crossed(w.rec)
            PROVE  /\ Works(w.rec)' \subseteq {w.putcode}
                   /\ ~Spoilt({"removed", "dropped"}, w.rec)' => work'[w.putcode] = [rec |-> w.rec, ids |-> w.ids]
        <5>1. Works(w.rec) \subseteq {w.putcode}
          BY <3>1, <3>2, <4>1 DEF WrittenHolds, On
        <5>2. ASSUME ~Spoilt({"removed", "dropped"}, w.rec)'
              PROVE  work'[w.putcode] = [rec |-> w.rec, ids |-> w.ids]
          <6>1. ~Spoilt({"removed", "dropped"}, w.rec)
            BY <1>7, <3>2, <3>4, <5>2 DEF Spoilt
          <6>2. work[w.putcode] = [rec |-> w.rec, ids |-> w.ids]
            BY <3>1, <3>2, <4>1, <6>1 DEF WrittenHolds, On
          <6>3. w.putcode \in Works(w.rec)
            BY <3>2, <6>2 DEF Works
          <6> QED BY <1>2, <1>3, <3>2, <3>4, <6>2, <6>3
        <5> QED BY <1>3, <3>2, <3>4, <5>1, <5>2
      <4>2. ~Crossed(w.rec)' => ~Crossed(w.rec)
        BY <1>5, <3>2
      <4> QED BY <3>2, <4>1, <4>2 DEF WrittenHolds, Crossed, Works, Spoilt
    <3> QED BY <3>3, <3>4
  <2>3. CASE k # j /\ job[k].at # "written"
    BY <1>1, <2>3 DEF WrittenHolds, On
  <2> QED BY <2>1, <2>2, <2>3
<1>9. ASSUME NEW o \in Rec
      PROVE  CacheTrue(o)'
  <2>1. CASE o = r
    BY <1>1, <2>1 DEF CacheTrue, NotAt
  <2>2. CASE o # r
    <3>1. Spoilt({"unanswered", "crossed", "removed", "dropped"}, o)
          <=> Spoilt({"unanswered", "crossed", "removed", "dropped"}, o)'
      BY <1>7, <2>2 DEF Spoilt
    <3>2. NotAt({"written", "deleted"}, o)' => NotAt({"written", "deleted"}, o)
      BY <1>1, <2>2 DEF NotAt
    <3>3. Works(o)' = Works(o) /\ \A q \in Works(o) : work'[q] = work[q]
      BY <1>2, <1>3, <2>2 DEF Works
    <3> QED BY <1>2, <3>1, <3>2, <3>3 DEF HitInv, CacheTrue
  <2> QED BY <2>1, <2>2
<1> QED BY <1>4, <1>6, <1>8, <1>9 DEF HitInv

\* The cache is told what was done.
LEMMA CacheToldHolds ==
  ASSUME OwnInv, HitInv, NEW j \in Job, CacheWritten(j) \/ CacheDeleted(j)
  PROVE  HitInv' /\ Stays(j) /\ Others(j)
<1>1. job[j].at \in {"written", "deleted"} /\ Go(j, Returned(j)) /\ work' = work
  BY DEF CacheWritten, CacheDeleted, On, orcidVars
<1>2. job'[j] = Returned(j) /\ Others(j) /\ Returned(j).at \in {"idle", "clashes"} /\ Stays(j)
  <2>1. job'[j] = Returned(j) /\ Others(j)
    BY <1>1, JobIs
  <2> QED BY <1>1, <2>1, ReturnedIs DEF OwnInv, Stays
<1> PICK r \in Rec, w \in JobState : r = w.rec /\ w = job[j]
  BY <1>1, TaskIs
<1>3. /\ \A o \in Rec \ {r} : cache'[o] = cache[o]
      /\ \A o \in Rec \ {r} : \A why : <<why, o>> \in spoilt <=> <<why, o>> \in spoilt'
      /\ \A why \in Reason \ {"unanswered"}, o \in Rec : <<why, o>> \in spoilt <=> <<why, o>> \in spoilt'
  BY DEF CacheWritten, CacheDeleted, OwnInv, CacheHolds
<1>4. \A o \in Rec : Crossed(o) <=> Crossed(o)'
  BY <1>3 DEF Crossed, Reason
<1>5. Uncrossed'
  BY <1>1, <1>2, <1>4, UncrossedKept DEF HitInv, Pushes, Stays
<1>6. ASSUME NEW k \in Job
      PROVE  WrittenHolds(k)'
  <2>1. CASE k = j
    BY <1>2, <2>1 DEF WrittenHolds, On
  <2>2. CASE k # j
    <3>1. job'[k] = job[k] /\ WrittenHolds(k)
      BY <1>2, <2>2 DEF Others, HitInv
    <3>2. job[k].at = "written" => job[k].rec \in Rec
      BY TaskIs
    <3> QED BY <1>1, <1>3, <3>1, <3>2 DEF WrittenHolds, On, Crossed, Works, Spoilt, Reason
  <2> QED BY <2>1, <2>2
<1>7. ASSUME NEW o \in Rec \ {r}
      PROVE  CacheTrue(o)'
  <2>1. Spoilt({"unanswered", "crossed", "removed", "dropped"}, o)
        <=> Spoilt({"unanswered", "crossed", "removed", "dropped"}, o)'
    BY <1>3 DEF Spoilt
  <2>2. NotAt({"written", "deleted"}, o)' => NotAt({"written", "deleted"}, o)
    BY <1>2 DEF NotAt, Others
  <2>3. Works(o)' = Works(o)
    BY <1>1 DEF Works
  <2> QED BY <1>1, <1>3, <2>1, <2>2, <2>3 DEF HitInv, CacheTrue
<1>8. CacheTrue(r)'
  <2> SUFFICES ASSUME ~Spoilt({"unanswered", "crossed", "removed", "dropped"}, r)',
                      NEW I \in SUBSET Id, cache'[r].hash = {I}
               PROVE  \E q \in Works(r)' : work'[q].ids = I
    BY DEF CacheTrue
  <2>1. CASE CacheDeleted(j)
    <3>1. cache'[r] = Uncached
      BY <2>1 DEF CacheDeleted, OwnInv, CacheHolds
    <3>2. {I} # {}
      OBVIOUS
    <3> QED BY <3>1, <3>2 DEF Uncached
  <2>2. CASE CacheWritten(j)
    <3>1. cache'[r].hash = {w.ids} /\ w.at = "written"
      BY <2>2 DEF CacheWritten, OwnInv, CacheHolds, Hash, On
    <3>2. w.ids = I
      BY <3>1
    <3>3. ~Spoilt({"removed", "dropped"}, r) /\ ~Crossed(r)
      BY <1>3 DEF Spoilt, Crossed, Reason
    <3>4. work[w.putcode] = [rec |-> w.rec, ids |-> w.ids]
      BY <3>1, <3>3 DEF HitInv, WrittenHolds, On
    <3>5. w.putcode \in Putcode
      <4>1. w.putcode \in 0..MaxPutcode /\ w.putcode # 0
        BY <1>1, <3>1, TaskIs DEF StateHolds, JobState
      <4> QED BY <4>1, Bound
    <3> QED BY <1>1, <3>2, <3>4, <3>5 DEF Works
  <2> QED BY <2>1, <2>2
<1> QED BY <1>2, <1>5, <1>6, <1>7, <1>8 DEF HitInv

\* Every step keeps the cache true of uncrossed records.
LEMMA HitStep ==
  ASSUME OwnInv, HitInv, [Next]_vars
  PROVE  HitInv'
<1>1. ASSUME UNCHANGED <<job, work, cache>>, spoilt \subseteq spoilt'
      PROVE  HitInv'
  <2>1. Uncrossed'
    BY <1>1 DEF HitInv, Uncrossed, Crossed
  <2>2. \A k \in Job : WrittenHolds(k)'
    BY <1>1 DEF HitInv, WrittenHolds, On, Crossed, Works, Spoilt
  <2>3. \A r \in Rec : CacheTrue(r)'
    BY <1>1 DEF HitInv, CacheTrue, NotAt, Works, Spoilt
  <2> QED BY <2>1, <2>2, <2>3 DEF HitInv
<1>2. CASE UNCHANGED vars
  BY <1>1, <1>2 DEF vars
<1>3. ASSUME NEW r \in Rec, Update(r) \/ Commit(r) \/ Rollback(r)
      PROVE  HitInv'
  BY <1>1, <1>3 DEF Update, Commit, Rollback, orcidVars
<1>4. ASSUME NEW t \in sent, DropTask(t)
      PROVE  HitInv'
  BY <1>1, <1>4 DEF DropTask, orcidVars
<1>5. ASSUME NEW p \in Putcode, RemoveWork(p)
      PROVE  HitInv'
  <2>1. /\ work' = [work EXCEPT ![p] = NoWork] /\ UNCHANGED <<job, cache>>
        /\ spoilt' = spoilt \cup {<<"removed", work[p].rec>>}
    BY <1>5 DEF RemoveWork
  <2>2. Uncrossed'
    BY <2>1 DEF HitInv, Uncrossed, Crossed
  <2>3. \A r \in Rec : p \in Works(r) => Spoilt({"removed", "dropped"}, r)'
    BY <2>1 DEF Works, Spoilt
  <2> QED BY <2>1, <2>2, <2>3, WorkGoes
<1>6. ASSUME NEW j \in Job, Quietly(j), Stays(j) \/ Load(j) \/ \E r \in Rec : PushClashing(j, r)
      PROVE  HitInv'
  <2>1. \A r \in Rec : Crossed(r) => Crossed(r)'
    BY <1>6 DEF Quietly, Crossed
  <2>2. ASSUME NEW r \in Rec, Pushes(job'[j], r)
        PROVE  Pushes(job[j], r) \/ Crossed(r)' \/ \A k \in Job \ {j} : ~Pushes(job[k], r)
    <3>1. CASE Stays(j)
      BY <2>2, <3>1 DEF Stays, Pushes
    <3>2. CASE Load(j)
      <4>1. PICK t \in sent : /\ spoilt' = spoilt \cup Crossing(j, t[1])
                              /\ Go(j, [Free EXCEPT !.at = "loaded", !.task = t, !.rec = t[1],
                                          !.ids = Latest(t[1]).ids, !.gone = Latest(t[1]).gone])
        BY <3>2 DEF Load
      <4>2. job'[j].rec = t[1] /\ job'[j].task = t
        <5>1. job'[j] = [Free EXCEPT !.at = "loaded", !.task = t, !.rec = t[1],
                                     !.ids = Latest(t[1]).ids, !.gone = Latest(t[1]).gone]
          BY <4>1, JobIs
        <5> QED BY <5>1 DEF Free
      <4>3. r = t[1]
        BY <2>2, <4>2 DEF Pushes
      <4> QED BY <4>1, <4>3 DEF Crossing, Pushes, Crossed
    <3>3. ASSUME NEW o \in Rec, PushClashing(j, o)
          PROVE  Pushes(job[j], r) \/ Crossed(r)' \/ \A k \in Job \ {j} : ~Pushes(job[k], r)
      <4>1. job'[j].rec = o /\ job'[j].task = job[j].task
        <5>1. job'[j] = [job[j] EXCEPT !.at = "loaded", !.rec = o, !.todo = @ \ {o},
                                       !.ids = Latest(o).ids, !.gone = Latest(o).gone]
          BY <3>3, JobIs DEF PushClashing
        <5> QED BY <5>1, FieldsAre DEF JobState
      <4>2. r = o \/ Pushes(job[j], r)
        BY <2>2, <3>3, <4>1 DEF Pushes, PushClashing, On
      <4>3. spoilt' = spoilt \cup Crossing(j, o)
        BY <3>3 DEF PushClashing
      <4> QED BY <4>2, <4>3 DEF Crossing, Pushes, Crossed
    <3> QED BY <1>6, <3>1, <3>2, <3>3
  <2>3. Uncrossed'
    BY <1>6, <2>1, <2>2, UncrossedKept DEF HitInv, Quietly
  <2> QED BY <1>6, <2>3, QuietHolds
<1>7. ASSUME NEW j \in Job, Delete(j)
      PROVE  HitInv'
  <2>1. /\ job[j].at = "delete" /\ work' = [work EXCEPT ![job[j].putcode] = NoWork] /\ UNCHANGED <<cache, spoilt>>
        /\ Go(j, [job[j] EXCEPT !.at = "deleted"])
    BY <1>7 DEF Delete, On
  <2>2. PICK p \in Putcode, r \in Rec : p = job[j].putcode /\ r = job[j].rec /\ (Live(p) => work[p].rec = r)
    <3>1. /\ job[j].putcode \in 0..MaxPutcode /\ job[j].putcode # 0 /\ job[j].rec \in Rec
          /\ Owned(job[j].putcode, job[j].rec)
      BY <2>1, TaskIs DEF StateHolds, JobState, StateOwns
    <3> QED BY <3>1, Bound DEF Owned
  <2>3. job'[j].at = "deleted" /\ job'[j].rec = r /\ job'[j].task = job[j].task /\ Others(j)
    <3>1. job'[j] = [job[j] EXCEPT !.at = "deleted"] /\ Others(j)
      BY <2>1, JobIs
    <3> QED BY <2>2, <3>1, FieldsAre DEF JobState
  <2>4. Uncrossed'
    BY <2>1, <2>2, <2>3, UncrossedKept DEF HitInv, Crossed, Pushes
  <2>5. \A o \in Rec : p \in Works(o) => o = r
    BY <2>2, PushAssumption DEF Works, Live
  <2>6. \A k \in Job : On(k, "written") /\ job[k].rec = r /\ ~Crossed(r) => k = j
    BY <2>1, <2>2 DEF HitInv, Uncrossed, Pushes, On
  <2>7. \A k \in Job : ~(On(k, "written") /\ job[k].rec = r /\ ~Crossed(r))
    BY <2>1, <2>6 DEF On
  <2> QED BY <2>1, <2>2, <2>3, <2>4, <2>5, <2>7, WorkGoes DEF Others
<1>8. ASSUME NEW j \in Job, NEW p \in Putcode, DropClashing(j, p)
      PROVE  HitInv'
  <2>1. /\ job[j].at = "clashes" /\ work' = [work EXCEPT ![p] = NoWork]
        /\ cache' = [cache EXCEPT ![job[j].rec] = Uncached]
        /\ spoilt' = spoilt \cup {<<"dropped", r>> : r \in {work[p].rec} \ {NoRec}}
        /\ Go(j, [job[j] EXCEPT !.drop = @ \ {p}])
    BY <1>8 DEF DropClashing, On
  <2>2. job'[j].at = "clashes" /\ job'[j].rec = job[j].rec /\ job'[j].task = job[j].task /\ Others(j)
    <3>1. job'[j] = [job[j] EXCEPT !.drop = @ \ {p}] /\ Others(j)
      BY <2>1, JobIs
    <3> QED BY <2>1, <3>1, FieldsAre DEF JobState
  <2>3. \A r \in Rec : p \in Works(r) => Spoilt({"removed", "dropped"}, r)'
    BY <2>1, PushAssumption DEF Works, Spoilt
  <2>4. \A r \in Rec : cache'[r].hash \in {cache[r].hash, {}}
    BY <2>1 DEF OwnInv, CacheHolds, Uncached
  <2>5. Uncrossed'
    BY <2>1, <2>2, UncrossedKept DEF HitInv, Crossed, Pushes
  <2> QED BY <2>1, <2>2, <2>3, <2>4, <2>5, WorkGoes DEF Others
<1>9. ASSUME NEW j \in Job, Push(j) \/ Again(j)
      PROVE  HitInv'
  BY <1>9, WriteHolds DEF Push, Again, On
<1> QED
  BY <1>2, <1>3, <1>4, <1>5, <1>6, <1>7, <1>8, <1>9, QuietSteps, CacheToldHolds DEF Next, Step

\* What the cache says of an uncrossed record is what ORCID has.
LEMMA HitInvariant == Spec => [](OwnInv /\ HitInv)
<1>1. Init => HitInv
  <2> SUFFICES ASSUME Init
               PROVE  HitInv
    OBVIOUS
  <2>1. \A j \in Job : job[j].at = "idle"
    BY DEF Init, Free
  <2>2. \A r \in Rec : cache[r].hash = {}
    BY DEF Init, Uncached
  <2> QED BY <2>1, <2>2 DEF HitInv, Uncrossed, Pushes, WrittenHolds, On, CacheTrue
<1>2. OwnInv /\ HitInv /\ [Next]_vars => HitInv'
  BY HitStep
<1> QED BY <1>1, <1>2, OwnInvariant, PTL DEF Spec

\* A push that the cache makes unnecessary had nothing to do: what the cache says
\* was pushed is at ORCID, unless an answer of ORCID was lost, pushes of the
\* record overlapped, or the work was deleted for another reason.
THEOREM CacheHitsAreTrue == Spec => []CacheHitIsTrue
<1>1. OwnInv /\ HitInv => CacheHitIsTrue
  <2> SUFFICES ASSUME OwnInv, HitInv, NEW r \in Rec, ~Busy(r), ~Spoilt(Reason \ {"outage"}, r),
                      cache[r].hash = {Latest(r).ids}
               PROVE  \E p \in Works(r) : work[p].ids = Latest(r).ids
    BY DEF CacheHitIsTrue
  <2>1. NotAt({"written", "deleted"}, r)
    BY DEF Busy, NotAt
  <2>2. ~Spoilt({"unanswered", "crossed", "removed", "dropped"}, r)
    BY DEF Spoilt, Reason
  <2>3. Latest(r).ids \in SUBSET Id
    BY LatestIs DEF OwnInv, Content
  <2> QED BY <2>1, <2>2, <2>3 DEF HitInv, CacheTrue
<1> QED BY <1>1, HitInvariant, PTL

-----------------------------------------------------------------------------
(* ORCID: what a task leaves behind                                        *)

\* How a step of a worker that does not load a task leaves it.
SameTask(j) ==
  /\ job[j].at # "idle" /\ job'[j].at # "idle"
  /\ job'[j].at = "clashes" => job[j].at = "clashes"
  /\ job'[j].task = job[j].task /\ job'[j].rec = job[j].rec
  /\ job'[j].ids = job[j].ids /\ job'[j].gone = job[j].gone /\ job'[j].mine = job[j].mine
Posts(j) == job[j].at = "clashes" /\ job'[j] = [job[j] EXCEPT !.at = "post", !.mine = {}]
Turns(j) ==
  /\ Others(j)
  /\ \/ SameTask(j) \/ job'[j] = Free \/ (job[j].at # "idle" /\ job'[j] = Returned(j))
     \/ ListClashes(j) \/ Posts(j) \/ \E r \in Rec : PushClashing(j, r)
  /\ job'[j].found \in {job[j].found, {}} \/ (job'[j].found = AllWorks /\ UNCHANGED work)
  /\ job'[j].at = "listed" => job'[j].found = AllWorks /\ UNCHANGED work
  /\ job'[j].at = "delete" => Compare(j) \/ CacheAll(j)
  /\ job'[j].at = "deleted" => Delete(j)
  /\ job'[j].at = "written" => Write(j) /\ job[j].at \in {"push", "again", "post"}

\* A step to the next call of a push, with nothing else changed, is a turn.
LEMMA NextAt ==
  ASSUME OwnInv, NEW j \in Job, job[j].at # "idle", NEW s, Go(j, s), NEW at, at # "idle", at # "clashes",
         s.at = at, s.task = job[j].task, s.rec = job[j].rec, s.ids = job[j].ids, s.gone = job[j].gone,
         s.mine = job[j].mine, s.found \in {job[j].found, {}},
         at \notin {"listed", "deleted", "written"}, at = "delete" => Compare(j) \/ CacheAll(j)
  PROVE  Turns(j)
<1>1. job'[j] = s /\ Others(j)
  BY JobIs
<1>2. SameTask(j)
  BY <1>1 DEF SameTask
<1> QED BY <1>1, <1>2 DEF Turns

\* The end of a push is a turn.
LEMMA FreeTurn ==
  ASSUME OwnInv, NEW j \in Job, Go(j, Free)
  PROVE  Turns(j)
<1>1. job'[j] = Free /\ Others(j)
  BY JobIs
<1>2. Free.found = {} /\ Free.at = "idle"
  BY DEF Free
<1> QED BY <1>1, <1>2 DEF Turns

\* So is the return from a nested push.
LEMMA ReturnTurn ==
  ASSUME OwnInv, NEW j \in Job, job[j].at # "idle", Go(j, Returned(j))
  PROVE  Turns(j)
<1>1. job'[j] = Returned(j) /\ Others(j)
  BY JobIs
<1>2. Returned(j).found = {} /\ Returned(j).at \in {"idle", "clashes"}
  BY ReturnedIs DEF OwnInv
<1> QED BY <1>1, <1>2 DEF Turns

\* So is every step of a push but its first.
LEMMA TurnIs ==
  ASSUME OwnInv, NEW j \in Job, Step(j) \/ Interrupt(j) \/ GiveUp(j), ~Load(j)
  PROVE  Turns(j)
<1>0. job[j] \in JobState /\ Free.at = "idle"
  BY FreeIs DEF OwnInv, JobsHold
<1>1. CASE Compare(j)
  <2>1. job[j].at = "loaded" /\ job[j].at # "idle"
    BY <1>1 DEF Compare, On
  <2>2. CASE Go(j, Returned(j))
    BY <2>1, <2>2, ReturnTurn
  <2>3. ASSUME NEW at \in {"push", "search", "delete"}, NEW c, Go(j, [job[j] EXCEPT !.at = at, !.putcode = c])
        PROVE  Turns(j)
    <3> DEFINE s == [job[j] EXCEPT !.at = at, !.putcode = c]
    <3>1. /\ s.at = at /\ s.task = job[j].task /\ s.rec = job[j].rec /\ s.ids = job[j].ids
          /\ s.gone = job[j].gone /\ s.mine = job[j].mine /\ s.found = job[j].found
      BY <1>0 DEF JobState
    <3>2. Go(j, s)
      BY <2>3
    <3> HIDE DEF s
    <3> QED BY <1>1, <2>1, <3>1, <3>2, NextAt
  <2> QED BY <1>1, <2>2, <2>3 DEF Compare
<1>2. CASE Push(j) \/ Again(j)
  <2>1. job[j].at \in {"push", "again", "post"} /\ Write(j)
    BY <1>2 DEF Push, Again, On
  <2>2. ~job[j].gone /\ job[j].gone \in BOOLEAN
    BY <2>1, TaskIs DEF StateHolds, JobState
  <2>3. /\ job'[j].rec = job[j].rec /\ job'[j].task = job[j].task /\ job'[j].ids = job[j].ids
        /\ job'[j].at = "written" /\ job'[j].gone = FALSE
        /\ job'[j].found = job[j].found /\ job'[j].mine = job[j].mine /\ Others(j)
    BY <2>1, WriteIs DEF Others
  <2>4. SameTask(j)
    BY <2>1, <2>2, <2>3 DEF SameTask
  <2> QED BY <2>1, <2>3, <2>4 DEF Turns
<1>3. CASE PushRefused(j)
  <2>1. job[j].at = "push"
    BY <1>3 DEF PushRefused, On
  <2> DEFINE miss == [job[j] EXCEPT !.at = "missing", !.putcode = 0]
             next(at) == [job[j] EXCEPT !.at = at]
  <2>2. /\ miss.at = "missing" /\ miss.task = job[j].task /\ miss.rec = job[j].rec /\ miss.ids = job[j].ids
        /\ miss.gone = job[j].gone /\ miss.mine = job[j].mine /\ miss.found = job[j].found
        /\ \A at : /\ next(at).at = at /\ next(at).task = job[j].task /\ next(at).rec = job[j].rec
                   /\ next(at).ids = job[j].ids /\ next(at).gone = job[j].gone
                   /\ next(at).mine = job[j].mine /\ next(at).found = job[j].found
    BY <1>0 DEF JobState
  <2>3. Go(j, miss) \/ Go(j, next("search")) \/ Go(j, next("clash")) \/ Go(j, Free)
    BY <1>3 DEF PushRefused
  <2> HIDE DEF miss, next
  <2>4. CASE Go(j, miss)
    BY <2>1, <2>2, <2>4, NextAt
  <2>5. ASSUME NEW at \in {"search", "clash"}, Go(j, next(at))
        PROVE  Turns(j)
    BY <2>1, <2>2, <2>5, NextAt
  <2> QED BY <2>3, <2>4, <2>5, FreeTurn
<1>4. CASE Search(j) \/ Missing(j)
  <2>1. job[j].at # "idle" /\ UNCHANGED work
    BY <1>4 DEF Search, Missing, On, orcidVars
  <2> DEFINE next(at) == [job[j] EXCEPT !.at = at, !.found = AllWorks]
  <2>2. \A at : /\ next(at).at = at /\ next(at).task = job[j].task /\ next(at).rec = job[j].rec
                /\ next(at).ids = job[j].ids /\ next(at).gone = job[j].gone
                /\ next(at).mine = job[j].mine /\ next(at).found = AllWorks
    BY <1>0 DEF JobState
  <2>3. PICK at \in {"listed", "relisted"} : Go(j, next(at))
    BY <1>4 DEF Search, Missing
  <2> HIDE DEF next
  <2>4. job'[j] = next(at) /\ Others(j)
    BY <2>3, JobIs
  <2>5. SameTask(j)
    BY <2>1, <2>2, <2>4 DEF SameTask
  <2> QED BY <2>1, <2>2, <2>4, <2>5 DEF Turns
<1>5. CASE CacheAll(j)
  <2>1. job[j].at # "idle"
    BY <1>5 DEF CacheAll
  <2>2. CASE Go(j, Returned(j))
    BY <2>1, <2>2, ReturnTurn
  <2>3. CASE ~Go(j, Returned(j))
    <3> DEFINE next(at) == [[job[j] EXCEPT !.found = {}, !.putcode = OwnPutcode(j)] EXCEPT !.at = at]
               clash == [[job[j] EXCEPT !.found = {}, !.putcode = OwnPutcode(j)] EXCEPT !.at = "clash", !.after = "post"]
    <3>1. /\ \A at : /\ next(at).at = at /\ next(at).task = job[j].task /\ next(at).rec = job[j].rec
                     /\ next(at).ids = job[j].ids /\ next(at).gone = job[j].gone
                     /\ next(at).mine = job[j].mine /\ next(at).found = {}
          /\ clash.at = "clash" /\ clash.task = job[j].task /\ clash.rec = job[j].rec /\ clash.ids = job[j].ids
          /\ clash.gone = job[j].gone /\ clash.mine = job[j].mine /\ clash.found = {}
      BY <1>0 DEF JobState
    <3>2. Go(j, next("delete")) \/ Go(j, next("again")) \/ Go(j, clash)
      BY <1>5, <2>3 DEF CacheAll
    <3> HIDE DEF next, clash
    <3>3. ASSUME NEW at \in {"delete", "again"}, Go(j, next(at))
          PROVE  Turns(j)
      BY <1>5, <2>1, <3>1, <3>3, NextAt
    <3>4. CASE Go(j, clash)
      BY <2>1, <3>1, <3>4, NextAt
    <3> QED BY <3>2, <3>3, <3>4
  <2> QED BY <2>2, <2>3
<1>6. CASE AgainRefused(j) \/ Interrupt(j) \/ GiveUp(j)
  BY <1>6, FreeTurn DEF AgainRefused, Interrupt, GiveUp, Retried, Over
<1>7. CASE CacheWritten(j) \/ CacheDeleted(j)
  BY <1>7, ReturnTurn DEF CacheWritten, CacheDeleted, On
<1>8. CASE Delete(j)
  <2> DEFINE s == [job[j] EXCEPT !.at = "deleted"]
  <2>1. /\ s.at = "deleted" /\ s.task = job[j].task /\ s.rec = job[j].rec /\ s.ids = job[j].ids
        /\ s.gone = job[j].gone /\ s.mine = job[j].mine /\ s.found = job[j].found
    BY <1>0 DEF JobState
  <2>2. job[j].at # "idle" /\ job'[j] = s /\ Others(j)
    BY <1>8, JobIs DEF Delete, On
  <2> HIDE DEF s
  <2> QED BY <1>8, <2>1, <2>2 DEF Turns, SameTask
<1>9. CASE ListClashes(j)
  <2>1. PICK drop, todo : Go(j, [job[j] EXCEPT !.at = "clashes", !.mine = job[j].ids, !.putcode = 0,
                                               !.drop = drop, !.todo = todo])
    BY <1>9 DEF ListClashes
  <2> DEFINE s == [job[j] EXCEPT !.at = "clashes", !.mine = job[j].ids, !.putcode = 0, !.drop = drop, !.todo = todo]
  <2>2. s.at = "clashes" /\ s.found = job[j].found
    BY <1>0 DEF JobState
  <2>3. job'[j] = s /\ Others(j)
    BY <2>1, JobIs
  <2> HIDE DEF s
  <2> QED BY <1>9, <2>2, <2>3 DEF Turns
<1>10. CASE PushedClashing(j)
  <2>1. CASE Go(j, Free)
    BY <2>1, FreeTurn
  <2>2. CASE Go(j, [job[j] EXCEPT !.at = "post", !.mine = {}])
    <3> DEFINE s == [job[j] EXCEPT !.at = "post", !.mine = {}]
    <3>1. s.at = "post" /\ s.found = job[j].found
      BY <1>0 DEF JobState
    <3>2. job'[j] = s /\ Others(j) /\ job[j].at = "clashes"
      BY <1>10, <2>2, JobIs DEF PushedClashing, On
    <3>3. Posts(j)
      BY <3>2 DEF Posts
    <3> HIDE DEF s
    <3> QED BY <3>1, <3>2, <3>3 DEF Turns
  <2> QED BY <1>10, <2>1, <2>2 DEF PushedClashing, Retried
<1>11. ASSUME NEW p \in Putcode, DropClashing(j, p)
       PROVE  Turns(j)
  <2> DEFINE s == [job[j] EXCEPT !.drop = @ \ {p}]
  <2>1. /\ s.at = job[j].at /\ s.task = job[j].task /\ s.rec = job[j].rec /\ s.ids = job[j].ids
        /\ s.gone = job[j].gone /\ s.mine = job[j].mine /\ s.found = job[j].found
    BY <1>0 DEF JobState
  <2>2. job[j].at = "clashes" /\ job'[j] = s /\ Others(j)
    BY <1>11, JobIs DEF DropClashing, On
  <2> HIDE DEF s
  <2> QED BY <2>1, <2>2 DEF Turns, SameTask
<1>12. ASSUME NEW r \in Rec, PushClashing(j, r)
       PROVE  Turns(j)
  <2> DEFINE s == [job[j] EXCEPT !.at = "loaded", !.rec = r, !.todo = @ \ {r},
                                 !.ids = Latest(r).ids, !.gone = Latest(r).gone]
  <2>1. s.at = "loaded" /\ s.found = job[j].found
    BY <1>0 DEF JobState
  <2>2. job'[j] = s /\ Others(j)
    BY <1>12, JobIs DEF PushClashing
  <2> HIDE DEF s
  <2> QED BY <1>12, <2>1, <2>2 DEF Turns
<1> QED
  BY <1>1, <1>2, <1>3, <1>4, <1>5, <1>6, <1>7, <1>8, <1>9, <1>10, <1>11, <1>12 DEF Step

\* A task has what is committed, or one that will load it waits; and what a task
\* pushes when it comes back from the works it clashes with is its record.
Doubted(r) == Spoilt({"crossed", "outage"}, r)
NextTask(r) == <<r, Len(history[r])>>
StateFresh(w) ==
  w.at # "idle" =>
    /\ ~Doubted(w.rec) =>
         NextTask(w.rec) \in sent \/ (w.ids = Latest(w.rec).ids /\ w.gone = Latest(w.rec).gone)
    /\ (w.rec # w.task[1] \/ w.at = "clashes") /\ ~Doubted(w.task[1]) =>
         NextTask(w.task[1]) \in sent \/ (w.mine = Latest(w.task[1]).ids /\ Latest(w.task[1]).gone = FALSE)
PendingHolds ==
  \A r \in Rec : pending[r] # {} => <<r, Len(history[r]) + 1>> \in sent \/ <<"outage", r>> \in spoilt
FreshInv == PendingHolds /\ \A j \in Job : StateFresh(job[j])

\* What is spoilt stays spoilt.
LEMMA DoubtsStay ==
  ASSUME OwnInv, [Next]_vars
  PROVE  \A r \in Rec : (Crossed(r) => Crossed(r)') /\ (Doubted(r) => Doubted(r)')
                        /\ (<<"outage", r>> \in spoilt => <<"outage", r>> \in spoilt')
<1> SUFFICES ASSUME NEW r \in Rec, NEW why \in {"crossed", "outage"}, <<why, r>> \in spoilt
             PROVE  <<why, r>> \in spoilt'
  BY DEF Crossed, Doubted, Spoilt
<1>1. ASSUME NEW j \in Job, Step(j) \/ Interrupt(j) \/ GiveUp(j)
      PROVE  <<why, r>> \in spoilt'
  <2>1. CASE Push(j) \/ Again(j)
    BY <2>1 DEF Push, Again, Write
  <2>2. CASE CacheWritten(j)
    BY <2>2 DEF CacheWritten
  <2>3. CASE Delete(j) \/ CacheDeleted(j)
    BY <2>3 DEF Delete, CacheDeleted
  <2>4. ASSUME NEW p \in Putcode, DropClashing(j, p)
        PROVE  <<why, r>> \in spoilt'
    BY <2>4 DEF DropClashing
  <2> QED BY <1>1, <2>1, <2>2, <2>3, <2>4, QuietSteps DEF Step, Quietly
<1> QED
  BY <1>1 DEF Next, Update, Commit, Rollback, DropTask, RemoveWork, vars

\* A push drops no message and changes no record.
LEMMA SentStays ==
  ASSUME NEW j \in Job, Step(j) \/ Interrupt(j) \/ GiveUp(j), ~Load(j)
  PROVE  UNCHANGED recVars /\ sent \subseteq sent'
BY DEF Step, Interrupt, GiveUp, Compare, Push, PushRefused, Search, Missing, CacheAll, Again, AgainRefused,
       CacheWritten, Delete, CacheDeleted, ListClashes, PushedClashing, DropClashing, PushClashing,
       Write, Retried, Over

\* A task that has what is committed, or has a later task after it, still does.
LEMMA StateFreshStays ==
  ASSUME OwnInv, [Next]_vars, UNCHANGED history, sent \subseteq sent', NEW w \in JobState,
         w.at # "idle" => w.rec \in Rec /\ w.task[1] \in Rec, StateFresh(w)
  PROVE  StateFresh(w)'
<1>1. \A r \in Rec : Doubted(r) => Doubted(r)'
  BY DoubtsStay
<1> QED BY <1>1 DEF StateFresh, NextTask, Latest

\* Every step keeps a task fresh or followed.
LEMMA FreshStep ==
  ASSUME OwnInv, FreshInv, [Next]_vars
  PROVE  FreshInv'
<1>0. \A j \in Job : /\ job[j] \in JobState /\ StateFresh(job[j])
                     /\ job[j].at # "idle" => job[j].rec \in Rec /\ job[j].task[1] \in Rec
  BY TaskIs, FieldsAre DEF FreshInv
<1>a. \A r \in Rec : Doubted(r) => Doubted(r)'
  BY DoubtsStay
<1>b. \A r \in Rec : Len(history[r]) \in Nat
  BY LatestIs DEF OwnInv
<1>1. ASSUME UNCHANGED <<history, job>>, sent \subseteq sent', PendingHolds'
      PROVE  FreshInv'
  <2>1. ASSUME NEW j \in Job
        PROVE  StateFresh(job[j])'
    <3>1. PICK w \in JobState : w = job[j]
      BY <1>0
    <3>2. StateFresh(w)'
      BY <1>0, <1>1, <3>1, StateFreshStays
    <3> QED BY <1>1, <3>1, <3>2 DEF StateFresh
  <2> QED BY <1>1, <2>1 DEF FreshInv
<1>2. CASE UNCHANGED vars
  BY <1>1, <1>2 DEF FreshInv, PendingHolds, vars
<1>3. ASSUME NEW r \in Rec, Update(r)
      PROVE  FreshInv'
  <2>1. /\ UNCHANGED <<history, job, spoilt>> /\ sent' = sent \cup {<<r, Len(history[r]) + 1>>}
        /\ \A o \in Rec \ {r} : pending'[o] = pending[o]
    BY <1>3 DEF Update, OwnInv, RecordsHold
  <2>2. PendingHolds'
    BY <2>1 DEF FreshInv, PendingHolds
  <2> QED BY <1>1, <2>1, <2>2
<1>4. ASSUME NEW r \in Rec, Rollback(r)
      PROVE  FreshInv'
  <2>1. UNCHANGED <<history, job, spoilt, sent>> /\ \A o \in Rec : pending'[o] \in {pending[o], {}}
    BY <1>4 DEF Rollback, OwnInv, RecordsHold
  <2>2. PendingHolds'
    BY <2>1 DEF FreshInv, PendingHolds
  <2> QED BY <1>1, <2>1, <2>2
<1>5. ASSUME NEW p \in Putcode, RemoveWork(p)
      PROVE  FreshInv'
  <2>1. UNCHANGED <<history, pending, job, sent>> /\ spoilt \subseteq spoilt'
    BY <1>5 DEF RemoveWork, recVars
  <2>2. PendingHolds'
    BY <2>1 DEF FreshInv, PendingHolds
  <2> QED BY <1>1, <2>1, <2>2
<1>6. ASSUME NEW r \in Rec, Commit(r)
      PROVE  FreshInv'
  <2>1. PICK c \in pending[r] : history' = [history EXCEPT ![r] = Append(@, c)]
    BY <1>6 DEF Commit
  <2>2. /\ UNCHANGED <<job, sent, spoilt>> /\ pending'[r] = {}
        /\ \A o \in Rec \ {r} : pending'[o] = pending[o] /\ history'[o] = history[o]
    BY <1>6, <2>1 DEF Commit, OwnInv, RecordsHold
  <2>3. Len(history'[r]) = Len(history[r]) + 1
    <3>1. history'[r] = Append(history[r], c) /\ history[r] \in Seq(Content) /\ c \in Content
      BY <2>1 DEF OwnInv, RecordsHold
    <3> QED BY <3>1
  <2>4. PendingHolds'
    BY <2>2 DEF FreshInv, PendingHolds
  <2>5. Doubted(r)' \/ NextTask(r)' \in sent'
    BY <2>1, <2>2, <2>3 DEF FreshInv, PendingHolds, Doubted, Spoilt, NextTask
  <2>6. ASSUME NEW j \in Job
        PROVE  StateFresh(job[j])'
    <3>1. PICK w \in JobState : w = job[j]
      BY <1>0
    <3>2. \A o \in Rec \ {r} : NextTask(o)' = NextTask(o) /\ Latest(o)' = Latest(o)
      BY <2>2 DEF NextTask, Latest
    <3>3. StateFresh(w)'
      <4> SUFFICES ASSUME w.at # "idle"
                   PROVE  StateFresh(w)'
        BY DEF StateFresh
      <4>1. w.rec \in Rec /\ w.task[1] \in Rec /\ StateFresh(w)
        BY <1>0, <3>1
      <4>2. ~Doubted(w.rec)' =>
              NextTask(w.rec)' \in sent' \/ (w.ids = Latest(w.rec).ids /\ w.gone = Latest(w.rec).gone)'
        <5>1. CASE w.rec = r
          BY <2>5, <5>1
        <5>2. CASE w.rec # r
          BY <1>a, <2>2, <3>2, <4>1, <5>2 DEF StateFresh
        <5> QED BY <5>1, <5>2
      <4>3. (w.rec # w.task[1] \/ w.at = "clashes") /\ ~Doubted(w.task[1])' =>
              NextTask(w.task[1])' \in sent' \/ (w.mine = Latest(w.task[1]).ids /\ Latest(w.task[1]).gone = FALSE)'
        <5>1. CASE w.task[1] = r
          BY <2>5, <5>1
        <5>2. CASE w.task[1] # r
          BY <1>a, <2>2, <3>2, <4>1, <5>2 DEF StateFresh
        <5> QED BY <5>1, <5>2
      <4> QED BY <4>2, <4>3 DEF StateFresh
    <3> QED BY <2>2, <3>1, <3>3 DEF StateFresh
  <2> QED BY <2>4, <2>6 DEF FreshInv
<1>7. ASSUME NEW t \in sent, DropTask(t)
      PROVE  FreshInv'
  <2>1. /\ UNCHANGED <<history, pending, job>> /\ sent' = sent \ {t} /\ ~(Len(history[t[1]]) >= t[2])
        /\ spoilt' = spoilt \cup (IF pending[t[1]] = {} THEN {} ELSE {<<"outage", t[1]>>})
        /\ t \in Rec \X Nat
    BY <1>7 DEF DropTask, Committed, recVars, OwnInv, RecordsHold
  <2>2. \A r \in Rec : NextTask(r) # t
    BY <1>b, <2>1 DEF NextTask
  <2>3. PendingHolds'
    BY <2>1 DEF FreshInv, PendingHolds
  <2>4. ASSUME NEW j \in Job
        PROVE  StateFresh(job[j])'
    <3>1. PICK w \in JobState : w = job[j]
      BY <1>0
    <3>2. StateFresh(w) /\ (w.at # "idle" => w.rec \in Rec /\ w.task[1] \in Rec)
      BY <1>0, <3>1
    <3>3. \A r \in Rec : NextTask(r)' = NextTask(r) /\ Latest(r)' = Latest(r)
      BY <2>1 DEF NextTask, Latest
    <3>4. StateFresh(w)'
      BY <1>a, <2>1, <2>2, <3>2, <3>3 DEF StateFresh
    <3> QED BY <2>1, <3>1, <3>4 DEF StateFresh
  <2> QED BY <2>3, <2>4 DEF FreshInv
<1>8. ASSUME NEW j \in Job, Load(j)
      PROVE  FreshInv'
  <2>1. PICK t \in sent :
          /\ Len(history[t[1]]) >= t[2] /\ sent' = sent \ {t} /\ spoilt' = spoilt \cup Crossing(j, t[1])
          /\ Go(j, [Free EXCEPT !.at = "loaded", !.task = t, !.rec = t[1],
                                !.ids = Latest(t[1]).ids, !.gone = Latest(t[1]).gone])
    BY <1>8 DEF Load, Committed
  <2>2. UNCHANGED <<history, pending>> /\ t \in Rec \X Nat
    BY <1>8 DEF Load, recVars, OwnInv, RecordsHold
  <2>3. PendingHolds'
    <3>1. \A r \in Rec : <<r, Len(history[r]) + 1>> # t
      BY <1>b, <2>1, <2>2
    <3> QED BY <2>1, <2>2, <3>1 DEF FreshInv, PendingHolds
  <2>4. ASSUME NEW k \in Job \ {j}
        PROVE  StateFresh(job[k])'
    <3>1. PICK w \in JobState : w = job[k] /\ w = job'[k]
      BY <1>0, <2>1, JobIs DEF Others
    <3>2. StateFresh(w) /\ (w.at # "idle" => w.rec \in Rec /\ w.task[1] \in Rec)
      BY <1>0, <3>1
    <3>3. \A r \in Rec : NextTask(r)' = NextTask(r) /\ Latest(r)' = Latest(r)
      BY <2>2 DEF NextTask, Latest
    <3>4. w.at # "idle" /\ t[1] \in {w.rec, w.task[1]} => Doubted(t[1])'
      BY <2>1, <3>1 DEF Crossing, Doubted, Spoilt
    <3>5. \A r \in Rec : NextTask(r) = t => r = t[1]
      BY DEF NextTask
    <3>6. StateFresh(w)'
      BY <1>a, <2>1, <3>2, <3>3, <3>4, <3>5 DEF StateFresh
    <3> QED BY <3>1, <3>6 DEF StateFresh
  <2>5. StateFresh(job[j])'
    <3> DEFINE s == [Free EXCEPT !.at = "loaded", !.task = t, !.rec = t[1],
                                 !.ids = Latest(t[1]).ids, !.gone = Latest(t[1]).gone]
    <3>1. s.at = "loaded" /\ s.task = t /\ s.rec = t[1] /\ s.ids = Latest(t[1]).ids /\ s.gone = Latest(t[1]).gone
      BY DEF Free
    <3>2. job'[j] = s
      BY <2>1, JobIs
    <3>3. Latest(t[1])' = Latest(t[1])
      BY <2>2 DEF Latest
    <3> HIDE DEF s
    <3>4. PICK w : w = job'[j]
      OBVIOUS
    <3> QED BY <3>1, <3>2, <3>3 DEF StateFresh, Latest
  <2> QED BY <2>3, <2>4, <2>5 DEF FreshInv
<1>9. ASSUME NEW j \in Job, Step(j) \/ Interrupt(j) \/ GiveUp(j), ~Load(j)
      PROVE  FreshInv'
  <2>1. UNCHANGED <<history, pending>> /\ sent \subseteq sent' /\ Turns(j)
    BY <1>9, SentStays, TurnIs DEF recVars
  <2>2. PendingHolds'
    <3>1. \A r \in Rec : <<"outage", r>> \in spoilt => <<"outage", r>> \in spoilt'
      BY DoubtsStay
    <3> QED BY <2>1, <3>1 DEF FreshInv, PendingHolds
  <2>3. ASSUME NEW k \in Job \ {j}
        PROVE  StateFresh(job[k])'
    <3>1. PICK w \in JobState : w = job[k] /\ w = job'[k]
      BY <1>0, <2>1 DEF Turns, Others
    <3>2. StateFresh(w)'
      BY <1>0, <2>1, <3>1, StateFreshStays
    <3> QED BY <3>1, <3>2 DEF StateFresh
  <2>4. PICK w \in JobState, v \in JobState : w = job[j] /\ v = job'[j]
    BY <1>0, OwnStep DEF OwnInv, JobsHold
  <2>5. /\ w.at # "idle" => w.rec \in Rec /\ w.task[1] \in Rec /\ StateHolds(w)
        /\ StateFresh(w)' /\ StateHolds(v) /\ (v.at # "idle" => v.rec \in Rec /\ v.task[1] \in Rec)
    <3>1. StateFresh(w)' /\ StateHolds(w)
      BY <1>0, <2>1, <2>4, StateFreshStays DEF OwnInv, JobsHold
    <3>2. StateHolds(v)
      BY <2>4, OwnStep DEF OwnInv, JobsHold
    <3> QED BY <3>1, <3>2 DEF StateHolds
  <2>6. StateFresh(v)'
    <3>1. CASE SameTask(j)
      <4>1. /\ w.at # "idle" /\ (v.at = "clashes" => w.at = "clashes")
            /\ v.task = w.task /\ v.rec = w.rec /\ v.ids = w.ids /\ v.gone = w.gone /\ v.mine = w.mine
        BY <2>4, <3>1 DEF SameTask
      <4> QED BY <2>5, <4>1 DEF StateFresh
    <3>2. CASE job'[j] = Free
      BY <2>4, <3>2, FreeIs DEF StateFresh
    <3>3. CASE w.at # "idle" /\ job'[j] = Returned(j)
      <4>1. CASE v.at = "idle"
        BY <4>1 DEF StateFresh
      <4>2. CASE v.at # "idle"
        <5>1. /\ v.at = "clashes" /\ w.rec # w.task[1] /\ v.task = w.task /\ v.rec = w.task[1]
              /\ v.mine = w.mine /\ v.ids = w.mine /\ v.gone = FALSE
          BY <2>4, <3>3, <4>2, ReturnedIs DEF OwnInv, Nested
        <5> QED BY <2>5, <3>3, <5>1 DEF StateFresh
      <4> QED BY <4>1, <4>2
    <3>4. CASE ListClashes(j)
      <4>1. PICK drop, todo : v = [w EXCEPT !.at = "clashes", !.mine = w.ids, !.putcode = 0,
                                            !.drop = drop, !.todo = todo]
        <5>1. PICK drop, todo : Go(j, [job[j] EXCEPT !.at = "clashes", !.mine = job[j].ids, !.putcode = 0,
                                                     !.drop = drop, !.todo = todo])
          BY <3>4 DEF ListClashes
        <5> DEFINE s == [job[j] EXCEPT !.at = "clashes", !.mine = job[j].ids, !.putcode = 0,
                                       !.drop = drop, !.todo = todo]
        <5>2. Go(j, s)
          BY <5>1
        <5> HIDE DEF s
        <5>3. job'[j] = s
          BY <5>2, JobIs
        <5> USE DEF s
        <5> QED BY <2>4, <5>3
      <4>2. /\ v.at = "clashes" /\ v.mine = w.ids /\ v.ids = w.ids /\ v.gone = w.gone
            /\ v.rec = w.rec /\ v.task = w.task
        BY <4>1
      <4>3. w.at = "clash" /\ w.rec = w.task[1] /\ ~w.gone /\ w.gone \in BOOLEAN
        BY <2>4, <2>5, <3>4 DEF ListClashes, On, StateHolds, JobState
      <4> QED BY <2>5, <4>2, <4>3 DEF StateFresh
    <3>5. CASE Posts(j)
      <4>1. w.at = "clashes" /\ w.rec = w.task[1] /\ v = [w EXCEPT !.at = "post", !.mine = {}]
        BY <2>4, <2>5, <3>5 DEF Posts, StateHolds
      <4>2. /\ v.at = "post" /\ v.rec = w.rec /\ v.task = w.task /\ v.ids = w.ids /\ v.gone = w.gone
        BY <4>1
      <4> QED BY <2>5, <4>1, <4>2 DEF StateFresh
    <3>6. ASSUME NEW r \in Rec, PushClashing(j, r)
          PROVE  StateFresh(v)'
      <4>1. w.at = "clashes" /\ v = [w EXCEPT !.at = "loaded", !.rec = r, !.todo = @ \ {r},
                                              !.ids = Latest(r).ids, !.gone = Latest(r).gone]
        BY <2>4, <3>6, JobIs DEF PushClashing, On
      <4>2. /\ v.at = "loaded" /\ v.rec = r /\ v.task = w.task /\ v.mine = w.mine
            /\ v.ids = Latest(r).ids /\ v.gone = Latest(r).gone
        BY <4>1
      <4>3. Latest(r)' = Latest(r)
        BY <2>1 DEF Latest
      <4> QED BY <2>5, <4>1, <4>2, <4>3 DEF StateFresh
    <3> QED BY <2>1, <2>4, <3>1, <3>2, <3>3, <3>4, <3>5, <3>6 DEF Turns
  <2>7. StateFresh(job[j])'
    BY <2>4, <2>6 DEF StateFresh
  <2> QED BY <2>2, <2>3, <2>7 DEF FreshInv
<1> QED
  BY <1>2, <1>3, <1>4, <1>5, <1>6, <1>7, <1>8, <1>9 DEF Next, Step

\* Unless a push left it in doubt, every work of a record is in the listing that
\* its push has, at the putcode in the cache, at the putcode that is deleted.
StateListed(w) ==
  /\ \A f, g \in w.found : f[2] = g[2] => f = g
  /\ w.at = "listed" /\ ~Crossed(w.rec) => \A p \in Works(w.rec) : <<p, w.rec>> \in w.found
StateDeletes(w) ==
  ~Spoilt({"unanswered", "crossed"}, w.rec) =>
    /\ w.at = "delete" => Works(w.rec) \subseteq {w.putcode}
    /\ w.at = "deleted" => Works(w.rec) = {}
CachePut(r) ==
  ~Spoilt({"unanswered", "crossed"}, r) /\ NotAt({"written"}, r) =>
    cache[r].putcode = 0 \/ Works(r) \subseteq {cache[r].putcode}
LeftInv ==
  /\ \A j \in Job : StateListed(job[j]) /\ StateDeletes(job[j])
  /\ \A r \in Rec : CachePut(r)

\* What a task lists or deletes still covers the works that are left.
LEMMA StateLeftStays ==
  ASSUME NEW w, NEW r, r = w.rec, StateListed(w), StateDeletes(w), Crossed(r) => Crossed(r)',
         w.at \in {"listed", "delete", "deleted"} /\ ~Crossed(r)' =>
           Works(r)' \subseteq Works(r) /\ (<<"unanswered", r>> \in spoilt => <<"unanswered", r>> \in spoilt')
  PROVE  StateListed(w)' /\ StateDeletes(w)'
<1>1. StateListed(w)'
  BY DEF StateListed, Crossed, Works
<1>2. StateDeletes(w)'
  <2> SUFFICES ASSUME ~Spoilt({"unanswered", "crossed"}, w.rec)', w.at \in {"delete", "deleted"}
               PROVE  /\ w.at = "delete" => Works(w.rec)' \subseteq {w.putcode}
                      /\ w.at = "deleted" => Works(w.rec)' = {}
    BY DEF StateDeletes
  <2>1. ~Crossed(r)' /\ Works(r)' \subseteq Works(r) /\ ~Spoilt({"unanswered", "crossed"}, r)
    BY DEF Spoilt, Crossed
  <2> QED BY <2>1 DEF StateDeletes, Works, Spoilt
<1> QED BY <1>1, <1>2

\* Works are added, and answers told, by a push of the record only.
LEMMA WorksGrow ==
  ASSUME OwnInv, NEW j \in Job, Step(j) \/ Interrupt(j) \/ GiveUp(j), NEW r \in Rec,
         ~(job[j].at \in {"push", "again", "post", "written"} /\ job[j].rec = r)
  PROVE  Works(r)' \subseteq Works(r) /\ (<<"unanswered", r>> \in spoilt => <<"unanswered", r>> \in spoilt')
<1>1. CASE Push(j) \/ Again(j)
  <2>1. Write(j) /\ job[j].at \in {"push", "again", "post"}
    BY <1>1 DEF Push, Again, On
  <2>2. PICK p \in Putcode : work' = [work EXCEPT ![p] = [rec |-> job[j].rec, ids |-> job[j].ids]]
    BY <2>1, WriteIs
  <2>3. Works(r)' \subseteq Works(r)
    BY <2>1, <2>2 DEF Works, OwnInv, OrcidHolds
  <2> QED BY <2>1, <2>3 DEF Write
<1>2. CASE CacheWritten(j) \/ CacheDeleted(j)
  <2>1. job[j].at = "written" => job[j].rec # r
    OBVIOUS
  <2>2. work' = work /\ (<<"unanswered", r>> \in spoilt => <<"unanswered", r>> \in spoilt')
    BY <1>2, <2>1 DEF CacheWritten, CacheDeleted, orcidVars, On
  <2> QED BY <2>2 DEF Works
<1>3. ASSUME NEW p \in Putcode, work' = [work EXCEPT ![p] = NoWork], spoilt \subseteq spoilt'
      PROVE  Works(r)' \subseteq Works(r) /\ (<<"unanswered", r>> \in spoilt => <<"unanswered", r>> \in spoilt')
  BY <1>3, LessWorks
<1>4. CASE Delete(j)
  <2>1. job[j].putcode \in Putcode
    <3>1. job[j].putcode \in 0..MaxPutcode /\ job[j].putcode # 0
      BY <1>4, TaskIs DEF Delete, On, StateHolds, JobState
    <3> QED BY <3>1, Bound
  <2> QED BY <1>3, <1>4, <2>1 DEF Delete
<1>5. ASSUME NEW p \in Putcode, DropClashing(j, p)
      PROVE  Works(r)' \subseteq Works(r) /\ (<<"unanswered", r>> \in spoilt => <<"unanswered", r>> \in spoilt')
  BY <1>3, <1>5 DEF DropClashing
<1>6. CASE Quietly(j)
  BY <1>6 DEF Quietly, Works
<1> QED BY <1>1, <1>2, <1>4, <1>5, <1>6, QuietSteps DEF Step

\* A putcode in the cache covers the works of its record.
LEMMA CachePutStays ==
  ASSUME LeftInv, NEW j \in Job, Others(j), NEW r \in Rec, Crossed(r) => Crossed(r)',
         <<"unanswered", r>> \in spoilt => <<"unanswered", r>> \in spoilt',
         Works(r)' \subseteq Works(r), cache'[r].putcode \in {cache[r].putcode, 0},
         job[j].at = "written" /\ job[j].rec = r => <<"unanswered", r>> \in spoilt'
  PROVE  CachePut(r)'
<1> SUFFICES ASSUME ~Spoilt({"unanswered", "crossed"}, r)', NotAt({"written"}, r)', cache'[r].putcode # 0
             PROVE  Works(r)' \subseteq {cache'[r].putcode}
  BY DEF CachePut
<1>1. ~Spoilt({"unanswered", "crossed"}, r) /\ <<"unanswered", r>> \notin spoilt'
  BY DEF Spoilt, Crossed
<1>2. NotAt({"written"}, r)
  BY <1>1 DEF NotAt, Others
<1> QED BY <1>1, <1>2 DEF LeftInv, CachePut

\* The putcodes that are found are of works, or works went meanwhile.
LEMMA CacheAllPuts ==
  ASSUME OwnInv, LeftInv, NEW j \in Job, CacheAll(j), NEW r \in Rec
  PROVE  CachePut(r)'
<1>1. Quietly(j) /\ UNCHANGED work /\ job[j].at \in {"listed", "relisted"}
  BY QuietSteps DEF CacheAll, orcidVars
<1>2. CASE \E p \in Putcode : <<p, r>> \in job[j].found
  <2>1. PICK p \in Putcode : p = cache'[r].putcode /\ <<p, r>> \in job[j].found
    BY <1>2, CacheAllIs
  <2>2. CASE work[p].rec = r
    <3>1. Works(r) \subseteq {p}
      <4>1. r # NoRec
        BY PushAssumption
      <4> QED BY <2>2, <4>1 DEF Works, OwnInv, OrcidHolds, OneWork, Live
    <3> QED BY <1>1, <2>1, <3>1 DEF CachePut, Works
  <2>3. CASE work[p].rec # r
    <3>1. <<p, r>> \in {f \in job[j].found : work[f[1]].rec # f[2]}
      BY <2>1, <2>3
    <3>2. <<"crossed", r>> \in spoilt'
      BY <3>1 DEF CacheAll
    <3> QED BY <3>2 DEF CachePut, Spoilt
  <2> QED BY <2>2, <2>3
<1>3. CASE ~\E p \in Putcode : <<p, r>> \in job[j].found
  <2>1. cache'[r].putcode = cache[r].putcode
    BY <1>3, CacheAllIs
  <2>2. Works(r)' \subseteq Works(r)
    BY <1>1 DEF Works
  <2>3. spoilt \subseteq spoilt' /\ Others(j)
    BY <1>1 DEF Quietly
  <2> QED BY <1>1, <2>1, <2>2, <2>3, CachePutStays DEF Crossed
<1> QED BY <1>2, <1>3

\* Every step keeps it so.
LEMMA CacheStep ==
  ASSUME OwnInv, HitInv, LeftInv, [Next]_vars, NEW j \in Job, Step(j) \/ Interrupt(j) \/ GiveUp(j), NEW r \in Rec
  PROVE  CachePut(r)'
<1>0. (Crossed(r) => Crossed(r)') /\ cache \in [Rec -> [putcode : 0..MaxPutcode, hash : SUBSET (SUBSET Id)]]
  BY DoubtsStay DEF OwnInv, CacheHolds
<1>1. CASE Push(j) \/ Again(j)
  <2>1. Write(j) /\ job[j].at \in {"push", "again", "post"} /\ cache' = cache
    BY <1>1 DEF Push, Again, On, Write
  <2>2. job'[j].at = "written" /\ job'[j].rec = job[j].rec /\ Others(j)
    BY <2>1, WriteIs DEF Others
  <2>3. CASE job[j].rec = r
    BY <2>2, <2>3 DEF CachePut, NotAt
  <2>4. CASE job[j].rec # r
    <3>1. Works(r)' \subseteq Works(r) /\ (<<"unanswered", r>> \in spoilt => <<"unanswered", r>> \in spoilt')
      BY <2>4, WorksGrow
    <3> QED BY <1>0, <2>1, <2>2, <2>4, <3>1, CachePutStays
  <2> QED BY <2>3, <2>4
<1>2. CASE CacheWritten(j) \/ CacheDeleted(j)
  <2>1. /\ work' = work /\ Others(j) /\ job[j].at \in {"written", "deleted"}
        /\ (r # job[j].rec => cache'[r] = cache[r])
    BY <1>0, <1>2, JobIs DEF CacheWritten, CacheDeleted, orcidVars, On
  <2>2. CASE job[j].rec # r
    <3>1. Works(r)' \subseteq Works(r) /\ (<<"unanswered", r>> \in spoilt => <<"unanswered", r>> \in spoilt')
      BY <2>2, WorksGrow
    <3> QED BY <1>0, <2>1, <2>2, <3>1, CachePutStays
  <2>3. CASE job[j].rec = r /\ CacheDeleted(j)
    <3>1. cache'[r] = Uncached
      BY <1>0, <2>3 DEF CacheDeleted
    <3> QED BY <3>1 DEF CachePut, Uncached
  <2>4. CASE job[j].rec = r /\ CacheWritten(j)
    <3>1. cache'[r].putcode = job[j].putcode /\ job[j].at = "written"
      BY <1>0, <2>4 DEF CacheWritten, On
    <3>2. ~Crossed(r) => Works(r) \subseteq {job[j].putcode}
      BY <2>4, <3>1 DEF HitInv, WrittenHolds, On
    <3> QED BY <1>0, <2>1, <3>1, <3>2 DEF CachePut, Works, Spoilt, Crossed
  <2> QED BY <1>2, <2>2, <2>3, <2>4
<1>3. CASE CacheAll(j)
  BY <1>3, CacheAllPuts
<1>4. ASSUME Others(j), spoilt \subseteq spoilt', cache'[r].putcode \in {cache[r].putcode, 0},
             job[j].at \notin {"push", "again", "post"},
             job[j].at = "written" => <<"unanswered", job[j].rec>> \in spoilt'
      PROVE  CachePut(r)'
  <2>1. CASE job[j].at = "written" /\ job[j].rec = r
    BY <1>4, <2>1 DEF CachePut, Spoilt
  <2>2. CASE ~(job[j].at = "written" /\ job[j].rec = r)
    <3>1. Works(r)' \subseteq Works(r)
      BY <1>4, <2>2, WorksGrow
    <3> QED BY <1>0, <1>4, <2>2, <3>1, CachePutStays
  <2> QED BY <2>1, <2>2
<1>5. ASSUME Quietly(j), cache' = cache
      PROVE  CachePut(r)'
  <2>1. CASE job[j].at = "written" /\ job[j].rec = r
    BY <1>5, <2>1 DEF CachePut, Spoilt, Quietly
  <2>2. CASE ~(job[j].at = "written" /\ job[j].rec = r)
    <3>1. Works(r)' \subseteq Works(r) /\ Others(j) /\ spoilt \subseteq spoilt'
      BY <1>5 DEF Quietly, Works
    <3> QED BY <1>0, <1>5, <2>2, <3>1, CachePutStays
  <2> QED BY <2>1, <2>2
<1>6. CASE Missing(j) \/ CacheAll(j) \/ Delete(j)
  <2>1. CASE Missing(j)
    <3>1. Others(j) /\ spoilt \subseteq spoilt' /\ job[j].at = "missing"
      BY <2>1, QuietSteps DEF Quietly, Missing, On
    <3>2. cache'[r].putcode \in {cache[r].putcode, 0}
      BY <1>0, <2>1 DEF Missing, Uncached
    <3> QED BY <1>4, <3>1, <3>2
  <2>2. CASE Delete(j)
    <3>1. Others(j) /\ spoilt' = spoilt /\ job[j].at = "delete" /\ cache' = cache
      BY <2>2, JobIs DEF Delete, On
    <3> QED BY <1>4, <3>1
  <2> QED BY <1>3, <1>6, <2>1, <2>2
<1>7. ASSUME NEW p \in Putcode, DropClashing(j, p)
      PROVE  CachePut(r)'
  <2>1. Others(j) /\ spoilt \subseteq spoilt' /\ job[j].at = "clashes"
    BY <1>7, JobIs DEF DropClashing, On
  <2>2. cache'[r].putcode \in {cache[r].putcode, 0}
    BY <1>0, <1>7 DEF DropClashing, Uncached
  <2> QED BY <1>4, <2>1, <2>2
<1>8. CASE \/ Load(j) \/ Compare(j) \/ PushRefused(j) \/ Search(j) \/ AgainRefused(j) \/ ListClashes(j)
           \/ PushedClashing(j) \/ Interrupt(j) \/ GiveUp(j) \/ \E o \in Rec : PushClashing(j, o)
  <2>1. cache' = cache
    BY <1>8 DEF Load, Compare, PushRefused, Search, AgainRefused, ListClashes, PushedClashing, Interrupt, GiveUp,
                PushClashing, Retried, Over
  <2> QED BY <1>5, <1>8, <2>1, QuietSteps
<1> QED BY <1>1, <1>2, <1>6, <1>7, <1>8 DEF Step

\* Every step keeps the works covered.
LEMMA LeftStep ==
  ASSUME OwnInv, HitInv, LeftInv, [Next]_vars
  PROVE  LeftInv'
<1>0. \A r \in Rec : Crossed(r) => Crossed(r)'
  BY DoubtsStay
<1>a. \A j \in Job : /\ job[j] \in JobState /\ StateListed(job[j]) /\ StateDeletes(job[j]) /\ StateHolds(job[j])
                     /\ job[j].at # "idle" => job[j].rec \in Rec
  BY TaskIs, FieldsAre DEF LeftInv, OwnInv, JobsHold
\* A worker that stays where it is.
<1>1. ASSUME NEW k \in Job, job'[k] = job[k],
             \A r \in Rec : job[k].at \in {"listed", "delete", "deleted"} /\ job[k].rec = r /\ ~Crossed(r)' =>
               Works(r)' \subseteq Works(r) /\ (<<"unanswered", r>> \in spoilt => <<"unanswered", r>> \in spoilt')
      PROVE  StateListed(job[k])' /\ StateDeletes(job[k])'
  <2>1. PICK w, r : w \in JobState /\ w = job[k] /\ r = w.rec
    BY <1>a
  <2>2. CASE w.at = "idle"
    <3>1. w.found = {}
      <4>1. w = Free
        BY <1>a, <2>1, <2>2 DEF StateHolds
      <4> QED BY <4>1 DEF Free
    <3>2. StateListed(w)' /\ StateDeletes(w)'
      BY <2>2, <3>1 DEF StateListed, StateDeletes
    <3> QED BY <1>1, <2>1, <3>2 DEF StateListed, StateDeletes
  <2>3. CASE w.at # "idle"
    <3>1. r \in Rec /\ StateListed(w) /\ StateDeletes(w)
      BY <1>a, <2>1, <2>3
    <3>2. StateListed(w)' /\ StateDeletes(w)'
      BY <1>0, <1>1, <2>1, <3>1, StateLeftStays
    <3> QED BY <1>1, <2>1, <3>2 DEF StateListed, StateDeletes
  <2> QED BY <2>2, <2>3
<1>2. ASSUME UNCHANGED <<job, cache>>, \A r \in Rec : Works(r)' \subseteq Works(r), spoilt \subseteq spoilt'
      PROVE  LeftInv'
  <2>1. \A k \in Job : StateListed(job[k])' /\ StateDeletes(job[k])'
    BY <1>1, <1>2
  <2>2. \A r \in Rec : CachePut(r)'
    BY <1>2 DEF LeftInv, CachePut, NotAt, Spoilt
  <2> QED BY <2>1, <2>2 DEF LeftInv
<1>3. ASSUME NEW j \in Job, Step(j) \/ Interrupt(j) \/ GiveUp(j)
      PROVE  LeftInv'
  <2>0. Others(j)
    <3>1. CASE Load(j)
      BY <3>1, QuietSteps DEF Quietly
    <3> QED BY <1>3, <3>1, TurnIs DEF Turns
  <2>1. ASSUME NEW k \in Job \ {j}
        PROVE  StateListed(job[k])' /\ StateDeletes(job[k])'
    <3>1. ASSUME NEW r \in Rec, job[k].at \in {"listed", "delete", "deleted"}, job[k].rec = r, ~Crossed(r)'
          PROVE  ~(job[j].at \in {"push", "again", "post", "written"} /\ job[j].rec = r)
      BY <1>0, <3>1 DEF HitInv, Uncrossed, Pushes
    <3>2. job'[k] = job[k]
      BY <2>0 DEF Others
    <3> QED BY <1>1, <1>3, <3>1, <3>2, WorksGrow
  <2>2. PICK w \in JobState, v \in JobState : w = job[j] /\ v = job'[j]
    BY <1>a, OwnStep DEF OwnInv, JobsHold
  <2>3. /\ v.found \in {w.found, {}} \/ (v.found = AllWorks /\ UNCHANGED work)
        /\ v.at = "listed" => v.found = AllWorks /\ UNCHANGED work
        /\ v.at = "delete" => Compare(j) \/ CacheAll(j)
        /\ v.at = "deleted" => Delete(j)
    <3>1. CASE Load(j)
      <4>1. PICK t \in sent : Go(j, [Free EXCEPT !.at = "loaded", !.task = t, !.rec = t[1],
                                          !.ids = Latest(t[1]).ids, !.gone = Latest(t[1]).gone])
        BY <3>1 DEF Load
      <4> DEFINE s == [Free EXCEPT !.at = "loaded", !.task = t, !.rec = t[1],
                                   !.ids = Latest(t[1]).ids, !.gone = Latest(t[1]).gone]
      <4>2. s.at = "loaded" /\ s.found = {}
        BY DEF Free
      <4>3. job'[j] = s
        BY <4>1, JobIs
      <4> HIDE DEF s
      <4> QED BY <2>2, <4>2, <4>3
    <3> QED BY <1>3, <2>2, <3>1, TurnIs DEF Turns
  <2>4. \A f, g \in AllWorks : f[2] = g[2] => f = g
    BY DEF AllWorks, OwnInv, OrcidHolds, OneWork
  <2>5. StateListed(v)'
    <3>1. \A f, g \in v.found : f[2] = g[2] => f = g
      BY <1>a, <2>2, <2>3, <2>4 DEF StateListed
    <3>2. ASSUME v.at = "listed", NEW p \in Works(v.rec)'
          PROVE  <<p, v.rec>> \in v.found
      <4>1. p \in Putcode /\ work[p].rec = v.rec /\ v.found = AllWorks
        BY <2>3, <3>2 DEF Works
      <4>2. v.rec \in Rec
        <5>1. StateHolds(v)
          BY <2>2, OwnStep DEF OwnInv, JobsHold
        <5> QED BY <3>2, <5>1 DEF StateHolds
      <4> QED BY <4>1, <4>2, AllWorksAre, PushAssumption DEF OwnInv, Live
    <3> QED BY <3>1, <3>2 DEF StateListed, Works
  <2>6. StateDeletes(v)'
    <3> SUFFICES ASSUME NEW r, r = v.rec, ~Spoilt({"unanswered", "crossed"}, r)', v.at \in {"delete", "deleted"}
                 PROVE  /\ v.at = "delete" => Works(r)' \subseteq {v.putcode}
                        /\ v.at = "deleted" => Works(r)' = {}
      BY DEF StateDeletes, Works, Spoilt
    <3>1. CASE Delete(j)
      <4>1. /\ w.at = "delete" /\ v = [w EXCEPT !.at = "deleted"] /\ work' = [work EXCEPT ![w.putcode] = NoWork]
            /\ spoilt' = spoilt
        BY <2>2, <3>1, JobIs DEF Delete, On
      <4>2. v.rec = w.rec /\ v.at = "deleted" /\ v.putcode = w.putcode
        BY <4>1
      <4>3. w.putcode \in Putcode /\ r \in Rec
        <5>1. w.putcode \in 0..MaxPutcode /\ w.putcode # 0 /\ w.rec \in Rec
          BY <2>2, <4>1, TaskIs DEF StateHolds, JobState
        <5> QED BY <4>2, <5>1, Bound
      <4>4. Works(r) \subseteq {w.putcode}
        BY <1>a, <2>2, <4>1, <4>2 DEF StateDeletes, Spoilt
      <4>5. Works(r)' = Works(r) \ {w.putcode}
        BY <4>1, <4>3, LessWorks
      <4> QED BY <4>2, <4>4, <4>5
    <3>2. CASE Compare(j)
      <4>1. /\ w.at = "loaded" /\ UNCHANGED <<work, cache, spoilt>>
        BY <2>2, <3>2 DEF Compare, On, orcidVars
      <4>2. v.at = "delete" /\ v.rec = w.rec /\ v.putcode = cache[w.rec].putcode /\ v.putcode # 0
        <5>1. v.at \notin {"idle", "clashes", "push", "search"}
          OBVIOUS
        <5>2. job[j].at # "idle"
          BY <2>2, <4>1
        <5>3. ~Go(j, Returned(j))
          <6>1. Returned(j).at \in {"idle", "clashes"}
            BY <5>2, ReturnedIs DEF OwnInv
          <6> QED BY <2>2, <5>1, <6>1, JobIs
        <5>4. PICK at \in {"push", "search", "delete"} :
                /\ Go(j, [job[j] EXCEPT !.at = at, !.putcode = cache[job[j].rec].putcode])
                /\ at = "delete" => cache[job[j].rec].putcode # 0
          BY <3>2, <5>3 DEF Compare
        <5> DEFINE s == [job[j] EXCEPT !.at = at, !.putcode = cache[job[j].rec].putcode]
        <5>5. s.at = at /\ s.rec = job[j].rec /\ s.putcode = cache[job[j].rec].putcode
          BY <2>2 DEF JobState
        <5>6. job'[j] = s
          BY <5>4, JobIs
        <5> HIDE DEF s
        <5> QED BY <2>2, <5>1, <5>4, <5>5, <5>6
      <4>3. r \in Rec /\ ~Spoilt({"unanswered", "crossed"}, r) /\ r = w.rec
        BY <1>a, <2>2, <4>1, <4>2 DEF Spoilt
      <4>4. NotAt({"written"}, r)
        BY <2>2, <4>1, <4>3 DEF NotAt, HitInv, Uncrossed, Pushes, Crossed, Spoilt
      <4>5. Works(r) \subseteq {v.putcode}
        BY <4>2, <4>3, <4>4 DEF LeftInv, CachePut
      <4> QED BY <4>1, <4>2, <4>5 DEF Works
    <3>3. CASE CacheAll(j)
      <4>1. /\ w.at \in {"listed", "relisted"} /\ UNCHANGED work /\ spoilt \subseteq spoilt'
        BY <2>2, <3>3 DEF CacheAll, orcidVars
      <4>2. job[j].gone /\ OwnPutcode(j) # 0 /\ v.at = "delete" /\ v.rec = w.rec /\ v.putcode = OwnPutcode(j)
        <5>2. job[j].at # "idle"
          BY <2>2, <4>1
        <5>3. ~Go(j, Returned(j))
          <6>1. Returned(j).at \in {"idle", "clashes"}
            BY <5>2, ReturnedIs DEF OwnInv
          <6> QED BY <2>2, <6>1, JobIs
        <5> DEFINE next(at) == [[job[j] EXCEPT !.found = {}, !.putcode = OwnPutcode(j)] EXCEPT !.at = at]
                   clash == [[job[j] EXCEPT !.found = {}, !.putcode = OwnPutcode(j)] EXCEPT !.at = "clash", !.after = "post"]
        <5>4. /\ \A at : next(at).at = at /\ next(at).rec = job[j].rec /\ next(at).putcode = OwnPutcode(j)
              /\ clash.at = "clash"
          BY <2>2 DEF JobState
        <5>5. \/ Go(j, next("delete")) /\ job[j].gone /\ OwnPutcode(j) # 0
              \/ Go(j, next("again")) \/ Go(j, clash)
          BY <3>3, <5>3 DEF CacheAll
        <5> HIDE DEF next, clash
        <5> QED BY <2>2, <5>4, <5>5, JobIs
      <4>3. w.at = "listed"
        BY <1>a, <2>2, <4>1, <4>2 DEF StateHolds
      <4>4. r \in Rec /\ ~Crossed(r) /\ r = w.rec
        BY <1>a, <2>2, <4>1, <4>2 DEF Spoilt, Crossed
      <4>5. <<v.putcode, r>> \in w.found
        BY <2>2, <4>2, <4>4, OwnPutcodeIs DEF OwnInv
      <4>6. \A p \in Works(r) : p = v.putcode
        BY <1>a, <2>2, <4>3, <4>4, <4>5 DEF StateListed
      <4> QED BY <4>1, <4>2, <4>6 DEF Works
    <3> QED BY <2>3, <3>1, <3>2, <3>3
  <2>7. StateListed(job[j])' /\ StateDeletes(job[j])'
    BY <2>2, <2>5, <2>6 DEF StateListed, StateDeletes
  <2>8. \A r \in Rec : CachePut(r)'
    BY <1>3, CacheStep
  <2> QED BY <2>1, <2>7, <2>8 DEF LeftInv
<1>4. CASE UNCHANGED vars
  BY <1>2, <1>4 DEF vars, Works
<1>5. ASSUME NEW r \in Rec, Update(r) \/ Commit(r) \/ Rollback(r)
      PROVE  LeftInv'
  BY <1>2, <1>5 DEF Update, Commit, Rollback, orcidVars, Works
<1>6. ASSUME NEW t \in sent, DropTask(t)
      PROVE  LeftInv'
  BY <1>2, <1>6 DEF DropTask, orcidVars, Works
<1>7. ASSUME NEW p \in Putcode, RemoveWork(p)
      PROVE  LeftInv'
  BY <1>2, <1>7, LessWorks DEF RemoveWork
<1> QED BY <1>3, <1>4, <1>5, <1>6, <1>7 DEF Next

\* What WorkIsLatest says of a record; it holds, or a task that will see to it
\* waits or runs.
Done(r) ==
  IF Latest(r).gone THEN Works(r) = {}
  ELSE \E p \in Putcode : Works(r) = {p} /\ work[p].ids = Latest(r).ids
Underway(r) == NextTask(r) \in sent \/ \E j \in Job : job[j].at # "idle" /\ job[j].task = NextTask(r)
Arrives(r) == ~Spoilt(Reason, r) => Underway(r) \/ Done(r)

LateInv == OwnInv /\ HitInv /\ FreshInv /\ LeftInv

\* A record has one work at most.
LEMMA OneIs ==
  ASSUME OwnInv, NEW r \in Rec, NEW p \in Works(r)
  PROVE  Works(r) = {p}
<1>1. r # NoRec
  BY PushAssumption
<1> QED BY <1>1 DEF Works, OwnInv, OrcidHolds, OneWork, Live

\* A record that is done stays so while its work and history are as they were.
LEMMA DoneStays ==
  ASSUME UNCHANGED history, NEW r \in Rec, Done(r), Works(r)' = Works(r),
         \A p \in Works(r) : work'[p] = work[p]
  PROVE  Done(r)'
<1>1. Latest(r)' = Latest(r)
  BY DEF Latest
<1> QED BY <1>1 DEF Done

\* What a worker has of the record it pushes.
LEMMA FreshIs ==
  ASSUME LateInv, NEW j \in Job, job[j].at # "idle", NEW r \in Rec, r = job[j].rec, ~Doubted(r),
         NextTask(r) \notin sent
  PROVE  job[j].ids = Latest(r).ids /\ job[j].gone = Latest(r).gone
BY DEF LateInv, FreshInv, StateFresh

\* A write of the latest version is the end of it, or a later task waits.
LEMMA WroteDone ==
  ASSUME LateInv, [Next]_vars, NEW j \in Job, Push(j) \/ Again(j), NEW r \in Rec, r = job[j].rec, ~Doubted(r)'
  PROVE  NextTask(r)' \in sent' \/ Done(r)'
<1>1. /\ Write(j) /\ job[j].at \in {"push", "again", "post"} /\ job[j].at # "idle" /\ sent' = sent
      /\ UNCHANGED history
  BY DEF Push, Again, On, Write, recVars
<1>2. ~Doubted(r) /\ NextTask(r)' = NextTask(r) /\ Latest(r)' = Latest(r)
  BY <1>1, DoubtsStay DEF LateInv, NextTask, Latest
<1>3. PICK p \in Putcode : /\ work' = [work EXCEPT ![p] = [rec |-> r, ids |-> job[j].ids]]
                           /\ \A q \in Putcode \ {p} : work[q].rec # r
  <2>1. OwnInv
    BY DEF LateInv
  <2>2. PICK p \in Putcode : /\ work' = [work EXCEPT ![p] = [rec |-> job[j].rec, ids |-> job[j].ids]]
                             /\ \A q \in Putcode \ {p} : work[q].rec # job[j].rec
    BY <1>1, <2>1, WriteIs
  <2> QED BY <2>2
<1>4. work'[p] = [rec |-> r, ids |-> job[j].ids] /\ Works(r)' = {p}
  BY <1>3 DEF Works, LateInv, OwnInv, OrcidHolds
<1>5. CASE NextTask(r) \notin sent
  <2>1. job[j].ids = Latest(r).ids /\ job[j].gone = Latest(r).gone
    BY <1>1, <1>2, <1>5, FreshIs
  <2>2. ~Latest(r).gone
    BY <1>1, <2>1, TaskIs DEF LateInv, StateHolds
  <2> QED BY <1>2, <1>4, <2>1, <2>2 DEF Done
<1> QED BY <1>1, <1>2, <1>5

\* So is a write that the cache has been told of.
LEMMA ToldDone ==
  ASSUME LateInv, [Next]_vars, NEW j \in Job, CacheWritten(j), NEW r \in Rec, r = job[j].rec, ~Spoilt(Reason, r)'
  PROVE  NextTask(r)' \in sent' \/ Done(r)'
<1>1. /\ job[j].at = "written" /\ job[j].at # "idle" /\ UNCHANGED <<sent, history, work>>
      /\ \A why \in Reason \ {"unanswered"} : <<why, r>> \in spoilt => <<why, r>> \in spoilt'
  BY DEF CacheWritten, On, recVars, orcidVars
<1>2. ~Doubted(r) /\ ~Spoilt({"removed", "dropped"}, r) /\ ~Crossed(r)
  BY <1>1 DEF Doubted, Crossed, Spoilt, Reason
<1>3. NextTask(r)' = NextTask(r) /\ Latest(r)' = Latest(r) /\ Works(r)' = Works(r)
  BY <1>1 DEF NextTask, Latest, Works
<1>4. work[job[j].putcode] = [rec |-> r, ids |-> job[j].ids]
  BY <1>1, <1>2 DEF LateInv, HitInv, WrittenHolds, On
<1>5. job[j].putcode \in Putcode /\ ~job[j].gone
  <2>1. job[j].putcode \in 0..MaxPutcode /\ job[j].putcode # 0 /\ ~job[j].gone
    BY <1>1, TaskIs DEF LateInv, StateHolds, JobState
  <2> QED BY <2>1, Bound
<1>6. Works(r) = {job[j].putcode}
  BY <1>4, <1>5, OneIs DEF LateInv, Works
<1>7. CASE NextTask(r) \notin sent
  <2>1. job[j].ids = Latest(r).ids /\ job[j].gone = Latest(r).gone
    BY <1>1, <1>2, <1>7, FreshIs
  <2>2. Done(r)
    BY <1>4, <1>5, <1>6, <2>1 DEF Done
  <2> QED BY <1>1, <1>3, <2>2 DEF Done
<1> QED BY <1>1, <1>3, <1>7

\* So is the deletion of a work of a deleted record.
LEMMA DeletedDone ==
  ASSUME LateInv, [Next]_vars, NEW j \in Job, Delete(j), NEW r \in Rec, r = job[j].rec, ~Spoilt(Reason, r)'
  PROVE  NextTask(r)' \in sent' \/ Done(r)'
<1>1. /\ job[j].at = "delete" /\ job[j].at # "idle" /\ UNCHANGED <<sent, history, spoilt>>
      /\ work' = [work EXCEPT ![job[j].putcode] = NoWork]
  BY DEF Delete, On, recVars
<1>2. ~Doubted(r) /\ ~Spoilt({"unanswered", "crossed"}, r)
  BY <1>1 DEF Doubted, Spoilt, Reason
<1>3. NextTask(r)' = NextTask(r) /\ Latest(r)' = Latest(r)
  BY <1>1 DEF NextTask, Latest
<1>4. job[j].putcode \in Putcode /\ job[j].gone
  <2>1. job[j].putcode \in 0..MaxPutcode /\ job[j].putcode # 0 /\ job[j].gone
    BY <1>1, TaskIs DEF LateInv, StateHolds, JobState
  <2> QED BY <2>1, Bound
<1>5. Works(r) \subseteq {job[j].putcode}
  BY <1>1, <1>2 DEF LateInv, LeftInv, StateDeletes
<1>6. Works(r)' = {}
  <2>1. OwnInv
    BY DEF LateInv
  <2>2. Works(r)' = Works(r) \ {job[j].putcode}
    BY <1>1, <1>4, <2>1, LessWorks, TaskIs
  <2> QED BY <1>5, <2>2
<1>7. CASE NextTask(r) \notin sent
  <2>1. job[j].gone = Latest(r).gone
    BY <1>1, <1>2, <1>7, FreshIs
  <2> QED BY <1>3, <1>4, <1>6, <2>1 DEF Done
<1> QED BY <1>1, <1>3, <1>7

\* Some steps do not end a task.
LEMMA NotOver ==
  ASSUME OwnInv, NEW j \in Job,
         \/ Search(j) \/ Missing(j) \/ Push(j) \/ Again(j) \/ Delete(j) \/ ListClashes(j)
         \/ (\E p \in Putcode : DropClashing(j, p)) \/ (\E r \in Rec : PushClashing(j, r))
  PROVE  job'[j].at # "idle"
<1>0. job[j] \in JobState
  BY DEF OwnInv, JobsHold
<1>1. CASE Search(j) \/ Missing(j)
  <2> DEFINE next(at) == [job[j] EXCEPT !.at = at, !.found = AllWorks]
  <2>1. \A at : next(at).at = at
    BY <1>0 DEF JobState
  <2>2. Go(j, next("listed")) \/ Go(j, next("relisted"))
    BY <1>1 DEF Search, Missing
  <2> HIDE DEF next
  <2> QED BY <2>1, <2>2, JobIs
<1>2. CASE Push(j) \/ Again(j)
  BY <1>2, WriteIs DEF Push, Again, On
<1>3. CASE Delete(j)
  <2>1. job'[j] = [job[j] EXCEPT !.at = "deleted"]
    BY <1>3, JobIs DEF Delete
  <2> QED BY <1>0, <2>1 DEF JobState
<1>4. CASE ListClashes(j)
  <2>1. PICK drop, todo : Go(j, [job[j] EXCEPT !.at = "clashes", !.mine = job[j].ids, !.putcode = 0,
                                               !.drop = drop, !.todo = todo])
    BY <1>4 DEF ListClashes
  <2> DEFINE s == [job[j] EXCEPT !.at = "clashes", !.mine = job[j].ids, !.putcode = 0, !.drop = drop, !.todo = todo]
  <2>2. s.at = "clashes"
    BY <1>0 DEF JobState
  <2>3. Go(j, s)
    BY <2>1
  <2> HIDE DEF s
  <2> QED BY <2>2, <2>3, JobIs
<1>5. ASSUME NEW p \in Putcode, DropClashing(j, p)
      PROVE  job'[j].at # "idle"
  <2>1. job[j].at = "clashes" /\ job'[j] = [job[j] EXCEPT !.drop = @ \ {p}]
    BY <1>5, JobIs DEF DropClashing, On
  <2> QED BY <1>0, <2>1 DEF JobState
<1>6. ASSUME NEW r \in Rec, PushClashing(j, r)
      PROVE  job'[j].at # "idle"
  <2>1. job'[j] = [job[j] EXCEPT !.at = "loaded", !.rec = r, !.todo = @ \ {r},
                                 !.ids = Latest(r).ids, !.gone = Latest(r).gone]
    BY <1>6, JobIs DEF PushClashing
  <2> QED BY <1>0, <2>1 DEF JobState
<1> QED BY <1>1, <1>2, <1>3, <1>4, <1>5, <1>6

\* A task that ends has done its work, or left it to a task that waits.
LEMMA EndsDone ==
  ASSUME LateInv, [Next]_vars, NEW j \in Job, Step(j) \/ Interrupt(j) \/ GiveUp(j), job[j].at # "idle",
         job'[j].at = "idle", NEW r \in Rec, r = job[j].task[1], ~Spoilt(Reason, r)'
  PROVE  job[j].task \in sent' \/ NextTask(r)' \in sent' \/ Done(r)'
<1>0. /\ OwnInv /\ job[j] \in JobState /\ StateHolds(job[j]) /\ job[j].rec \in Rec
      /\ ~Load(j)
  BY TaskIs DEF LateInv, Load, On
<1>a. UNCHANGED history /\ sent \subseteq sent' /\ ~Doubted(r)' /\ ~Doubted(r)
  <2>1. UNCHANGED history /\ sent \subseteq sent' /\ ~Doubted(r)'
    BY <1>0, SentStays DEF Doubted, Spoilt, Reason, recVars
  <2> QED BY <1>0, <2>1, DoubtsStay
<1>b. NextTask(r)' = NextTask(r) /\ Latest(r)' = Latest(r)
  BY <1>a DEF NextTask, Latest
\* A task returns when it pushed the record it was sent for.
<1>1. ASSUME Go(j, Returned(j)), job[j].rec = r => NextTask(r)' \in sent' \/ Done(r)'
      PROVE  NextTask(r)' \in sent' \/ Done(r)'
  <2>1. job'[j] = Returned(j) /\ ~Nested(j)
    <3>1. job'[j] = Returned(j)
      BY <1>0, <1>1, JobIs
    <3> QED BY <1>0, <3>1, ReturnedIs DEF OwnInv
  <2> QED BY <1>1, <2>1 DEF Nested
<1>2. CASE Compare(j)
  <2>1. job[j].at = "loaded" /\ UNCHANGED <<work, cache, spoilt>>
    BY <1>2 DEF Compare, On, orcidVars
  <2>2. ~job[j].gone /\ cache[job[j].rec].hash = {job[j].ids} /\ Go(j, Returned(j))
    <3> DEFINE next(at) == [job[j] EXCEPT !.at = at, !.putcode = cache[job[j].rec].putcode]
    <3>1. \A at : next(at).at = at
      BY <1>0 DEF JobState
    <3>2. \/ ~job[j].gone /\ cache[job[j].rec].hash = {job[j].ids} /\ Go(j, Returned(j))
          \/ Go(j, next("push")) \/ Go(j, next("search")) \/ Go(j, next("delete"))
      BY <1>2 DEF Compare
    <3> HIDE DEF next
    <3> QED BY <1>0, <3>1, <3>2, JobIs
  <2>3. ASSUME job[j].rec = r, NextTask(r) \notin sent
        PROVE  Done(r)'
    <3>1. ~Spoilt({"unanswered", "crossed", "removed", "dropped"}, r) /\ ~Crossed(r)
      BY <2>1 DEF Spoilt, Reason, Crossed
    <3>2. NotAt({"written", "deleted"}, r)
      BY <2>1, <2>3, <3>1 DEF NotAt, LateInv, HitInv, Uncrossed, Pushes
    <3>3. job[j].ids \in SUBSET Id /\ cache[r].hash = {job[j].ids}
      BY <1>0, <2>2, <2>3 DEF JobState
    <3>4. PICK p \in Works(r) : work[p].ids = job[j].ids
      BY <3>1, <3>2, <3>3 DEF LateInv, HitInv, CacheTrue
    <3>5. Works(r) = {p} /\ p \in Putcode
      BY <1>0, OneIs DEF Works
    <3>6. job[j].ids = Latest(r).ids /\ job[j].gone = Latest(r).gone
      BY <1>a, <2>3, FreshIs
    <3>7. Done(r) /\ Works(r)' = Works(r)
      BY <2>1, <2>2, <3>4, <3>5, <3>6 DEF Done, Works
    <3> QED BY <1>a, <2>1, <3>7, DoneStays
  <2> QED BY <1>1, <1>a, <1>b, <2>2, <2>3
<1>3. CASE CacheAll(j)
  <2>1. job[j].at \in {"listed", "relisted"} /\ UNCHANGED work
    BY <1>3 DEF CacheAll, orcidVars
  <2>2. job[j].gone /\ OwnPutcode(j) = 0 /\ Go(j, Returned(j))
    <3> DEFINE next(at) == [[job[j] EXCEPT !.found = {}, !.putcode = OwnPutcode(j)] EXCEPT !.at = at]
               clash == [[job[j] EXCEPT !.found = {}, !.putcode = OwnPutcode(j)] EXCEPT !.at = "clash", !.after = "post"]
    <3>1. (\A at : next(at).at = at) /\ clash.at = "clash"
      BY <1>0 DEF JobState
    <3>2. \/ job[j].gone /\ OwnPutcode(j) = 0 /\ Go(j, Returned(j))
          \/ Go(j, next("delete")) \/ Go(j, next("again")) \/ Go(j, clash)
      BY <1>3 DEF CacheAll
    <3> HIDE DEF next, clash
    <3> QED BY <1>0, <3>1, <3>2, JobIs
  <2>3. ASSUME job[j].rec = r, NextTask(r) \notin sent
        PROVE  Done(r)'
    <3>1. job[j].at = "listed" /\ ~Crossed(r)
      BY <1>0, <1>a, <2>1, <2>2 DEF StateHolds, Doubted, Spoilt, Crossed
    <3>2. \A p \in Works(r) : <<p, r>> \in job[j].found
      BY <2>3, <3>1 DEF LateInv, LeftInv, StateListed
    <3>3. \A p \in Putcode : <<p, r>> \notin job[j].found
      BY <1>0, <2>2, <2>3, OwnPutcodeIs DEF OwnInv
    <3>4. Works(r) = {}
      BY <3>2, <3>3 DEF Works
    <3>5. job[j].gone = Latest(r).gone
      BY <1>a, <2>3, FreshIs
    <3>6. Done(r) /\ Works(r)' = Works(r)
      BY <2>1, <2>2, <3>4, <3>5 DEF Done, Works
    <3> QED BY <1>a, <2>1, <3>6, DoneStays
  <2> QED BY <1>1, <1>a, <1>b, <2>2, <2>3
<1>4. CASE CacheWritten(j)
  BY <1>1, <1>4, ToldDone DEF CacheWritten
<1>5. CASE CacheDeleted(j)
  <2>1. job[j].at = "deleted" /\ UNCHANGED <<work, spoilt>> /\ Go(j, Returned(j)) /\ job[j].gone
    BY <1>0, <1>5 DEF CacheDeleted, On, orcidVars, StateHolds
  <2>2. ASSUME job[j].rec = r, NextTask(r) \notin sent
        PROVE  Done(r)'
    <3>1. ~Spoilt({"unanswered", "crossed"}, r)
      BY <2>1 DEF Spoilt, Reason
    <3>2. Works(r) = {}
      BY <2>1, <2>2, <3>1 DEF LateInv, LeftInv, StateDeletes
    <3>3. job[j].gone = Latest(r).gone
      BY <1>a, <2>2, FreshIs
    <3>4. Done(r) /\ Works(r)' = Works(r)
      BY <2>1, <3>2, <3>3 DEF Done, Works
    <3> QED BY <1>a, <2>1, <3>4, DoneStays
  <2> QED BY <1>1, <1>a, <1>b, <2>1, <2>2
<1>6. CASE PushRefused(j)
  <2> DEFINE miss == [job[j] EXCEPT !.at = "missing", !.putcode = 0]
             next(at) == [job[j] EXCEPT !.at = at]
  <2>1. miss.at = "missing" /\ \A at : next(at).at = at
    BY <1>0 DEF JobState
  <2>2. \/ Go(j, miss) \/ Go(j, next("search")) \/ Go(j, next("clash"))
        \/ sent' = sent \cup {job[j].task}
    BY <1>6 DEF PushRefused
  <2> HIDE DEF miss, next
  <2> QED BY <1>0, <2>1, <2>2, JobIs
<1>7. CASE AgainRefused(j) \/ GiveUp(j)
  <2>1. CASE spoilt' = spoilt \cup Blamed(j) \/ spoilt' = spoilt \cup Unanswered(j) \cup Blamed(j)
    <3>1. <<"outage", r>> \in Blamed(j)
      BY DEF Blamed
    <3> QED BY <2>1, <3>1 DEF Spoilt, Reason
  <2>2. CASE Retried(j)
    BY <2>2 DEF Retried
  <2> QED BY <1>7, <2>1, <2>2 DEF AgainRefused, GiveUp
<1>8. CASE Interrupt(j)
  BY <1>8 DEF Interrupt, Retried
<1>9. CASE PushedClashing(j)
  <2>1. CASE Go(j, [job[j] EXCEPT !.at = "post", !.mine = {}])
    <3>1. job'[j] = [job[j] EXCEPT !.at = "post", !.mine = {}]
      BY <1>0, <2>1, JobIs
    <3> QED BY <1>0, <3>1 DEF JobState
  <2> QED BY <1>9, <2>1 DEF PushedClashing, Retried
<1> QED
  BY <1>0, <1>2, <1>3, <1>4, <1>5, <1>6, <1>7, <1>8, <1>9, NotOver DEF Step

\* The works of a record are written and deleted by pushes of the record, or
\* something else is to blame.
LEMMA WorksSame ==
  ASSUME OwnInv, NEW j \in Job, Step(j) \/ Interrupt(j) \/ GiveUp(j), NEW r \in Rec, ~Spoilt(Reason, r)',
         ~((Push(j) \/ Again(j) \/ Delete(j)) /\ job[j].rec = r)
  PROVE  Works(r)' = Works(r) /\ \A p \in Works(r) : work'[p] = work[p]
<1>1. CASE Push(j) \/ Again(j)
  <2>1. Write(j) /\ job[j].at \in {"push", "again", "post"} /\ job[j].rec # r
    BY <1>1 DEF Push, Again, On
  <2>2. PICK p \in Putcode : /\ work' = [work EXCEPT ![p] = [rec |-> job[j].rec, ids |-> job[j].ids]]
                             /\ Live(p) => work[p].rec = job[j].rec
    BY <2>1, WriteIs
  <2>3. p \notin Works(r)
    BY <2>1, <2>2, PushAssumption DEF Works, Live
  <2> QED BY <2>1, <2>2, <2>3 DEF Works, OwnInv, OrcidHolds
<1>2. CASE CacheWritten(j) \/ CacheDeleted(j)
  BY <1>2 DEF CacheWritten, CacheDeleted, orcidVars, Works
<1>3. CASE Delete(j)
  <2>1. /\ job[j].putcode \in Putcode /\ Owned(job[j].putcode, job[j].rec) /\ job[j].rec # r
    <3>1. job[j].putcode \in 0..MaxPutcode /\ job[j].putcode # 0 /\ StateOwns(job[j])
      BY <1>3, TaskIs DEF Delete, On, StateHolds, JobState
    <3> QED BY <1>3, <3>1, Bound DEF StateOwns
  <2>2. job[j].putcode \notin Works(r)
    BY <2>1, PushAssumption DEF Works, Owned, Live
  <2>3. PICK p \in Putcode : p = job[j].putcode /\ work' = [work EXCEPT ![p] = NoWork]
    BY <1>3, <2>1 DEF Delete
  <2>4. Works(r)' = Works(r) \ {p} /\ \A q \in Putcode \ {p} : work'[q] = work[q]
    BY <2>3, LessWorks
  <2> QED BY <2>2, <2>3, <2>4 DEF Works
<1>4. ASSUME NEW p \in Putcode, DropClashing(j, p)
      PROVE  Works(r)' = Works(r) /\ \A q \in Works(r) : work'[q] = work[q]
  <2>1. work' = [work EXCEPT ![p] = NoWork] /\ spoilt' = spoilt \cup {<<"dropped", o>> : o \in {work[p].rec} \ {NoRec}}
    BY <1>4 DEF DropClashing
  <2>2. p \notin Works(r)
    BY <2>1, PushAssumption DEF Works, Spoilt, Reason
  <2>3. Works(r)' = Works(r) \ {p} /\ \A q \in Putcode \ {p} : work'[q] = work[q]
    BY <2>1, LessWorks
  <2> QED BY <2>2, <2>3 DEF Works
<1>5. CASE Quietly(j)
  BY <1>5 DEF Quietly, Works
<1> QED BY <1>1, <1>2, <1>3, <1>4, <1>5, QuietSteps DEF Step

\* Every step leaves the latest version under way or done.
LEMMA ArrivesStep ==
  ASSUME LateInv, [Next]_vars, NEW r \in Rec, Arrives(r)
  PROVE  Arrives(r)'
<1> SUFFICES ASSUME ~Spoilt(Reason, r)'
             PROVE  Underway(r)' \/ Done(r)'
  BY DEF Arrives
<1>0. OwnInv /\ Len(history[r]) \in Nat
  BY LatestIs DEF LateInv, OwnInv
<1>a. ~Doubted(r)' /\ ~Crossed(r)'
  BY DEF Doubted, Crossed, Spoilt, Reason
<1> PICK n : n = NextTask(r)
  OBVIOUS
<1>1. ASSUME UNCHANGED <<history, job, work>>, n \in sent => n \in sent', spoilt \subseteq spoilt'
      PROVE  Underway(r)' \/ Done(r)'
  <2>1. Underway(r) \/ Done(r)
    BY <1>1 DEF Arrives, Spoilt
  <2>2. NextTask(r)' = n /\ Works(r)' = Works(r)
    BY <1>1 DEF NextTask, Works
  <2>3. Underway(r) => Underway(r)'
    BY <1>1, <2>2 DEF Underway
  <2> QED BY <1>1, <2>1, <2>2, <2>3, DoneStays
<1>2. CASE UNCHANGED vars
  BY <1>1, <1>2 DEF vars
<1>3. ASSUME NEW o \in Rec, Update(o) \/ Rollback(o)
      PROVE  Underway(r)' \/ Done(r)'
  BY <1>1, <1>3 DEF Update, Rollback, orcidVars
<1>4. ASSUME NEW t \in sent, DropTask(t)
      PROVE  Underway(r)' \/ Done(r)'
  <2>1. /\ UNCHANGED <<history, job, work>> /\ sent' = sent \ {t} /\ spoilt \subseteq spoilt'
        /\ ~(Len(history[t[1]]) >= t[2])
    BY <1>4 DEF DropTask, Committed, recVars, orcidVars
  <2>2. n # t
    BY <1>0, <2>1 DEF NextTask
  <2> QED BY <1>1, <2>1, <2>2
<1>5. ASSUME NEW p \in Putcode, RemoveWork(p)
      PROVE  Underway(r)' \/ Done(r)'
  <2>1. /\ UNCHANGED <<history, job, sent>> /\ work' = [work EXCEPT ![p] = NoWork]
        /\ spoilt' = spoilt \cup {<<"removed", work[p].rec>>}
    BY <1>5 DEF RemoveWork, recVars
  <2>2. Underway(r) \/ Done(r)
    BY <2>1 DEF Arrives, Spoilt
  <2>3. NextTask(r)' = n /\ p \notin Works(r)
    BY <2>1 DEF NextTask, Works, Spoilt, Reason
  <2>4. Underway(r) => Underway(r)'
    BY <2>1, <2>3 DEF Underway
  <2>5. Works(r)' = Works(r) /\ \A q \in Works(r) : work'[q] = work[q]
    <3>1. Works(r)' = Works(r) \ {p} /\ \A q \in Putcode \ {p} : work'[q] = work[q]
      BY <1>0, <2>1, LessWorks
    <3> QED BY <2>3, <3>1 DEF Works
  <2> QED BY <2>1, <2>2, <2>4, <2>5, DoneStays
<1>6. ASSUME NEW o \in Rec, Commit(o)
      PROVE  Underway(r)' \/ Done(r)'
  <2>1. PICK c \in pending[o] : history' = [history EXCEPT ![o] = Append(@, c)]
    BY <1>6 DEF Commit
  <2>2. UNCHANGED <<sent, job, work, spoilt>>
    BY <1>6 DEF Commit, orcidVars
  <2>3. CASE o = r
    <3>1. history'[r] = Append(history[r], c) /\ history[r] \in Seq(Content) /\ c \in Content
      BY <1>0, <2>1, <2>3 DEF OwnInv, RecordsHold
    <3>2. Len(history'[r]) = Len(history[r]) + 1
      BY <3>1
    <3>3. <<r, Len(history[r]) + 1>> \in sent
      BY <2>1, <2>2, <2>3 DEF LateInv, FreshInv, PendingHolds, Spoilt, Reason
    <3> QED BY <2>2, <3>2, <3>3 DEF Underway, NextTask
  <2>4. CASE o # r
    <3>1. history'[r] = history[r]
      BY <1>0, <2>1, <2>4 DEF OwnInv, RecordsHold
    <3>2. NextTask(r)' = NextTask(r) /\ Latest(r)' = Latest(r) /\ Works(r)' = Works(r)
      BY <2>2, <3>1 DEF NextTask, Latest, Works
    <3>3. Underway(r) \/ Done(r)
      BY <2>2 DEF Arrives, Spoilt
    <3> QED BY <2>2, <3>2, <3>3 DEF Underway, Done
  <2> QED BY <2>3, <2>4
<1>7. ASSUME NEW j \in Job, Load(j)
      PROVE  Underway(r)' \/ Done(r)'
  <2>1. PICK t \in sent :
          /\ sent' = sent \ {t} /\ Go(j, [Free EXCEPT !.at = "loaded", !.task = t, !.rec = t[1],
                                            !.ids = Latest(t[1]).ids, !.gone = Latest(t[1]).gone])
    BY <1>7 DEF Load
  <2>2. /\ job[j].at = "idle" /\ UNCHANGED <<history, work>> /\ spoilt \subseteq spoilt'
    BY <1>7 DEF Load, On, recVars, orcidVars
  <2>3. job'[j].at = "loaded" /\ job'[j].task = t /\ \A k \in Job \ {j} : job'[k] = job[k]
    <3> DEFINE s == [Free EXCEPT !.at = "loaded", !.task = t, !.rec = t[1],
                                 !.ids = Latest(t[1]).ids, !.gone = Latest(t[1]).gone]
    <3>1. s.at = "loaded" /\ s.task = t
      BY DEF Free
    <3>2. job'[j] = s /\ Others(j)
      BY <1>0, <2>1, JobIs
    <3> HIDE DEF s
    <3> QED BY <3>1, <3>2 DEF Others
  <2>4. NextTask(r)' = n /\ Works(r)' = Works(r)
    BY <2>2 DEF NextTask, Works
  <2>5. Underway(r) => Underway(r)'
    BY <2>1, <2>2, <2>3, <2>4 DEF Underway
  <2>6. Underway(r) \/ Done(r)
    BY <2>2 DEF Arrives, Spoilt
  <2> QED BY <2>2, <2>4, <2>5, <2>6, DoneStays
<1>8. ASSUME NEW j \in Job, Step(j) \/ Interrupt(j) \/ GiveUp(j), ~Load(j)
      PROVE  Underway(r)' \/ Done(r)'
  <2>1. UNCHANGED history /\ sent \subseteq sent' /\ Turns(j)
    BY <1>0, <1>8, SentStays, TurnIs DEF recVars
  <2>2. NextTask(r)' = n
    BY <2>1 DEF NextTask
  <2>3. CASE (Push(j) \/ Again(j)) /\ job[j].rec = r
    BY <1>a, <2>3, WroteDone DEF Underway
  <2>4. CASE CacheWritten(j) /\ job[j].rec = r
    BY <2>4, ToldDone DEF Underway
  <2>5. CASE Delete(j) /\ job[j].rec = r
    BY <2>5, DeletedDone DEF Underway
  <2>6. CASE ~((Push(j) \/ Again(j) \/ Delete(j) \/ CacheWritten(j)) /\ job[j].rec = r)
    <3>1. \A why \in Reason : <<why, r>> \in spoilt => <<why, r>> \in spoilt'
      <4>1. CASE Push(j) \/ Again(j)
        BY <2>6, <4>1 DEF Push, Again, Write
      <4>2. CASE CacheWritten(j)
        BY <2>6, <4>2 DEF CacheWritten
      <4>3. CASE Delete(j) \/ CacheDeleted(j)
        BY <4>3 DEF Delete, CacheDeleted
      <4>4. ASSUME NEW p \in Putcode, DropClashing(j, p)
            PROVE  \A why \in Reason : <<why, r>> \in spoilt => <<why, r>> \in spoilt'
        BY <4>4 DEF DropClashing
      <4> QED BY <1>0, <1>8, <4>1, <4>2, <4>3, <4>4, QuietSteps DEF Step, Quietly
    <3>2. Underway(r) \/ Done(r)
      BY <3>1 DEF Arrives, Spoilt
    <3>3. ASSUME Done(r)
          PROVE  Done(r)'
      <4>1. Works(r)' = Works(r) /\ \A p \in Works(r) : work'[p] = work[p]
        BY <1>0, <1>8, <2>6, WorksSame
      <4> QED BY <2>1, <3>3, <4>1, DoneStays
    <3>4. ASSUME Underway(r)
          PROVE  Underway(r)' \/ Done(r)'
      <4>1. CASE n \in sent
        BY <2>1, <2>2, <4>1 DEF Underway
      <4>2. ASSUME NEW k \in Job \ {j}, job[k].at # "idle", job[k].task = n
            PROVE  Underway(r)'
        <5>1. job'[k] = job[k]
          BY <2>1 DEF Turns, Others
        <5> QED BY <2>2, <4>2, <5>1 DEF Underway
      <4>3. CASE job[j].at # "idle" /\ job[j].task = n
        <5>1. CASE job'[j].at = "idle"
          <6>1. r = job[j].task[1]
            BY <4>3 DEF NextTask
          <6>2. n \in sent' \/ NextTask(r)' \in sent' \/ Done(r)'
            BY <1>8, <4>3, <5>1, <6>1, EndsDone
          <6> QED BY <2>2, <6>2 DEF Underway
        <5>2. CASE job'[j].at # "idle"
          <6>1. job'[j].task = n
            <7>1. CASE SameTask(j)
              BY <4>3, <7>1 DEF SameTask
            <7>2. CASE job'[j] = Free
              BY <5>2, <7>2, FreeIs
            <7>3. CASE job'[j] = Returned(j)
              BY <1>0, <4>3, <5>2, <7>3, ReturnedIs DEF OwnInv
            <7>4. CASE ListClashes(j)
              <8>1. PICK drop, todo : Go(j, [job[j] EXCEPT !.at = "clashes", !.mine = job[j].ids, !.putcode = 0,
                                                           !.drop = drop, !.todo = todo])
                BY <7>4 DEF ListClashes
              <8> DEFINE s == [job[j] EXCEPT !.at = "clashes", !.mine = job[j].ids, !.putcode = 0,
                                             !.drop = drop, !.todo = todo]
              <8>2. s.task = job[j].task
                BY <1>0, FieldsAre DEF JobState
              <8>3. Go(j, s)
                BY <8>1
              <8> HIDE DEF s
              <8> QED BY <1>0, <4>3, <8>2, <8>3, JobIs
            <7>5. CASE Posts(j)
              BY <1>0, <4>3, <7>5, FieldsAre DEF Posts, JobState
            <7>6. ASSUME NEW o \in Rec, PushClashing(j, o)
                  PROVE  job'[j].task = n
              <8>1. job'[j] = [job[j] EXCEPT !.at = "loaded", !.rec = o, !.todo = @ \ {o},
                                             !.ids = Latest(o).ids, !.gone = Latest(o).gone]
                BY <1>0, <7>6, JobIs DEF PushClashing
              <8> QED BY <1>0, <4>3, <8>1, FieldsAre DEF JobState
            <7> QED BY <2>1, <7>1, <7>2, <7>3, <7>4, <7>5, <7>6 DEF Turns
          <6> QED BY <2>2, <5>2, <6>1 DEF Underway
        <5> QED BY <5>1, <5>2
      <4> QED BY <3>4, <4>1, <4>2, <4>3 DEF Underway
    <3> QED BY <3>2, <3>3, <3>4
  <2> QED BY <2>3, <2>4, <2>5, <2>6
<1> QED
  BY <1>2, <1>3, <1>4, <1>5, <1>6, <1>7, <1>8 DEF Next, Step

\* The invariants hold throughout, and so does Arrives.
LEMMA LateInvariant == Spec => [](LateInv /\ \A r \in Rec : Arrives(r))
<1>1. Init => FreshInv /\ LeftInv /\ \A r \in Rec : Arrives(r)
  <2> SUFFICES ASSUME Init
               PROVE  FreshInv /\ LeftInv /\ \A r \in Rec : Arrives(r)
    OBVIOUS
  <2>1. \A j \in Job : job[j].at = "idle" /\ job[j].found = {}
    BY DEF Init, Free
  <2>2. \A r \in Rec : cache[r].putcode = 0
    BY DEF Init, Uncached
  <2>3. \A r \in Rec : pending[r] = {} /\ NextTask(r) \in sent
    <3>1. \A r \in Rec : Len(history[r]) = 1
      BY DEF Init
    <3> QED BY <3>1 DEF Init, NextTask
  <2>4. FreshInv
    BY <2>1, <2>3 DEF FreshInv, PendingHolds, StateFresh
  <2>5. LeftInv
    BY <2>1, <2>2 DEF LeftInv, StateListed, StateDeletes, CachePut
  <2> QED BY <2>3, <2>4, <2>5 DEF Arrives, Underway
<1>2. OwnInv /\ HitInv /\ FreshInv /\ LeftInv /\ (\A r \in Rec : Arrives(r)) /\ [Next]_vars
        => FreshInv' /\ LeftInv' /\ (\A r \in Rec : Arrives(r))'
  BY FreshStep, LeftStep, ArrivesStep DEF LateInv
<1>3. LateInv <=> OwnInv /\ HitInv /\ FreshInv /\ LeftInv
  BY DEF LateInv
<1> QED BY <1>1, <1>2, <1>3, HitInvariant, PTL DEF Spec

\* When the pushes of a record are over ORCID has it once, as it is in INSPIRE,
\* and has no work of a deleted record: however its pushes interleaved with
\* updates and with pushes of other records, failed and were retried, unless a
\* push was given up, two overlapped, an answer was lost, or the work was
\* deleted for another reason and not written since.
THEOREM WorksAreLatest == Spec => []WorkIsLatest
<1>1. LateInv /\ (\A r \in Rec : Arrives(r)) => WorkIsLatest
  <2> SUFFICES ASSUME \A r \in Rec : Arrives(r), NEW r \in Rec, Quiet(r), ~Spoilt(Reason, r)
               PROVE  Done(r)
    BY DEF WorkIsLatest, Done
  <2>1. ~Underway(r)
    BY DEF Quiet, Busy, Underway, NextTask
  <2> QED BY <2>1 DEF Arrives
<1> QED BY <1>1, LateInvariant, PTL

-----------------------------------------------------------------------------
(* Both together                                                           *)

\* A behaviour of the parts, as MCPushes puts them together, is a behaviour of
\* each: what is proved of one holds there too.
THEOREM PushPartsAreParts == PartsSpec => Spec /\ HalSpec
<1>1. PartsInit => Init /\ HalInit
  BY DEF PartsInit
<1>2. [PartsNext]_partVars => [Next]_vars
  BY DEF PartsNext, partVars
<1>3. [PartsNext]_partVars => [HalNext]_halVars
  BY DEF PartsNext, partVars
<1> QED BY <1>1, <1>2, <1>3, PTL DEF PartsSpec, Spec, HalSpec

\* The types of the parts, there too.
THEOREM PushPartsTypes == PartsSpec => []TypesOK
<1>1. PushTypeOK /\ HalTypeOK => TypesOK
  BY DEF TypesOK
<1> QED BY <1>1, PushPartsAreParts, PushTypeCorrect, HalTypeCorrect, PTL
=============================================================================
