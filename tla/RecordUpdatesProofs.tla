------------------------ MODULE RecordUpdatesProofs ------------------------
(***************************************************************************)
(* An update is one step to whoever looks at the records, however long its *)
(* run takes: no edit is lost to it, what it brings arrives, and its       *)
(* conflicts are reviewed.  For every number of records, runs, sources,    *)
(* items and updates of one record at a time.                              *)
(***************************************************************************)
EXTENDS RecordUpdates, TLAPS

\* The task of a run: also when it has failed, and may be started again.
Where(r) == IF r.at = "failed" THEN r.failed ELSE r.at
HasMerged(r) == Where(r) \in {"merged", "await", "roots", "moving", "store"}
UnderWay(r) == Where(r) \in {"start", "head", "root"} \/ HasMerged(r)

\* What a record has or had, with what the records had whose roots it may have.
Known(p) == {i \in Item : i \in Had(p) \/ \E o \in Paper : <<p, o>> \in ahead /\ i \in Had(o)}
BroughtTo(p, s) ==
  {i \in Item : i \in brought[p][s] \/ \E o \in Paper : <<p, o>> \in ahead /\ i \in brought[o][s]}
Stands(p, s, items) == items \subseteq Known(p) \cap BroughtTo(p, s)

\* A root holds only what updates of its source brought, and what was stored.
RootsAreStored == \A p \in Paper, s \in Source : Stands(p, s, RootItems(p, s))

\* The record of a run is still what it has read.
Current(r) == r.base = head[r.rec].version

\* What a run knows of its record.
HeadHolds(r) ==
  UnderWay(r) =>
    /\ r.rec \in Paper /\ r.asked \in Paper
    /\ r.base <= head[r.rec].version
    /\ Where(r) = "start" => r.base = 0
    /\ Where(r) = "head" /\ Current(r) => r.read = head[r.rec].items
    /\ Where(r) = "root" => r.base < head[r.rec].version

\* A run of an update has merged it with the record and with something that its
\* source brought before.
UpdateHolds(r) ==
  r.kind = "update" =>
    /\ HasMerged(r) =>
         \E old \in SUBSET Item :
           /\ Stands(r.rec, r.source, old)
           /\ r.update \subseteq r.merged \cup old
           /\ Current(r) => r.merged = Merged(head[r.rec].items, old, r.update)
    /\ Where(r) = "root" => r.update \subseteq Known(r.rec) \cap brought[r.rec][r.source]

\* A manual merge takes nothing out of the record, and adds what the other record
\* had; the roots it has listed are those of the other record.
ManualHolds(r) ==
  r.kind = "manual" /\ UnderWay(r) =>
    /\ r.named \in Paper /\ r.other \in Paper
    /\ HasMerged(r) /\ Current(r) =>
         /\ head[r.rec].items \subseteq r.merged
         /\ r.merged \subseteq head[r.rec].items \cup Had(r.other)
    /\ Where(r) = "moving" => \A s \in Source : Stands(r.other, s, UNION r.roots[s])

\* A decision is about the conflicts of the last merge, or came late; a run that
\* has still to merge has only late ones.
DecisionHolds(r) ==
  r.kind = "update" =>
    /\ r.approved => r.reviewed \/ r.late
    /\ Where(r) \in {"idle", "start", "head"} => (r.approved => r.late)
    /\ Where(r) = "store" => ~r.conflicts \/ r.reviewed \/ r.late

\* Only a task under way fails, only manual merges move roots, and only updates
\* have one to store.
PlaceHolds(r) ==
  /\ r.at = "failed" => UnderWay(r)
  /\ Where(r) \in {"roots", "moving"} => r.kind = "manual"
  /\ Where(r) = "root" => r.kind = "update"

RunHolds(r) == HeadHolds(r) /\ UpdateHolds(r) /\ ManualHolds(r) /\ DecisionHolds(r) /\ PlaceHolds(r)
UpdatesInv == UpdatesTypeOK /\ RootsAreStored /\ \A w \in Run : RunHolds(run[w])

-----------------------------------------------------------------------------
(* What no step undoes                                                     *)

\* Versions grow, an unchanged version has unchanged items, and what is known
\* of a record or was brought to it stays known.
Calm ==
  \A p \in Paper :
    /\ head[p].version <= head'[p].version
    /\ head'[p].version = head[p].version => head'[p].items = head[p].items
    /\ Had(p) \subseteq Had(p)'
    /\ Known(p) \subseteq Known(p)'
    /\ \A s \in Source : /\ brought[p][s] \subseteq brought'[p][s]
                         /\ BroughtTo(p, s) \subseteq BroughtTo(p, s)'

\* A calm step, which takes nothing from what records had, keeps what a run holds.
LEMMA CalmRuns ==
  ASSUME UpdatesTypeOK, UpdatesTypeOK', Calm, NEW r \in RunState, RunHolds(r)
  PROVE  RunHolds(r)'
<1>1. r.rec \in Paper => /\ head[r.rec].version \in Nat /\ head'[r.rec].version \in Nat
  BY DEF UpdatesTypeOK, Head
<1>2. r.base \in Nat /\ r.source \in Source
  BY DEF RunState
<1>3. UnderWay(r) =>
        /\ r.base <= head'[r.rec].version
        /\ Current(r)' => Current(r) /\ head'[r.rec].items = head[r.rec].items
        /\ r.base < head[r.rec].version => r.base < head'[r.rec].version
  BY <1>1, <1>2 DEF Calm, RunHolds, HeadHolds, Current
<1>4. \A p \in Paper, s \in Source, items \in SUBSET Item : Stands(p, s, items) => Stands(p, s, items)'
  BY DEF Calm, Stands
<1>5. HeadHolds(r)'
  BY <1>3 DEF RunHolds, HeadHolds, UnderWay, HasMerged, Where
<1>6. UpdateHolds(r)'
  <2> SUFFICES ASSUME r.kind = "update"
               PROVE  UpdateHolds(r)'
    BY DEF UpdateHolds
  <2>1. ASSUME HasMerged(r)
        PROVE  \E old \in SUBSET Item :
                 /\ Stands(r.rec, r.source, old)'
                 /\ r.update \subseteq r.merged \cup old
                 /\ Current(r)' => r.merged = Merged(head'[r.rec].items, old, r.update)
    <3>1. r.rec \in Paper
      BY <2>1 DEF RunHolds, HeadHolds, UnderWay
    <3>2. PICK old \in SUBSET Item :
            /\ Stands(r.rec, r.source, old)
            /\ r.update \subseteq r.merged \cup old
            /\ Current(r) => r.merged = Merged(head[r.rec].items, old, r.update)
      BY <2>1 DEF RunHolds, UpdateHolds
    <3>3. Current(r)' => r.merged = Merged(head'[r.rec].items, old, r.update)
      BY <1>3, <2>1, <3>2 DEF UnderWay
    <3> QED BY <1>2, <1>4, <3>1, <3>2, <3>3
  <2>2. Where(r) = "root" => r.update \subseteq (Known(r.rec) \cap brought[r.rec][r.source])'
    BY <1>2 DEF Calm, RunHolds, UpdateHolds, HeadHolds, UnderWay
  <2> QED BY <2>1, <2>2 DEF UpdateHolds, HasMerged, Where
<1>7. ManualHolds(r)'
  <2> SUFFICES ASSUME r.kind = "manual", UnderWay(r)
               PROVE  ManualHolds(r)'
    BY DEF ManualHolds, UnderWay, HasMerged, Where
  <2>1. r.named \in Paper /\ r.other \in Paper
    BY DEF RunHolds, ManualHolds
  <2>2. HasMerged(r) /\ Current(r)' =>
          /\ head'[r.rec].items \subseteq r.merged
          /\ r.merged \subseteq head'[r.rec].items \cup Had(r.other)'
    BY <1>3, <2>1 DEF RunHolds, ManualHolds, Calm
  <2>3. Where(r) = "moving" => \A s \in Source : Stands(r.other, s, UNION r.roots[s])'
    <3>1. \A s \in Source : UNION r.roots[s] \in SUBSET Item
      BY DEF RunState, Roots
    <3> QED BY <1>4, <2>1, <3>1 DEF RunHolds, ManualHolds
  <2> QED BY <2>1, <2>2, <2>3 DEF ManualHolds, HasMerged, Where
<1> QED BY <1>5, <1>6, <1>7 DEF RunHolds, DecisionHolds, PlaceHolds, UnderWay, HasMerged, Where

\* The same for the roots.
LEMMA CalmRoots ==
  ASSUME RootsAreStored, Calm, UNCHANGED root
  PROVE  RootsAreStored'
BY DEF RootsAreStored, Stands, Calm, RootItems

\* A step that stores nothing is calm.
LEMMA NothingStored ==
  ASSUME UpdatesTypeOK, UNCHANGED <<head, ahead, historyVars>>
  PROVE  Calm
BY DEF Calm, historyVars, Known, Had, BroughtTo, UpdatesTypeOK, Head

\* So is one that only moves roots.
LEMMA AheadGrows ==
  ASSUME UpdatesTypeOK, UNCHANGED <<head, historyVars>>, ahead \subseteq ahead'
  PROVE  Calm
<1>1. \A p \in Paper : Had(p)' = Had(p)
  BY DEF historyVars, Had
<1>2. \A p \in Paper : Known(p) \subseteq Known(p)'
  BY <1>1 DEF Known
<1>3. \A p \in Paper, s \in Source : BroughtTo(p, s) \subseteq BroughtTo(p, s)'
  BY DEF historyVars, BroughtTo
<1>4. \A p \in Paper : head[p].version <= head'[p].version
  BY DEF UpdatesTypeOK, Head
<1> QED BY <1>1, <1>2, <1>3, <1>4 DEF Calm, historyVars

\* A new version has the items it was given; merged records get a new version
\* with the same items.
LEMMA PutFacts ==
  ASSUME UpdatesTypeOK, NEW p \in Paper, NEW items \in SUBSET Item, NEW deleted \in SUBSET Paper,
         Put(p, items, deleted)
  PROVE  /\ head' \in [Paper -> Head]
         /\ head'[p].version = head[p].version + 1 /\ head'[p].items = items
         /\ \A o \in Paper : o # p => head'[o].items = head[o].items
         /\ \A o \in Paper :
              head[o].version <= head'[o].version /\ (head'[o].version = head[o].version => o # p)
<1> DEFINE new(q) == IF q = p THEN [head[q] EXCEPT !.version = @ + 1, !.items = items, !.deleted = deleted]
                     ELSE IF q \in deleted THEN [head[q] EXCEPT !.version = @ + 1, !.into = p]
                     ELSE head[q]
<1>1. ASSUME NEW q \in Paper
      PROVE  /\ new(q) \in Head
             /\ q = p => new(q).items = items /\ new(q).version = head[q].version + 1
             /\ q # p => new(q).items = head[q].items
             /\ head[q].version <= new(q).version
             /\ new(q).version = head[q].version => q # p
  <2>1. PICK h \in Head : h = head[q]
    BY DEF UpdatesTypeOK
  <2>2. PICK n \in Nat : n = h.version + 1
    BY <2>1 DEF Head
  <2>n. h.version \in Nat /\ h.version <= n /\ n # h.version
    BY <2>2 DEF Head
  <2>3. CASE q = p
    <3>1. PICK z : z = [h EXCEPT !.version = n, !.items = items, !.deleted = deleted]
      OBVIOUS
    <3>2. new(q) = z
      BY <2>1, <2>2, <2>3, <3>1
    <3>3. z \in Head /\ z.version = n /\ z.items = items
      BY <3>1 DEF Head
    <3> HIDE DEF new
    <3> QED BY <2>1, <2>2, <2>n, <2>3, <3>2, <3>3
  <2>4. CASE q # p /\ q \in deleted
    <3>1. PICK z : z = [h EXCEPT !.version = n, !.into = p]
      OBVIOUS
    <3>2. new(q) = z
      BY <2>1, <2>2, <2>4, <3>1
    <3>3. z \in Head /\ z.version = n /\ z.items = h.items
      BY <3>1 DEF Head
    <3> HIDE DEF new
    <3> QED BY <2>1, <2>2, <2>n, <2>4, <3>2, <3>3
  <2>5. CASE q # p /\ q \notin deleted
    BY <2>1, <2>5 DEF Head
  <2> QED BY <2>3, <2>4, <2>5
<1>2. head' = [q \in Paper |-> new(q)]
  BY DEF Put
<1> HIDE DEF new
<1> QED BY <1>1, <1>2

\* With what the record had and lost, nothing that was had is forgotten.
LEMMA HadGrows ==
  ASSUME UpdatesTypeOK, NEW p \in Paper, NEW items \in SUBSET Item, NEW deleted \in SUBSET Paper,
         NEW was \in SUBSET Item, Put(p, items, deleted), Lose(p, items, was)
  PROVE  /\ removed' \in [Paper -> SUBSET Item]
         /\ Had(p)' = items \cup was
         /\ \A o \in Paper : o # p => Had(o)' = Had(o)
<1>1. /\ removed' \in [Paper -> SUBSET Item] /\ removed'[p] = was \ items
      /\ \A o \in Paper : o # p => removed'[o] = removed[o]
  BY DEF Lose, UpdatesTypeOK
<1> QED BY <1>1, PutFacts DEF Had

\* What a record had, and what is known of it, are items.
LEMMA HadType ==
  ASSUME UpdatesTypeOK, NEW p \in Paper
  PROVE  Had(p) \in SUBSET Item
BY DEF UpdatesTypeOK, Had, Head

\* So a new version is calm, also if the records whose roots it may have are
\* fewer now, provided that it had what they had.
LEMMA NewVersionCalm ==
  ASSUME UpdatesTypeOK, NEW p \in Paper, NEW items \in SUBSET Item, NEW deleted \in SUBSET Paper,
         NEW was \in SUBSET Item, Put(p, items, deleted), Lose(p, items, was),
         Had(p) \subseteq was,
         \A o \in Paper, s \in Source : brought[o][s] \subseteq brought'[o][s],
         \A q, o \in Paper : <<q, o>> \in ahead =>
           \/ <<q, o>> \in ahead'
           \/ q = p /\ Had(o) \subseteq was /\ \A s \in Source : brought[o][s] \subseteq brought'[p][s]
  PROVE  Calm
<1>0. Had(p)' = items \cup was /\ \A o \in Paper : o # p => Had(o)' = Had(o)
  BY HadGrows
<1>1. \A o \in Paper : Had(o) \subseteq Had(o)'
  BY <1>0
<1>2. \A o \in Paper : Known(o) \subseteq Known(o)'
  <2>1. was \subseteq Had(p)'
    BY <1>0
  <2> QED BY <1>1, <2>1 DEF Known
<1>3. \A o \in Paper, s \in Source : BroughtTo(o, s) \subseteq BroughtTo(o, s)'
  BY DEF BroughtTo
<1>4. \A o \in Paper : /\ head[o].version <= head'[o].version
                       /\ head'[o].version = head[o].version => head'[o].items = head[o].items
  BY PutFacts
<1> QED BY <1>1, <1>2, <1>3, <1>4 DEF Calm

\* A run that does nothing keeps what it holds.
LEMMA StillHolds ==
  ASSUME UpdatesInv, UpdatesTypeOK', Calm, NEW w \in Run, run'[w] = run[w]
  PROVE  RunHolds(run[w])'
<1>1. PICK r \in RunState : r = run[w]
  BY DEF UpdatesInv, UpdatesTypeOK
<1>2. RunHolds(r)'
  BY <1>1, CalmRuns DEF UpdatesInv
<1>3. run'[w] = r
  BY <1>1
<1> QED BY <1>2, <1>3

\* A calm step of one run leaves the others what they held.
LEMMA OthersHold ==
  ASSUME UpdatesInv, UpdatesTypeOK', Calm, NEW w \in Run,
         \A o \in Run : o # w => run'[o] = run[o], RunHolds(run[w])'
  PROVE  \A o \in Run : RunHolds(run[o])'
BY StillHolds

\* A run that moves leaves the others.
LEMMA GoType ==
  ASSUME UpdatesTypeOK, NEW w \in Run, NEW state \in RunState, Go(w, state)
  PROVE  /\ run' \in [Run -> RunState] /\ run'[w] = state
         /\ \A o \in Run : o # w => run'[o] = run[o]
BY DEF UpdatesTypeOK, Go

-----------------------------------------------------------------------------
(* Steps that store nothing                                                *)

LEMMA QuietStep ==
  ASSUME UpdatesInv, NEW w \in Run, NEW state \in RunState, Go(w, state), RunHolds(state),
         UNCHANGED <<head, root, ahead, historyVars>>
  PROVE  UpdatesInv'
<1>1. /\ run' \in [Run -> RunState] /\ run'[w] = state
      /\ \A o \in Run : o # w => run'[o] = run[o]
  BY GoType DEF UpdatesInv
<1>2. UpdatesTypeOK'
  BY <1>1 DEF UpdatesInv, UpdatesTypeOK, historyVars
<1>3. Calm
  BY NothingStored DEF UpdatesInv
<1>4. RunHolds(state)'
  BY <1>2, <1>3, CalmRuns DEF UpdatesInv
<1>5. \A o \in Run : RunHolds(run[o])'
  BY <1>1, <1>2, <1>3, <1>4, OthersHold
<1> QED BY <1>2, <1>3, <1>5, CalmRoots DEF UpdatesInv

\* A run that has not begun, or is over, holds nothing.
LEMMA FreshHolds ==
  ASSUME NEW s \in Source
  PROVE  Fresh(s) \in RunState /\ RunHolds(Fresh(s))
<1>1. Fresh(s) \in RunState
  BY DEF Fresh, RunState, Place, NoRoots, Roots
<1> QED
  BY <1>1 DEF Fresh, RunHolds, HeadHolds, UpdateHolds, ManualHolds, DecisionHolds, PlaceHolds,
     UnderWay, HasMerged, Where

LEMMA DoneHolds ==
  ASSUME NEW s \in Source, NEW state, state = [Fresh(s) EXCEPT !.at = "done"]
  PROVE  state \in RunState /\ RunHolds(state)
<1>1. state \in RunState
  BY DEF Fresh, RunState, Place, NoRoots, Roots
<1> QED
  BY <1>1 DEF Fresh, RunHolds, HeadHolds, UpdateHolds, ManualHolds, DecisionHolds, PlaceHolds,
     UnderWay, HasMerged, Where

\* A run at its start, or at its start again, holds only the records it is about.
LEMMA AtStartHolds ==
  ASSUME UpdatesTypeOK, NEW state \in RunState, state.at = "start", state.base = 0,
         state.rec \in Paper, state.asked \in Paper,
         state.kind = "manual" => state.named \in Paper /\ state.other \in Paper,
         state.kind = "update" => (state.approved => state.late)
  PROVE  RunHolds(state)
<1>1. head[state.rec].version \in Nat
  BY DEF UpdatesTypeOK, Head
<1> QED
  BY <1>1 DEF RunHolds, HeadHolds, UpdateHolds, ManualHolds, DecisionHolds, PlaceHolds,
     UnderWay, HasMerged, Where

\* What a run holds does not depend on which of two names its place has.
LEMMA SameHolds ==
  ASSUME NEW r \in RunState, NEW state \in RunState, RunHolds(r),
         state.kind = r.kind, state.rec = r.rec, state.asked = r.asked, state.named = r.named,
         state.other = r.other, state.source = r.source, state.update = r.update,
         state.base = r.base, state.read = r.read, state.merged = r.merged,
         state.conflicts = r.conflicts, state.approved = r.approved, state.reviewed = r.reviewed,
         state.late = r.late,
         PlaceHolds(state), Where(state) = "moving" => state.roots = r.roots,
         \/ Where(state) = Where(r)
         \/ /\ Where(r) \in {"merged", "roots", "moving"}
            /\ Where(state) \in {"await", "roots", "store"}
            /\ Where(state) = "store" /\ r.kind = "update" => (r.conflicts => r.approved)
  PROVE  RunHolds(state)
<1>1. HasMerged(state) <=> HasMerged(r)
  BY DEF HasMerged
<1>2. UnderWay(state) <=> UnderWay(r)
  BY <1>1 DEF UnderWay, HasMerged
<1>3. HeadHolds(state)
  BY <1>2 DEF RunHolds, HeadHolds, Current
<1>4. UpdateHolds(state)
  BY <1>1 DEF RunHolds, UpdateHolds, Current
<1>5. ManualHolds(state)
  BY <1>1, <1>2 DEF RunHolds, ManualHolds, Current
<1>6. DecisionHolds(state)
  BY DEF RunHolds, DecisionHolds
<1> QED BY <1>3, <1>4, <1>5, <1>6 DEF RunHolds

\* The next task of a run begins, a task fails, or is started again.
LEMMA MoveHolds ==
  ASSUME NEW r \in RunState, NEW state,
         \/ state = [r EXCEPT !.at = "failed", !.failed = r.at]
            /\ r.at \notin {"idle", "failed", "done", "await"}
         \/ state = [r EXCEPT !.at = r.failed, !.failed = "idle"] /\ r.at = "failed"
         \/ state = [r EXCEPT !.at = "roots", !.failed = "idle", !.roots = NoRoots, !.copies = {}]
            /\ r.at = "failed" /\ r.failed = "moving"
         \/ state = [r EXCEPT !.at = "await"] /\ r.at = "merged"
         \/ state = [r EXCEPT !.at = "store"] /\ r.at = "merged" /\ (r.conflicts => r.approved)
         \/ state = [r EXCEPT !.at = "roots"] /\ r.at = "merged" /\ r.kind = "manual"
         \/ state = [r EXCEPT !.at = "store"] /\ r.at = "moving" /\ r.kind = "manual",
         RunHolds(r)
  PROVE  state \in RunState /\ RunHolds(state)
<1>1. /\ state.kind = r.kind /\ state.rec = r.rec /\ state.asked = r.asked /\ state.named = r.named
      /\ state.other = r.other /\ state.source = r.source /\ state.update = r.update
      /\ state.base = r.base /\ state.read = r.read /\ state.merged = r.merged
      /\ state.conflicts = r.conflicts /\ state.approved = r.approved /\ state.reviewed = r.reviewed
      /\ state.late = r.late
  <2>1. CASE state = [r EXCEPT !.at = "roots", !.failed = "idle", !.roots = NoRoots, !.copies = {}]
    BY <2>1 DEF RunState
  <2>2. CASE \E place : state = [r EXCEPT !.at = place]
    BY <2>2 DEF RunState
  <2>3. CASE \E place, failed : state = [r EXCEPT !.at = place, !.failed = failed]
    BY <2>3 DEF RunState
  <2> QED BY <2>1, <2>2, <2>3
<1>2. state \in RunState
  <2>1. CASE state = [r EXCEPT !.at = "failed", !.failed = r.at] /\ r.at # "failed"
    BY <2>1 DEF RunState, Place
  <2>2. CASE state = [r EXCEPT !.at = r.failed, !.failed = "idle"]
    BY <2>2 DEF RunState, Place
  <2>3. CASE \E place \in Place : state = [r EXCEPT !.at = place]
    BY <2>3 DEF RunState
  <2>4. CASE state = [r EXCEPT !.at = "roots", !.failed = "idle", !.roots = NoRoots, !.copies = {}]
    BY <2>4 DEF RunState, Place, NoRoots, Roots
  <2> QED BY <2>1, <2>2, <2>3, <2>4 DEF Place
<1>3. \/ Where(state) = Where(r) /\ state.roots = r.roots
      \/ /\ Where(r) \in {"merged", "roots", "moving"}
         /\ Where(state) \in {"await", "roots", "store"}
         /\ Where(state) = "store" /\ r.kind = "update" => (r.conflicts => r.approved)
         /\ Where(state) = "roots" => r.kind = "manual"
  BY DEF RunState, Where, RunHolds, PlaceHolds
<1>4. state.at = "failed" => Where(state) = r.at /\ r.at \in Place \ {"idle", "failed", "done", "await"}
  BY DEF RunState, Place, Where
<1>5. PlaceHolds(state)
  BY <1>1, <1>3, <1>4 DEF RunHolds, PlaceHolds, UnderWay, HasMerged, Place
<1> QED BY <1>1, <1>2, <1>3, <1>5, SameHolds

\* Starting a run keeps the invariant.
LEMMA StartHolds ==
  ASSUME UpdatesInv, NEW w \in Run, StartUpdate(w) \/ StartManual(w)
  PROVE  UpdatesInv'
<1>1. CASE StartUpdate(w)
  <2>0. PICK p \in Paper, s \in Source, update \in SUBSET Item :
          Go(w, [Fresh(s) EXCEPT !.at = "start", !.asked = p, !.rec = p, !.update = update])
    BY <1>1 DEF StartUpdate
  <2>1. PICK state :
          /\ state = [Fresh(s) EXCEPT !.at = "start", !.asked = p, !.rec = p, !.update = update]
          /\ Go(w, state)
    BY <2>0
  <2>2. state \in RunState
    BY <2>1 DEF Fresh, RunState, Place, NoRoots, Roots
  <2>3. /\ state.at = "start" /\ state.kind = "update" /\ state.rec = p /\ state.asked = p
        /\ state.base = 0 /\ ~state.approved
    BY <2>1 DEF Fresh
  <2>4. RunHolds(state)
    BY <2>2, <2>3, AtStartHolds DEF UpdatesInv
  <2> QED BY <1>1, <2>1, <2>2, <2>4, QuietStep DEF StartUpdate
<1>2. CASE StartManual(w)
  <2>1. PICK s \in Source : s = run[w].source
    BY DEF UpdatesInv, UpdatesTypeOK, RunState
  <2>0. PICK p \in Paper, o \in Paper :
          Go(w, [Fresh(s) EXCEPT !.at = "start", !.kind = "manual",
                                 !.asked = p, !.named = o, !.rec = p, !.other = o])
    BY <1>2, <2>1 DEF StartManual
  <2>2. PICK state :
          /\ state = [Fresh(s) EXCEPT !.at = "start", !.kind = "manual",
                                      !.asked = p, !.named = o, !.rec = p, !.other = o]
          /\ Go(w, state)
    BY <2>0
  <2>3. state \in RunState
    BY <2>2 DEF Fresh, RunState, Place, NoRoots, Roots
  <2>4. /\ state.at = "start" /\ state.kind = "manual" /\ state.rec = p /\ state.asked = p
        /\ state.named = o /\ state.other = o /\ state.base = 0
    BY <2>2 DEF Fresh
  <2>5. RunHolds(state)
    BY <2>3, <2>4, AtStartHolds DEF UpdatesInv
  <2> QED BY <1>2, <2>2, <2>3, <2>5, QuietStep DEF StartManual
<1> QED BY <1>1, <1>2

\* A run goes on to the record that answers for the one it has asked for.
LEMMA FollowHolds ==
  ASSUME UpdatesInv, NEW w \in Run, FollowRedirect(w)
  PROVE  UpdatesInv'
<1>1. PICK r \in RunState : r = run[w]
  BY DEF UpdatesInv, UpdatesTypeOK
<1>2. RunHolds(r)
  BY <1>1 DEF UpdatesInv
<1>3. CASE At(w, "start") /\ ~Stored(r.rec) /\ Go(w, [r EXCEPT !.rec = head[r.rec].into])
  <2>1. r.at = "start" /\ Where(r) = "start" /\ UnderWay(r)
    BY <1>1, <1>3 DEF At, Where, UnderWay
  <2>2. r.rec \in Paper /\ r.base = 0 /\ r.asked \in Paper
    BY <1>2, <2>1 DEF RunHolds, HeadHolds
  <2>3. head[r.rec].into \in Paper
    BY <1>3, <2>2 DEF UpdatesInv, UpdatesTypeOK, Head, Stored
  <2>4. PICK state : state = [r EXCEPT !.rec = head[r.rec].into]
    OBVIOUS
  <2>5. state \in RunState
    BY <2>3, <2>4 DEF RunState
  <2>6. /\ state.at = "start" /\ state.rec = head[r.rec].into /\ state.asked = r.asked
        /\ state.base = 0 /\ state.kind = r.kind /\ state.named = r.named /\ state.other = r.other
        /\ state.approved = r.approved /\ state.late = r.late
    BY <2>1, <2>2, <2>4 DEF RunState
  <2>7. /\ r.kind = "manual" => r.named \in Paper /\ r.other \in Paper
        /\ r.kind = "update" => (r.approved => r.late)
    BY <1>2, <2>1 DEF RunHolds, ManualHolds, DecisionHolds
  <2>8. RunHolds(state)
    BY <2>2, <2>3, <2>5, <2>6, <2>7, AtStartHolds DEF UpdatesInv
  <2> QED BY <1>3, <2>4, <2>5, <2>8, QuietStep DEF FollowRedirect
<1>4. CASE At(w, "head") /\ r.kind = "manual" /\ ~Stored(r.other)
           /\ Go(w, [r EXCEPT !.other = head[r.other].into])
  <2>1. r.at = "head" /\ Where(r) = "head" /\ UnderWay(r)
    BY <1>1, <1>4 DEF At, Where, UnderWay
  <2>2. r.other \in Paper /\ r.named \in Paper
    BY <1>2, <1>4, <2>1 DEF RunHolds, ManualHolds
  <2>3. head[r.other].into \in Paper
    BY <1>4, <2>2 DEF UpdatesInv, UpdatesTypeOK, Head, Stored
  <2>4. PICK state : state = [r EXCEPT !.other = head[r.other].into]
    OBVIOUS
  <2>5. state \in RunState
    BY <2>3, <2>4 DEF RunState
  <2>6. /\ state.at = "head" /\ state.rec = r.rec /\ state.asked = r.asked
        /\ state.base = r.base /\ state.kind = "manual" /\ state.named = r.named
        /\ state.other = head[r.other].into /\ state.read = r.read
    BY <1>4, <2>1, <2>4 DEF RunState
  <2>7. RunHolds(state)
    BY <1>2, <1>4, <2>1, <2>2, <2>3, <2>6
    DEF RunHolds, HeadHolds, UpdateHolds, ManualHolds, DecisionHolds, PlaceHolds, UnderWay, HasMerged,
        Where, Current
  <2> QED BY <1>4, <2>4, <2>5, <2>7, QuietStep DEF FollowRedirect
<1> QED BY <1>1, <1>3, <1>4 DEF FollowRedirect

\* Reading the head gives the run its version and items.
LEMMA ReadHolds ==
  ASSUME UpdatesInv, NEW w \in Run, ReadHead(w)
  PROVE  UpdatesInv'
<1>1. PICK r \in RunState : r = run[w]
  BY DEF UpdatesInv, UpdatesTypeOK
<1>2. RunHolds(r) /\ r.at = "start" /\ Where(r) = "start"
  BY <1>1 DEF UpdatesInv, ReadHead, At, Where
<1>3. r.rec \in Paper
  BY <1>2 DEF RunHolds, HeadHolds, UnderWay
<1>4. PICK h \in Head : h = head[r.rec]
  BY <1>3 DEF UpdatesInv, UpdatesTypeOK
<1>5. PICK state :
        /\ state = [r EXCEPT !.at = "head", !.base = h.version, !.read = h.items, !.deleted = h.deleted]
        /\ Go(w, state)
  BY <1>1, <1>4 DEF ReadHead
<1>6. state \in RunState
  <2>1. h.version \in Nat /\ h.items \in SUBSET Item /\ h.deleted \in SUBSET Paper
    BY DEF Head
  <2> QED BY <1>5, <2>1 DEF RunState, Place
<1>7. /\ state.at = "head" /\ state.kind = r.kind /\ state.rec = r.rec /\ state.other = r.other
      /\ state.asked = r.asked /\ state.named = r.named /\ state.base = h.version
      /\ state.read = h.items /\ state.approved = r.approved /\ state.reviewed = r.reviewed
      /\ state.late = r.late
  BY <1>5 DEF RunState
<1>8. h.version \in Nat
  BY DEF Head
<1>9. RunHolds(state)
  BY <1>2, <1>3, <1>4, <1>7, <1>8
  DEF RunHolds, HeadHolds, UpdateHolds, ManualHolds, DecisionHolds, PlaceHolds, UnderWay, HasMerged, Where
<1> QED BY <1>5, <1>6, <1>9, QuietStep DEF ReadHead

\* What Merged leaves out of the record and of the update was in the old update.
LEMMA MergedItems ==
  ASSUME NEW items, NEW old, NEW update
  PROVE  /\ items \ Merged(items, old, update) \subseteq old \ update
         /\ update \ Merged(items, old, update) \subseteq old \ items
         /\ Merged(items, {}, update) = items \cup update
         /\ Merged(items, old, update) \subseteq items \cup update
BY DEF Merged

\* The three-way merge is with the record as it was read, and its root.
LEMMA MergeHolds ==
  ASSUME UpdatesInv, NEW w \in Run, Merge(w)
  PROVE  UpdatesInv'
<1>1. PICK r \in RunState : r = run[w]
  BY DEF UpdatesInv, UpdatesTypeOK
<1>2. RunHolds(r) /\ r.at = "head" /\ Where(r) = "head" /\ UnderWay(r)
  BY <1>1 DEF UpdatesInv, Merge, At, Where, UnderWay
<1>3. /\ r.rec \in Paper /\ r.asked \in Paper /\ r.base <= head[r.rec].version
      /\ Current(r) => r.read = head[r.rec].items
  BY <1>2 DEF RunHolds, HeadHolds
<1>4. PICK conflicts \in BOOLEAN :
        \/ /\ r.kind = "update"
           /\ Go(w, [[r EXCEPT !.at = "merged", !.read = {}, !.conflicts = conflicts, !.reviewed = FALSE]
                      EXCEPT !.merged = Merged(r.read, RootItems(r.rec, r.source), r.update)])
        \/ /\ r.kind = "manual"
           /\ Go(w, [[r EXCEPT !.at = "merged", !.read = {}, !.conflicts = conflicts, !.reviewed = FALSE]
                      EXCEPT !.merged = Merged(r.read, {}, head[r.other].items),
                             !.deleted = @ \cup head[r.other].deleted \cup {r.named}])
  BY <1>1 DEF Merge
<1>a. PICK next \in RunState :
        next = [r EXCEPT !.at = "merged", !.read = {}, !.conflicts = conflicts, !.reviewed = FALSE]
  <2>1. [r EXCEPT !.at = "merged", !.read = {}, !.conflicts = conflicts, !.reviewed = FALSE] \in RunState
    BY DEF RunState, Place
  <2> QED BY <2>1
<1>b. /\ next.at = "merged" /\ next.kind = r.kind /\ next.rec = r.rec /\ next.asked = r.asked
      /\ next.named = r.named /\ next.other = r.other /\ next.source = r.source
      /\ next.update = r.update /\ next.base = r.base /\ next.approved = r.approved
      /\ next.deleted = r.deleted /\ next.late = r.late
  BY <1>a DEF RunState
<1>5. CASE r.kind = "update"
  <2>1. PICK old : old = RootItems(r.rec, r.source)
    OBVIOUS
  <2>2. PICK merged : merged = Merged(r.read, old, r.update)
    OBVIOUS
  <2>3. PICK state :
          state = [next EXCEPT !.merged = merged] /\ Go(w, state)
    BY <1>4, <1>5, <1>a, <2>1, <2>2
  <2>4. merged \in SUBSET Item
    BY <2>2 DEF Merged, RunState
  <2>5. state \in RunState
    BY <2>3, <2>4 DEF RunState, Place
  <2>6. /\ state.at = "merged" /\ state.kind = r.kind /\ state.rec = r.rec /\ state.asked = r.asked
        /\ state.source = r.source /\ state.update = r.update /\ state.base = r.base
        /\ state.merged = merged /\ state.approved = r.approved /\ state.late = r.late
    BY <1>b, <2>3 DEF RunState
  <2>7. old \in SUBSET Item /\ Stands(r.rec, r.source, old)
    <3>1. r.source \in Source
      BY DEF RunState
    <3>2. Stands(r.rec, r.source, old)
      BY <1>3, <2>1, <3>1 DEF UpdatesInv, RootsAreStored
    <3> QED BY <3>2 DEF Stands, Known
  <2>8. UpdateHolds(state)
    <3>1. r.update \subseteq merged \cup old
      BY <2>2, MergedItems
    <3>2. Current(state) => merged = Merged(head[r.rec].items, old, r.update)
      BY <1>3, <2>2, <2>6 DEF Current
    <3>3. ~(Where(state) = "root")
      BY <2>6 DEF Where
    <3> QED BY <2>6, <2>7, <3>1, <3>2, <3>3 DEF UpdateHolds
  <2>9. HeadHolds(state) /\ ManualHolds(state) /\ DecisionHolds(state) /\ PlaceHolds(state)
    BY <1>2, <1>3, <1>5, <2>6
    DEF RunHolds, HeadHolds, ManualHolds, DecisionHolds, PlaceHolds, UnderWay, HasMerged, Where
  <2> QED BY <2>3, <2>5, <2>8, <2>9, QuietStep DEF Merge, RunHolds
<1>6. CASE r.kind = "manual"
  <2>1. r.other \in Paper /\ r.named \in Paper
    BY <1>2, <1>6 DEF RunHolds, ManualHolds
  <2>2. PICK h \in Head : h = head[r.other]
    BY <2>1 DEF UpdatesInv, UpdatesTypeOK
  <2>3. PICK merged, deleted : merged = r.read \cup h.items /\ deleted = r.deleted \cup h.deleted \cup {r.named}
    OBVIOUS
  <2>4. PICK state :
          state = [next EXCEPT !.merged = merged, !.deleted = deleted] /\ Go(w, state)
    <3>1. merged = Merged(r.read, {}, head[r.other].items)
      BY <2>2, <2>3, MergedItems
    <3>2. deleted = next.deleted \cup head[r.other].deleted \cup {r.named}
      BY <1>b, <2>2, <2>3
    <3> QED BY <1>4, <1>6, <1>a, <3>1, <3>2 DEF RunState
  <2>5. merged \in SUBSET Item /\ deleted \in SUBSET Paper
    BY <2>1, <2>3 DEF RunState, Head
  <2>6. state \in RunState
    BY <2>4, <2>5 DEF RunState, Place
  <2>7. /\ state.at = "merged" /\ state.kind = r.kind /\ state.rec = r.rec /\ state.asked = r.asked
        /\ state.named = r.named /\ state.other = r.other /\ state.base = r.base
        /\ state.merged = merged
    BY <1>b, <2>4 DEF RunState
  <2>8. h.items \subseteq Had(r.other)
    BY <2>2 DEF Had
  <2>9. RunHolds(state)
    BY <1>3, <1>6, <2>1, <2>3, <2>7, <2>8
    DEF RunHolds, HeadHolds, UpdateHolds, ManualHolds, DecisionHolds, PlaceHolds, UnderWay, HasMerged,
        Where, Current
  <2> QED BY <2>4, <2>6, <2>9, QuietStep DEF Merge
<1> QED BY <1>5, <1>6 DEF RunState

\* A run with conflicts waits for the curator.
LEMMA AwaitHolds ==
  ASSUME UpdatesInv, NEW w \in Run, Await(w)
  PROVE  UpdatesInv'
<1>1. PICK r \in RunState : r = run[w]
  BY DEF UpdatesInv, UpdatesTypeOK
<1>2. RunHolds(r) /\ r.at = "merged"
  BY <1>1 DEF UpdatesInv, Await, At
<1>3. ASSUME NEW place \in {"await", "store", "roots"}, place = "store" /\ r.conflicts => r.approved,
             place = "roots" => r.kind = "manual", Go(w, [r EXCEPT !.at = place])
      PROVE  UpdatesInv'
  <2>1. PICK state : state = [r EXCEPT !.at = place]
    OBVIOUS
  <2>2. state \in RunState /\ RunHolds(state)
    BY <1>2, <1>3, <2>1, MoveHolds
  <2> QED BY <1>3, <2>1, <2>2, QuietStep DEF Await
<1> QED BY <1>1, <1>3 DEF Await, Resolved

\* A run whose await task is cleared has still what it has merged.
LEMMA ClearedHolds ==
  ASSUME UpdatesTypeOK, NEW r \in RunState, RunHolds(r)
  PROVE  Cleared(r) \in RunState /\ RunHolds(Cleared(r))
<1>1. CASE ~(r.at \in Passed \/ (r.at = "failed" /\ r.failed \in Passed))
  BY <1>1 DEF Cleared
<1>2. CASE r.at \in Passed \/ (r.at = "failed" /\ r.failed \in Passed)
  <2>1. PICK state : state = [r EXCEPT !.at = "merged", !.failed = "idle", !.roots = NoRoots, !.copies = {}]
    OBVIOUS
  <2>2. state \in RunState /\ state = Cleared(r)
    BY <1>2, <2>1 DEF Cleared, RunState, Place, NoRoots, Roots
  <2>3. /\ state.at = "merged" /\ state.kind = r.kind /\ state.rec = r.rec /\ state.asked = r.asked
        /\ state.named = r.named /\ state.other = r.other /\ state.source = r.source
        /\ state.update = r.update /\ state.base = r.base /\ state.merged = r.merged
        /\ state.approved = r.approved /\ state.reviewed = r.reviewed /\ state.late = r.late
    BY <2>1 DEF RunState
  <2>4. /\ Where(r) \in Passed /\ UnderWay(r) /\ (HasMerged(r) \/ Where(r) = "root")
        /\ Where(state) = "merged" /\ UnderWay(state) /\ HasMerged(state)
        /\ Current(state) = Current(r)
    BY <1>2, <2>3 DEF Where, UnderWay, HasMerged, Passed, Current
  <2>5. r.rec \in Paper /\ r.source \in Source /\ r.update \in SUBSET Item
    BY <2>4 DEF RunHolds, HeadHolds, RunState
  <2>6. HeadHolds(state)
    BY <2>3, <2>4 DEF RunHolds, HeadHolds
  <2>7. Where(r) = "root" => ~Current(r)
    <3>1. head[r.rec].version \in Nat /\ r.base \in Nat
      BY <2>5 DEF UpdatesTypeOK, Head, RunState
    <3> QED BY <2>4, <3>1 DEF RunHolds, HeadHolds, Current
  <2>8. UpdateHolds(state)
    <3>1. CASE HasMerged(r)
      BY <2>3, <2>4, <3>1 DEF RunHolds, UpdateHolds
    <3>2. CASE Where(r) = "root" /\ r.kind = "update"
      <4>1. Stands(r.rec, r.source, r.update)
        BY <2>5, <3>2 DEF RunHolds, UpdateHolds, Stands, BroughtTo
      <4> QED BY <2>3, <2>4, <2>5, <2>7, <3>2, <4>1 DEF UpdateHolds
    <3>3. CASE r.kind # "update"
      BY <2>3, <3>3 DEF UpdateHolds
    <3> QED BY <2>4, <3>1, <3>2, <3>3
  <2>9. ManualHolds(state)
    BY <2>3, <2>4, <2>7 DEF RunHolds, ManualHolds, PlaceHolds
  <2>10. DecisionHolds(state) /\ PlaceHolds(state)
    BY <2>3, <2>4 DEF RunHolds, DecisionHolds, PlaceHolds
  <2> QED BY <2>2, <2>6, <2>8, <2>9, <2>10 DEF RunHolds
<1> QED BY <1>1, <1>2

\* So a decision keeps the invariant, whatever the run does meanwhile.
LEMMA ApproveHolds ==
  ASSUME UpdatesInv, NEW w \in Run, Approve(w)
  PROVE  UpdatesInv'
<1>1. PICK r \in RunState : r = run[w]
  BY DEF UpdatesInv, UpdatesTypeOK
<1>2. RunHolds(r) /\ r.at \notin {"idle", "done"}
  BY <1>1 DEF UpdatesInv, Approve
<1>3. PICK seen \in {r.at = "await", FALSE} :
        LET decided == [r EXCEPT !.approved = TRUE, !.reviewed = @ \/ seen,
                                 !.late = @ \/ (~r.approved /\ ~seen)]
        IN Go(w, Cleared(decided)) \/ Go(w, decided)
  BY <1>1 DEF Approve
<1>4. PICK reviewed \in BOOLEAN : reviewed = (r.reviewed \/ seen)
  OBVIOUS
<1>5. PICK late \in BOOLEAN : late = (r.late \/ (~r.approved /\ ~seen))
  OBVIOUS
<1>6. PICK state : state = [r EXCEPT !.approved = TRUE, !.reviewed = reviewed, !.late = late]
  OBVIOUS
<1>7. Go(w, Cleared(state)) \/ Go(w, state)
  BY <1>3, <1>4, <1>5, <1>6 DEF RunState
<1>8. /\ r.reviewed => reviewed
      /\ r.late => late
      /\ ~r.approved => reviewed \/ late
      /\ ~r.approved /\ r.at # "await" => late
  BY <1>3, <1>4, <1>5
<1>9. state \in RunState /\ RunHolds(state)
  <2>1. state \in RunState
    BY <1>6 DEF RunState
  <2>2. /\ state.at = r.at /\ state.failed = r.failed /\ state.kind = r.kind /\ state.rec = r.rec
        /\ state.asked = r.asked /\ state.named = r.named /\ state.other = r.other
        /\ state.source = r.source /\ state.update = r.update /\ state.base = r.base
        /\ state.read = r.read /\ state.merged = r.merged /\ state.roots = r.roots
        /\ state.conflicts = r.conflicts /\ state.approved = TRUE
        /\ state.reviewed = reviewed /\ state.late = late
    BY <1>6 DEF RunState
  <2>3. /\ Where(state) = Where(r) /\ HasMerged(state) = HasMerged(r) /\ UnderWay(state) = UnderWay(r)
        /\ Current(state) = Current(r)
    BY <2>2 DEF Where, HasMerged, UnderWay, Current
  <2>4. HeadHolds(state) /\ UpdateHolds(state) /\ ManualHolds(state) /\ PlaceHolds(state)
    BY <1>2, <2>2, <2>3 DEF RunHolds, HeadHolds, UpdateHolds, ManualHolds, PlaceHolds
  <2>5. Where(r) \in {"idle", "start", "head"} => r.at # "await"
    BY DEF Where
  <2>6. DecisionHolds(state)
    <3>1. /\ state.approved /\ (state.reviewed <=> reviewed) /\ (state.late <=> late)
          /\ state.kind = r.kind
      BY <2>2
    <3>2. r.kind = "update" =>
            /\ r.approved => r.reviewed \/ r.late
            /\ Where(r) \in {"idle", "start", "head"} => (r.approved => r.late)
      BY <1>2 DEF RunHolds, DecisionHolds
    <3>3. r.kind = "update" =>
            (reviewed \/ late) /\ (Where(r) \in {"idle", "start", "head"} => late)
      BY <1>8, <2>5, <3>2
    <3> QED BY <2>3, <3>1, <3>3 DEF DecisionHolds
  <2> QED BY <2>1, <2>4, <2>6 DEF RunHolds
<1>10. Cleared(state) \in RunState /\ RunHolds(Cleared(state))
  BY <1>9, ClearedHolds DEF UpdatesInv
<1> QED BY <1>7, <1>9, <1>10, QuietStep DEF Approve

\* A manual merge lists the roots of the other record.
LEMMA ListHolds ==
  ASSUME UpdatesInv, NEW w \in Run, ListRoots(w)
  PROVE  UpdatesInv'
<1>1. PICK r \in RunState : r = run[w]
  BY DEF UpdatesInv, UpdatesTypeOK
<1>2. RunHolds(r) /\ r.at = "roots" /\ Where(r) = "roots"
  BY <1>1 DEF UpdatesInv, ListRoots, At, Where
<1>3. HasMerged(r) /\ UnderWay(r) /\ r.kind = "manual"
  BY <1>2 DEF RunHolds, PlaceHolds, HasMerged, UnderWay
<1>4. r.other \in Paper
  BY <1>2, <1>3 DEF RunHolds, ManualHolds
<1>5. PICK roots \in [Source -> Roots] : roots = root[r.other]
  BY <1>4 DEF UpdatesInv, UpdatesTypeOK
<1>0. PICK copies \in SUBSET Source :
        Go(w, [r EXCEPT !.at = "moving", !.roots = roots, !.copies = copies])
  BY <1>1, <1>5 DEF ListRoots
<1>6. PICK state :
        state = [r EXCEPT !.at = "moving", !.roots = roots, !.copies = copies] /\ Go(w, state)
  BY <1>0
<1>7. state \in RunState
  BY <1>6 DEF RunState, Place
<1>8. /\ state.at = "moving" /\ state.kind = r.kind /\ state.rec = r.rec /\ state.asked = r.asked
      /\ state.named = r.named /\ state.other = r.other /\ state.base = r.base
      /\ state.merged = r.merged /\ state.roots = roots
  BY <1>6 DEF RunState
<1>9. Where(state) = "moving" /\ HasMerged(state) /\ UnderWay(state)
  BY <1>8 DEF Where, HasMerged, UnderWay
<1>10. \A s \in Source : Stands(r.other, s, UNION roots[s])
  BY <1>4, <1>5 DEF UpdatesInv, RootsAreStored, RootItems
<1>11. HeadHolds(state) /\ UpdateHolds(state)
  BY <1>2, <1>3, <1>8, <1>9 DEF RunHolds, HeadHolds, UpdateHolds, Current
<1>12. ManualHolds(state)
  BY <1>2, <1>3, <1>8, <1>9, <1>10 DEF RunHolds, ManualHolds, Current
<1>13. DecisionHolds(state) /\ PlaceHolds(state)
  BY <1>3, <1>8, <1>9 DEF DecisionHolds, PlaceHolds
<1> QED BY <1>6, <1>7, <1>11, <1>12, <1>13, QuietStep DEF ListRoots, RunHolds

\* Tasks that end or fail.
LEMMA MovesHold ==
  ASSUME UpdatesInv, NEW w \in Run, RootsSaved(w) \/ StoreRefused(w) \/ FailRun(w)
  PROVE  UpdatesInv'
<1>1. PICK r \in RunState : r = run[w]
  BY DEF UpdatesInv, UpdatesTypeOK
<1>2. RunHolds(r)
  BY <1>1 DEF UpdatesInv
<1>3. CASE RootsSaved(w)
  <2>1. PICK state : state = [r EXCEPT !.at = "store"]
    OBVIOUS
  <2>2. r.at = "moving" /\ Go(w, state)
    BY <1>1, <1>3, <2>1 DEF RootsSaved, At
  <2>3. r.kind = "manual"
    BY <1>2, <2>2 DEF RunHolds, PlaceHolds, Where
  <2>4. state \in RunState /\ RunHolds(state)
    BY <1>2, <2>1, <2>2, <2>3, MoveHolds
  <2> QED BY <1>3, <2>2, <2>4, QuietStep DEF RootsSaved
<1>4. CASE StoreRefused(w) \/ FailRun(w)
  <2>1. PICK state : state = [r EXCEPT !.at = "failed", !.failed = r.at]
    OBVIOUS
  <2>2. r.at \notin {"idle", "failed", "done", "await"} /\ Go(w, state)
    BY <1>1, <1>4, <2>1 DEF StoreRefused, FailRun, At, Failed
  <2>3. state \in RunState /\ RunHolds(state)
    BY <1>2, <2>1, <2>2, MoveHolds
  <2> QED BY <1>4, <2>2, <2>3, QuietStep DEF StoreRefused, FailRun
<1> QED BY <1>3, <1>4

\* A run that reads again begins with the records it is about.
LEMMA AfreshHolds ==
  ASSUME UpdatesTypeOK, NEW r \in RunState, RunHolds(r), UnderWay(r), NEW p \in Paper
  PROVE  /\ Afresh(r, p) \in RunState
         /\ Afresh(r, p).at = "start" /\ Afresh(r, p).base = 0
         /\ Afresh(r, p).rec = p /\ Afresh(r, p).asked = p
         /\ Afresh(r, p).kind = r.kind /\ Afresh(r, p).approved = r.approved
         /\ Afresh(r, p).late = r.late
         /\ r.kind = "manual" => Afresh(r, p).named \in Paper /\ Afresh(r, p).other \in Paper
<1>1. PICK state : state = Afresh(r, p)
  OBVIOUS
<1>2. r.kind = "manual" => r.named \in Paper
  BY DEF RunHolds, ManualHolds
<1>3. state \in RunState
  BY <1>1 DEF Afresh, RunState, Place
<1>4. /\ state.at = "start" /\ state.base = 0 /\ state.rec = p /\ state.asked = p
      /\ state.kind = r.kind /\ state.approved = r.approved /\ state.late = r.late
      /\ state.named = r.named /\ state.other = r.named
  BY <1>1 DEF Afresh, RunState
<1> QED BY <1>1, <1>2, <1>3, <1>4

\* A failed task begins again, and so does the whole run.
LEMMA RestartHolds ==
  ASSUME UpdatesInv, NEW w \in Run, RestartTask(w) \/ RestartRun(w)
  PROVE  UpdatesInv'
<1>1. PICK r \in RunState : r = run[w]
  BY DEF UpdatesInv, UpdatesTypeOK
<1>2. RunHolds(r) /\ UnderWay(r) /\ r.at \in {"failed", "await"}
  BY <1>1 DEF UpdatesInv, RestartRun, RestartTask, At, RunHolds, PlaceHolds, UnderWay, HasMerged, Where
<1>3. r.asked \in Paper
  BY <1>2 DEF RunHolds, HeadHolds
<1>4. CASE r.at = "failed" /\ r.failed \in {"start", "head"} /\ Go(w, Afresh(r, r.asked)) /\ RestartTask(w)
  <2>1. PICK state : state = Afresh(r, r.asked)
    OBVIOUS
  <2>2. r.kind = "update" => (r.approved => r.late)
    BY <1>2, <1>4 DEF RunHolds, DecisionHolds, Where
  <2>3. state \in RunState /\ RunHolds(state)
    BY <1>2, <1>3, <2>1, <2>2, AfreshHolds, AtStartHolds DEF UpdatesInv
  <2> QED BY <1>4, <2>1, <2>3, QuietStep DEF RestartTask
<1>5. CASE RestartTask(w) /\ ~(r.failed \in {"start", "head"})
  <2>1. PICK state :
          /\ \/ /\ r.failed = "moving"
                /\ state = [r EXCEPT !.at = "roots", !.failed = "idle", !.roots = NoRoots, !.copies = {}]
             \/ state = [r EXCEPT !.at = r.failed, !.failed = "idle"]
          /\ r.at = "failed" /\ Go(w, state)
    BY <1>1, <1>5 DEF RestartTask, At
  <2>2. state \in RunState /\ RunHolds(state)
    BY <1>2, <2>1, MoveHolds
  <2> QED BY <1>5, <2>1, <2>2, QuietStep DEF RestartTask
<1>6. CASE RestartRun(w)
  <2>1. PICK p \in Paper :
          Go(w, [Afresh(r, p) EXCEPT !.merged = {}, !.roots = NoRoots, !.copies = {},
                                     !.conflicts = FALSE, !.reviewed = FALSE,
                                     !.approved = r.kind = "manual" /\ @,
                                     !.late = r.kind = "manual" /\ @])
    BY <1>1, <1>6 DEF RestartRun, KeepsDecisions
  <2>2. PICK next \in RunState :
          /\ next = Afresh(r, p)
          /\ next.at = "start" /\ next.base = 0 /\ next.rec = p /\ next.asked = p /\ next.kind = r.kind
          /\ r.kind = "manual" => next.named \in Paper /\ next.other \in Paper
    BY <1>2, AfreshHolds DEF UpdatesInv
  <2>3. PICK approved, late \in BOOLEAN :
          approved = (r.kind = "manual" /\ next.approved) /\ late = (r.kind = "manual" /\ next.late)
    OBVIOUS
  <2>4. PICK state :
          state = [next EXCEPT !.merged = {}, !.roots = NoRoots, !.copies = {},
                               !.conflicts = FALSE, !.reviewed = FALSE, !.approved = approved, !.late = late]
    OBVIOUS
  <2>5. Go(w, state)
    BY <2>1, <2>2, <2>3, <2>4 DEF RunState
  <2>6. state \in RunState
    <3>1. PICK read \in RunState : read = [next EXCEPT !.merged = {}, !.roots = NoRoots, !.copies = {}]
      <4>1. [next EXCEPT !.merged = {}, !.roots = NoRoots, !.copies = {}] \in RunState
        BY DEF RunState, NoRoots, Roots
      <4> QED BY <4>1
    <3>2. PICK asked \in RunState : asked = [read EXCEPT !.conflicts = FALSE, !.reviewed = FALSE]
      <4>1. [read EXCEPT !.conflicts = FALSE, !.reviewed = FALSE] \in RunState
        BY DEF RunState
      <4> QED BY <4>1
    <3>3. state = [asked EXCEPT !.approved = approved, !.late = late]
      BY <2>4, <3>1, <3>2 DEF RunState
    <3>4. [asked EXCEPT !.approved = approved, !.late = late] \in RunState
      BY DEF RunState
    <3> QED BY <3>3, <3>4
  <2>7. /\ state.at = "start" /\ state.base = 0 /\ state.rec = p /\ state.asked = p
        /\ state.kind = r.kind /\ state.named = next.named /\ state.other = next.other
        /\ state.approved = approved
    BY <2>2, <2>4 DEF RunState
  <2>8. RunHolds(state)
    BY <2>2, <2>3, <2>6, <2>7, AtStartHolds DEF UpdatesInv
  <2> QED BY <1>6, <2>5, <2>6, <2>8, QuietStep DEF RestartRun
<1> QED BY <1>1, <1>4, <1>5, <1>6 DEF RestartTask, At

-----------------------------------------------------------------------------
(* Steps that store something                                              *)

\* An edit is a new version under every run.
LEMMA EditHolds ==
  ASSUME UpdatesInv, NEW p \in Paper, EditRecord(p)
  PROVE  UpdatesInv'
<1>1. /\ head[p].items \in SUBSET Item /\ head[p].deleted \in SUBSET Paper
      /\ Had(p) \in SUBSET Item
  BY HadType DEF UpdatesInv, UpdatesTypeOK, Head
<1>2. PICK items \in SUBSET Item :
        Put(p, items, head[p].deleted) /\ Lose(p, items, Had(p))
  BY <1>1 DEF EditRecord
<1>3. Calm
  BY <1>1, <1>2, NewVersionCalm DEF EditRecord, UpdatesInv
<1>4. UpdatesTypeOK'
  BY <1>1, <1>2, PutFacts, HadGrows DEF EditRecord, UpdatesInv, UpdatesTypeOK
<1>5. \A w \in Run : RunHolds(run[w])'
  BY <1>3, <1>4, StillHolds DEF EditRecord
<1> QED BY <1>3, <1>4, <1>5, CalmRoots DEF EditRecord, UpdatesInv

\* A step of a run that stores a new version, and leaves the roots.
LEMMA StoreStep ==
  ASSUME UpdatesInv, NEW w \in Run, NEW state \in RunState, Go(w, state), Calm,
         RunHolds(state) \/ (UpdatesTypeOK' => RunHolds(state)'),
         head' \in [Paper -> Head], removed' \in [Paper -> SUBSET Item],
         brought' \in [Paper -> [Source -> SUBSET Item]], ahead' \subseteq ahead, UNCHANGED root
  PROVE  UpdatesInv'
<1>1. /\ run' \in [Run -> RunState] /\ run'[w] = state
      /\ \A o \in Run : o # w => run'[o] = run[o]
  BY GoType DEF UpdatesInv
<1>2. UpdatesTypeOK'
  BY <1>1 DEF UpdatesInv, UpdatesTypeOK
<1>3. RunHolds(state)'
  BY <1>2, CalmRuns DEF UpdatesInv
<1>4. \A o \in Run : RunHolds(run[o])'
  BY <1>1, <1>2, <1>3, OthersHold
<1> QED BY <1>2, <1>4, CalmRoots DEF UpdatesInv

\* An update is stored over the version it read only.
LEMMA StoreUpdateHolds ==
  ASSUME UpdatesInv, NEW w \in Run, StoreUpdate(w)
  PROVE  UpdatesInv'
<1>1. PICK r \in RunState : r = run[w]
  BY DEF UpdatesInv, UpdatesTypeOK
<1>2. RunHolds(r) /\ r.at = "store" /\ r.kind = "update" /\ Where(r) = "store" /\ HasMerged(r) /\ UnderWay(r)
  BY <1>1 DEF UpdatesInv, StoreUpdate, At, Where, HasMerged, UnderWay
<1>3. /\ r.rec \in Paper /\ r.asked \in Paper /\ r.source \in Source /\ r.merged \in SUBSET Item
      /\ r.deleted \in SUBSET Paper /\ r.update \in SUBSET Item /\ r.base \in Nat
      /\ r.base <= head[r.rec].version /\ Had(r.rec) \in SUBSET Item
  BY <1>2, HadType DEF RunHolds, HeadHolds, RunState, UpdatesInv
<1>4. /\ Put(r.rec, r.merged, r.deleted) /\ Lose(r.rec, r.merged, Had(r.rec)) /\ UNCHANGED <<root, ahead>>
      /\ brought' = [brought EXCEPT ![r.rec][r.source] = @ \cup r.update]
  BY <1>1 DEF StoreUpdate
<1>5. /\ \A o \in Paper, s \in Source : brought[o][s] \subseteq brought'[o][s]
      /\ brought' \in [Paper -> [Source -> SUBSET Item]] /\ r.update \subseteq brought'[r.rec][r.source]
  BY <1>3, <1>4 DEF UpdatesInv, UpdatesTypeOK
<1>6. Calm
  BY <1>3, <1>4, <1>5, NewVersionCalm DEF UpdatesInv
<1>7. head' \in [Paper -> Head] /\ removed' \in [Paper -> SUBSET Item]
  <2>1. head' \in [Paper -> Head]
    BY <1>3, <1>4, PutFacts DEF UpdatesInv
  <2>2. removed' \in [Paper -> SUBSET Item]
    BY <1>3, <1>4, HadGrows DEF UpdatesInv
  <2> QED BY <2>1, <2>2
<1>8. Had(r.rec)' = r.merged \cup Had(r.rec) /\ head[r.rec].version <= head'[r.rec].version
  <2>1. Had(r.rec)' = r.merged \cup Had(r.rec)
    <3>1. PICK was \in SUBSET Item : was = Had(r.rec)
      BY <1>3
    <3>2. UpdatesTypeOK /\ Put(r.rec, r.merged, r.deleted) /\ Lose(r.rec, r.merged, was)
      BY <1>4, <3>1 DEF UpdatesInv
    <3>3. Had(r.rec)' = r.merged \cup was
      BY <1>3, <3>2, HadGrows
    <3> QED BY <3>1, <3>3
  <2>2. head[r.rec].version <= head'[r.rec].version
    BY <1>3, <1>4, PutFacts DEF UpdatesInv
  <2> QED BY <2>1, <2>2
<1>9. ASSUME Go(w, [r EXCEPT !.at = "root"]) PROVE UpdatesInv'
  <2>1. PICK state : state = [r EXCEPT !.at = "root"]
    OBVIOUS
  <2>2. state \in RunState
    BY <2>1 DEF RunState, Place
  <2>3. /\ state.at = "root" /\ state.kind = r.kind /\ state.rec = r.rec /\ state.asked = r.asked
        /\ state.source = r.source /\ state.update = r.update /\ state.base = r.base
        /\ state.approved = r.approved /\ state.reviewed = r.reviewed /\ state.late = r.late
    BY <2>1 DEF RunState
  <2>4. Where(state) = "root" /\ ~HasMerged(state)
    BY <2>3 DEF Where, HasMerged
  <2>5. HeadHolds(state)'
    <3>1. head[r.rec].version \in Nat /\ head'[r.rec].version \in Nat
      BY <1>3, <1>7 DEF UpdatesInv, UpdatesTypeOK, Head
    <3>2. r.base <= head'[r.rec].version /\ r.base < head'[r.rec].version
      <4>1. head'[r.rec].version = head[r.rec].version + 1
        BY <1>3, <1>4, PutFacts DEF UpdatesInv
      <4> QED BY <1>3, <3>1, <4>1
    <3> QED BY <1>3, <2>3, <2>4, <3>2 DEF HeadHolds, UnderWay, HasMerged, Where
  <2>6. r.update \subseteq Known(r.rec)'
    <3>1. r.update \subseteq r.merged \cup Known(r.rec)
      BY <1>2 DEF RunHolds, UpdateHolds, Stands
    <3>2. r.merged \subseteq Known(r.rec)'
      BY <1>3, <1>8 DEF Known
    <3> QED BY <1>3, <1>6, <3>1, <3>2 DEF Calm
  <2>7. UpdateHolds(state)'
    BY <1>5, <2>3, <2>4, <2>6 DEF UpdateHolds, HasMerged, Where
  <2>8. ManualHolds(state)' /\ DecisionHolds(state)' /\ PlaceHolds(state)'
    BY <1>2, <2>3, <2>4 DEF RunHolds, ManualHolds, DecisionHolds, PlaceHolds, Where
  <2>9. Go(w, state) /\ (UpdatesTypeOK' => RunHolds(state)')
    BY <1>9, <2>1, <2>5, <2>7, <2>8 DEF RunHolds
  <2> QED BY <1>4, <1>5, <1>6, <1>7, <2>2, <2>9, StoreStep
<1>10. ASSUME Go(w, Failed(w)) PROVE UpdatesInv'
  <2>1. PICK state : state = [r EXCEPT !.at = "failed", !.failed = r.at]
    OBVIOUS
  <2>2. state \in RunState /\ RunHolds(state) /\ Go(w, state)
    BY <1>1, <1>2, <1>10, <2>1, MoveHolds DEF Failed
  <2> QED BY <1>4, <1>5, <1>6, <1>7, <2>2, StoreStep
<1> QED BY <1>1, <1>9, <1>10 DEF StoreUpdate

\* A manual merge stores what both records have: roots of the other that were
\* moved before are not ahead of the record any more.
LEMMA StoreManualHolds ==
  ASSUME UpdatesInv, NEW w \in Run, StoreManual(w)
  PROVE  UpdatesInv'
<1>1. PICK r \in RunState : r = run[w]
  BY DEF UpdatesInv, UpdatesTypeOK
<1>2. RunHolds(r) /\ r.at = "store" /\ r.kind = "manual" /\ Where(r) = "store" /\ UnderWay(r)
  BY <1>1 DEF UpdatesInv, StoreManual, At, Where, HasMerged, UnderWay
<1>3. /\ r.rec \in Paper /\ r.other \in Paper /\ r.source \in Source /\ r.merged \in SUBSET Item
      /\ r.deleted \in SUBSET Paper /\ Had(r.rec) \in SUBSET Item /\ Had(r.other) \in SUBSET Item
  BY <1>2, HadType DEF RunHolds, HeadHolds, ManualHolds, RunState, UpdatesInv
<1>4. /\ Put(r.rec, r.merged, r.deleted) /\ Lose(r.rec, r.merged, Had(r.rec) \cup Had(r.other))
      /\ brought' = [brought EXCEPT ![r.rec] = [s \in Source |-> @[s] \cup brought[r.other][s]]]
      /\ ahead' = ahead \ {<<r.rec, r.other>>} /\ root' = root
  BY <1>1 DEF StoreManual
<1>5. /\ brought' \in [Paper -> [Source -> SUBSET Item]]
      /\ \A s \in Source : brought'[r.rec][s] = brought[r.rec][s] \cup brought[r.other][s]
      /\ \A p \in Paper : p # r.rec => brought'[p] = brought[p]
  BY <1>3, <1>4 DEF UpdatesInv, UpdatesTypeOK
<1>6. head' \in [Paper -> Head] /\ removed' \in [Paper -> SUBSET Item]
  <2>1. head' \in [Paper -> Head]
    BY <1>3, <1>4, PutFacts DEF UpdatesInv
  <2>2. PICK was \in SUBSET Item : was = Had(r.rec) \cup Had(r.other)
    BY <1>3
  <2>3. removed' \in [Paper -> SUBSET Item]
    BY <1>3, <1>4, <2>2, HadGrows DEF UpdatesInv
  <2> QED BY <2>1, <2>3
<1>7. Calm
  <2>1. \A o \in Paper, s \in Source : brought[o][s] \subseteq brought'[o][s]
    BY <1>5
  <2>2. \A q, o \in Paper : <<q, o>> \in ahead =>
          \/ <<q, o>> \in ahead'
          \/ q = r.rec /\ o = r.other
    BY <1>4
  <2>3. \A s \in Source : brought[r.other][s] \subseteq brought'[r.rec][s]
    BY <1>5
  <2>4. Had(r.rec) \cup Had(r.other) \in SUBSET Item
    BY <1>3
  <2> QED BY <1>3, <1>4, <2>1, <2>2, <2>3, <2>4, NewVersionCalm DEF UpdatesInv
<1>8. ASSUME Go(w, [Fresh(r.source) EXCEPT !.at = "done"]) PROVE UpdatesInv'
  <2>1. PICK state : state = [Fresh(r.source) EXCEPT !.at = "done"]
    OBVIOUS
  <2>2. state \in RunState /\ RunHolds(state) /\ Go(w, state)
    BY <1>3, <1>8, <2>1, DoneHolds
  <2> QED BY <1>4, <1>5, <1>6, <1>7, <2>2, StoreStep
<1>9. ASSUME Go(w, Failed(w)) PROVE UpdatesInv'
  <2>1. PICK state : state = [r EXCEPT !.at = "failed", !.failed = r.at]
    OBVIOUS
  <2>2. state \in RunState /\ RunHolds(state) /\ Go(w, state)
    BY <1>1, <1>2, <1>9, <2>1, MoveHolds DEF Failed
  <2> QED BY <1>4, <1>5, <1>6, <1>7, <2>2, StoreStep
<1> QED BY <1>1, <1>8, <1>9 DEF StoreManual

\* A step that changes one root keeps the invariant if the root may stand there.
LEMMA RootStep ==
  ASSUME UpdatesInv, NEW w \in Run, NEW state \in RunState, Go(w, state), RunHolds(state), Calm,
         UNCHANGED <<head, historyVars>>, ahead' \subseteq Paper \X Paper,
         NEW p \in Paper, NEW s \in Source, NEW new \in Roots, root' = [root EXCEPT ![p][s] = new],
         Stands(p, s, UNION new)'
  PROVE  UpdatesInv'
<1>1. /\ run' \in [Run -> RunState] /\ run'[w] = state
      /\ \A o \in Run : o # w => run'[o] = run[o]
  BY GoType DEF UpdatesInv
<1>2. root' \in [Paper -> [Source -> Roots]]
  BY DEF UpdatesInv, UpdatesTypeOK
<1>3. UpdatesTypeOK'
  BY <1>1, <1>2 DEF UpdatesInv, UpdatesTypeOK, historyVars
<1>4. \A o \in Run : RunHolds(run[o])'
  BY <1>1, <1>3, CalmRuns, OthersHold DEF UpdatesInv
<1>5. ASSUME NEW q \in Paper, NEW t \in Source
      PROVE  Stands(q, t, RootItems(q, t))'
  <2>1. CASE q = p /\ t = s
    <3>1. root'[q][t] = new
      BY <2>1 DEF UpdatesInv, UpdatesTypeOK
    <3> QED BY <2>1, <3>1 DEF RootItems
  <2>2. CASE ~(q = p /\ t = s)
    <3>1. root'[q][t] = root[q][t]
      BY <2>2 DEF UpdatesInv, UpdatesTypeOK
    <3> QED BY <3>1 DEF Calm, RootItems, UpdatesInv, RootsAreStored, Stands
  <2> QED BY <2>1, <2>2
<1> QED BY <1>3, <1>4, <1>5 DEF UpdatesInv, RootsAreStored

\* The root that is stored is what the source has brought.
LEMMA StoreRootHolds ==
  ASSUME UpdatesInv, NEW w \in Run, StoreRoot(w)
  PROVE  UpdatesInv'
<1>1. PICK r \in RunState : r = run[w]
  BY DEF UpdatesInv, UpdatesTypeOK
<1>2. RunHolds(r) /\ r.at = "root" /\ r.kind = "update" /\ Where(r) = "root" /\ UnderWay(r)
  BY <1>1 DEF UpdatesInv, StoreRoot, RecordStored, At, Where, UnderWay
<1>3. /\ r.rec \in Paper /\ r.source \in Source /\ r.update \in SUBSET Item
      /\ r.update \subseteq Known(r.rec) \cap brought[r.rec][r.source]
  BY <1>2 DEF RunHolds, HeadHolds, UpdateHolds, RunState
<1>4. PICK state : state = [Fresh(r.source) EXCEPT !.at = "done"]
  OBVIOUS
<1>5. state \in RunState /\ RunHolds(state) /\ Go(w, state)
  BY <1>1, <1>3, <1>4, DoneHolds DEF StoreRoot
<1>6. root' = [root EXCEPT ![r.rec][r.source] = {r.update}] /\ UNCHANGED <<head, ahead, historyVars>>
  BY <1>1 DEF StoreRoot
<1>7. Calm
  BY <1>6, NothingStored DEF UpdatesInv
<1>8. Stands(r.rec, r.source, UNION {r.update})'
  <2>1. r.update \subseteq BroughtTo(r.rec, r.source)
    BY <1>3 DEF BroughtTo
  <2>2. UNION {r.update} = r.update
    OBVIOUS
  <2> QED BY <1>3, <1>7, <2>1, <2>2 DEF Calm, Stands
<1>9. {r.update} \in Roots /\ ahead' \subseteq Paper \X Paper
  BY <1>3, <1>6 DEF Roots, UpdatesInv, UpdatesTypeOK
<1> QED BY <1>3, <1>5, <1>6, <1>7, <1>8, <1>9, RootStep

\* What a run that moves roots holds of them, and of its records.
LEMMA MovingHolds ==
  ASSUME UpdatesInv, NEW r \in RunState, RunHolds(r), r.at = "moving"
  PROVE  /\ r.kind = "manual" /\ r.rec \in Paper /\ r.other \in Paper
         /\ \A s \in Source : r.roots[s] \in Roots /\ Stands(r.other, s, UNION r.roots[s])
<1>1. Where(r) = "moving" /\ UnderWay(r)
  BY DEF Where, UnderWay, HasMerged
<1>2. r.kind = "manual"
  BY <1>1 DEF RunHolds, PlaceHolds
<1>3. r.roots \in [Source -> Roots]
  BY DEF RunState
<1> QED BY <1>1, <1>2, <1>3 DEF RunHolds, HeadHolds, ManualHolds

\* The root of the other record, which may come from any record whose roots that
\* one may have, is now one of the record.
LEMMA CopyRootHolds ==
  ASSUME UpdatesInv, NEW w \in Run, NEW s \in Source, CopyRoot(w, s)
  PROVE  UpdatesInv'
<1>1. PICK r \in RunState : r = run[w]
  BY DEF UpdatesInv, UpdatesTypeOK
<1>2. RunHolds(r) /\ r.at = "moving"
  BY <1>1 DEF UpdatesInv, CopyRoot, At
<1>3. /\ r.kind = "manual" /\ r.rec \in Paper /\ r.other \in Paper
      /\ r.roots[s] \in Roots /\ Stands(r.other, s, UNION r.roots[s])
  BY <1>2, MovingHolds
<1>4. /\ ahead' = ahead \cup {<<r.rec, o>> : o \in Origins(r.rec, r.other)}
      /\ root' = [root EXCEPT ![r.rec][s] = r.roots[s]]
      /\ UNCHANGED <<head, historyVars>>
  BY <1>1 DEF CopyRoot
<1>5. Calm
  BY <1>4, AheadGrows DEF UpdatesInv
<1>6. PICK state : state = [r EXCEPT !.copies = @ \ {s}]
  OBVIOUS
<1>7. Go(w, state) /\ state \in RunState
  BY <1>1, <1>6 DEF CopyRoot, RunState
<1>8. /\ state.at = r.at /\ state.failed = r.failed /\ state.kind = r.kind /\ state.rec = r.rec
      /\ state.asked = r.asked /\ state.named = r.named /\ state.other = r.other
      /\ state.source = r.source /\ state.update = r.update /\ state.base = r.base
      /\ state.read = r.read /\ state.merged = r.merged /\ state.roots = r.roots
      /\ state.conflicts = r.conflicts /\ state.approved = r.approved /\ state.reviewed = r.reviewed
      /\ state.late = r.late
  BY <1>6 DEF RunState
<1>9. Where(state) = Where(r) /\ PlaceHolds(state)
  BY <1>2, <1>8 DEF RunHolds, PlaceHolds, UnderWay, HasMerged, Where
<1>10. RunHolds(state)
  BY <1>2, <1>7, <1>8, <1>9, SameHolds
<1>11. ahead' \subseteq Paper \X Paper
  <2>1. Origins(r.rec, r.other) \subseteq Paper
    BY <1>3 DEF Origins
  <2> QED BY <1>3, <1>4, <2>1 DEF UpdatesInv, UpdatesTypeOK
<1>12. Stands(r.rec, s, UNION r.roots[s])'
  <2>1. CASE r.rec = r.other
    BY <1>3, <1>5, <2>1 DEF Calm, Stands
  <2>2. CASE r.rec # r.other
    <3>1. <<r.rec, r.other>> \in ahead'
      BY <1>3, <1>4, <2>2 DEF Origins
    <3>2. \A o \in Paper : <<r.other, o>> \in ahead => o = r.rec \/ <<r.rec, o>> \in ahead'
      BY <1>4 DEF Origins
    <3>3. \A p \in Paper : Had(p)' = Had(p) /\ brought'[p] = brought[p]
      BY <1>4 DEF Had, historyVars
    <3>4. Known(r.other) \subseteq Known(r.rec)'
      BY <1>3, <3>1, <3>2, <3>3 DEF Known
    <3>5. BroughtTo(r.other, s) \subseteq BroughtTo(r.rec, s)'
      BY <1>3, <3>1, <3>2, <3>3 DEF BroughtTo
    <3> QED BY <1>3, <3>4, <3>5 DEF Stands
  <2> QED BY <2>1, <2>2
<1> QED BY <1>3, <1>4, <1>5, <1>7, <1>10, <1>11, <1>12, RootStep

\* The root of the other record is gone.
LEMMA DeleteRootHolds ==
  ASSUME UpdatesInv, NEW w \in Run, NEW s \in Source, DeleteRoot(w, s)
  PROVE  UpdatesInv'
<1>1. PICK r \in RunState : r = run[w]
  BY DEF UpdatesInv, UpdatesTypeOK
<1>2. RunHolds(r) /\ r.at = "moving"
  BY <1>1 DEF UpdatesInv, DeleteRoot, At
<1>3. /\ r.kind = "manual" /\ r.rec \in Paper /\ r.other \in Paper
      /\ \A t \in Source : r.roots[t] \in Roots /\ Stands(r.other, t, UNION r.roots[t])
  BY <1>2, MovingHolds
<1>4. root' = [root EXCEPT ![r.other][s] = {}] /\ UNCHANGED <<head, ahead, historyVars>>
  BY <1>1 DEF DeleteRoot
<1>5. Calm
  BY <1>4, NothingStored DEF UpdatesInv
<1>6. PICK roots \in [Source -> Roots] : roots = [r.roots EXCEPT ![s] = {}]
  BY DEF RunState, Roots
<1>7. PICK state : state = [r EXCEPT !.roots = roots]
  OBVIOUS
<1>8. Go(w, state) /\ state \in RunState
  BY <1>1, <1>6, <1>7 DEF DeleteRoot, RunState
<1>9. /\ state.at = "moving" /\ state.kind = r.kind /\ state.rec = r.rec /\ state.roots = roots
      /\ state.asked = r.asked /\ state.named = r.named /\ state.other = r.other
      /\ state.base = r.base /\ state.merged = r.merged
  BY <1>2, <1>7 DEF RunState
<1>10. \A t \in Source : Stands(r.other, t, UNION roots[t])
  BY <1>3, <1>6 DEF RunState, Stands
<1>11. Where(r) = "moving" /\ Where(state) = "moving" /\ UnderWay(r) /\ HasMerged(r)
  BY <1>2, <1>9 DEF Where, UnderWay, HasMerged
<1>12. HeadHolds(state) /\ UpdateHolds(state) /\ DecisionHolds(state) /\ PlaceHolds(state)
  BY <1>2, <1>3, <1>9, <1>11
  DEF RunHolds, HeadHolds, UpdateHolds, DecisionHolds, PlaceHolds, UnderWay, HasMerged, Current
<1>13. ManualHolds(state)
  BY <1>2, <1>3, <1>9, <1>10, <1>11 DEF RunHolds, ManualHolds, Current, HasMerged
<1>14. Stands(r.other, s, UNION {})' /\ {} \in Roots /\ ahead' \subseteq Paper \X Paper
  BY <1>4 DEF Stands, Roots, UpdatesInv, UpdatesTypeOK
<1> QED BY <1>3, <1>4, <1>5, <1>8, <1>12, <1>13, <1>14, RootStep DEF RunHolds

-----------------------------------------------------------------------------
(* The invariant                                                           *)

LEMMA UpdatesInitInv == UpdatesInit => UpdatesInv
<1> SUFFICES ASSUME UpdatesInit PROVE UpdatesInv
  OBVIOUS
<1>1. PICK s \in Source : run = [w \in Run |-> Fresh(s)]
  BY DEF UpdatesInit
<1>2. \A w \in Run : run[w] \in RunState /\ RunHolds(run[w])
  BY <1>1, FreshHolds
<1>3. PICK items \in [Paper -> SUBSET Item] :
        head = [p \in Paper |-> [version |-> 1, items |-> items[p], deleted |-> {}, into |-> NoPaper]]
  BY DEF UpdatesInit
<1>4. head \in [Paper -> Head]
  BY <1>3 DEF Head
<1>5. run \in [Run -> RunState]
  BY <1>1, <1>2
<1>6. UpdatesTypeOK
  BY <1>4, <1>5 DEF UpdatesInit, UpdatesTypeOK, NoRoots, Roots
<1>7. RootsAreStored
  BY DEF UpdatesInit, RootsAreStored, RootItems, Stands, NoRoots
<1> QED BY <1>2, <1>6, <1>7 DEF UpdatesInv

\* Every step keeps the invariant.
LEMMA UpdatesStepInv == UpdatesInv /\ [UpdatesNext]_updatesVars => UpdatesInv'
<1> SUFFICES ASSUME UpdatesInv, [UpdatesNext]_updatesVars PROVE UpdatesInv'
  OBVIOUS
<1>1. CASE UNCHANGED updatesVars
  <2>1. UpdatesTypeOK' /\ Calm
    BY <1>1, NothingStored DEF updatesVars, historyVars, UpdatesInv, UpdatesTypeOK
  <2>2. \A w \in Run : RunHolds(run[w])'
    BY <1>1, <2>1, StillHolds DEF updatesVars
  <2> QED BY <1>1, <2>1, <2>2, CalmRoots DEF updatesVars, UpdatesInv
<1>2. CASE \E p \in Paper : EditRecord(p)
  BY <1>2, EditHolds
<1>3. ASSUME NEW w \in Run,
             \/ StartUpdate(w) \/ StartManual(w) \/ FollowRedirect(w) \/ ReadHead(w) \/ Merge(w)
             \/ Await(w) \/ Approve(w) \/ ListRoots(w)
             \/ RootsSaved(w) \/ StoreRefused(w) \/ FailRun(w) \/ RestartTask(w) \/ RestartRun(w)
      PROVE  UpdatesInv'
  BY <1>3, StartHolds, FollowHolds, ReadHolds, MergeHolds, AwaitHolds, ApproveHolds, ListHolds,
     MovesHold, RestartHolds
<1>4. ASSUME NEW w \in Run,
             \/ StoreUpdate(w) \/ StoreManual(w) \/ StoreRoot(w)
             \/ \E s \in Source : CopyRoot(w, s) \/ DeleteRoot(w, s)
      PROVE  UpdatesInv'
  BY <1>4, StoreUpdateHolds, StoreManualHolds, StoreRootHolds, CopyRootHolds, DeleteRootHolds
<1> QED BY <1>1, <1>2, <1>3, <1>4 DEF UpdatesNext

\* The invariant: a root holds only what was stored, and a run whose record is
\* still what it has read holds the merge with it.
THEOREM UpdatesInvHolds == UpdatesSpec => []UpdatesInv
<1> QED BY UpdatesInitInv, UpdatesStepInv, PTL DEF UpdatesSpec

\* Records, roots and runs are what the tables and the DAG runs hold.
THEOREM UpdatesTypes == UpdatesSpec => []UpdatesTypeOK
<1>1. UpdatesInv => UpdatesTypeOK
  BY DEF UpdatesInv
<1> QED BY <1>1, UpdatesInvHolds, PTL

-----------------------------------------------------------------------------
(* What an update does to its record                                       *)

\* What is known of a run of an update when it stores: it has merged the update
\* with the record as it is.
LEMMA StoreFacts ==
  ASSUME UpdatesInv, NEW w \in Run, StoreUpdate(w)
  PROVE  LET r == run[w] IN
         /\ r.rec \in Paper /\ r.source \in Source /\ r.update \in SUBSET Item
         /\ r.merged \in SUBSET Item /\ r.deleted \in SUBSET Paper
         /\ \E old \in SUBSET Item :
              /\ Stands(r.rec, r.source, old)
              /\ r.merged = Merged(head[r.rec].items, old, r.update)
         /\ head'[r.rec].items = r.merged
         /\ r.conflicts => r.reviewed \/ r.late
<1>1. PICK r \in RunState : r = run[w]
  BY DEF UpdatesInv, UpdatesTypeOK
<1>2. RunHolds(r) /\ r.at = "store" /\ r.kind = "update"
  BY <1>1 DEF UpdatesInv, StoreUpdate, At
<1>3. Where(r) = "store" /\ HasMerged(r) /\ UnderWay(r) /\ Current(r)
  BY <1>1, <1>2 DEF Where, HasMerged, UnderWay, Current, StoreUpdate, Accepted, IsHead
<1>4. /\ r.rec \in Paper /\ r.merged \in SUBSET Item /\ r.deleted \in SUBSET Paper
      /\ r.source \in Source /\ r.update \in SUBSET Item
  BY <1>2, <1>3 DEF RunHolds, HeadHolds, RunState
<1>5. head'[r.rec].items = r.merged
  BY <1>1, <1>4, PutFacts DEF StoreUpdate, UpdatesInv
<1>6. \E old \in SUBSET Item :
        /\ Stands(r.rec, r.source, old)
        /\ r.merged = Merged(head[r.rec].items, old, r.update)
  BY <1>2, <1>3 DEF RunHolds, UpdateHolds
<1>7. r.conflicts => r.reviewed \/ r.late
  BY <1>2, <1>3 DEF RunHolds, DecisionHolds
<1> QED BY <1>1, <1>4, <1>5, <1>6, <1>7

\* A record with no roots of another knows only what it had, and was brought.
LEMMA OwnItems ==
  ASSUME NEW p \in Paper, NEW s \in Source, ~Ahead(p)
  PROVE  Known(p) \subseteq Had(p) /\ BroughtTo(p, s) \subseteq brought[p][s]
BY DEF Ahead, Known, BroughtTo

\* No edit is lost to an update (merge_articles and store_record): see
\* EditsSurvive.
THEOREM EditsSurviveHolds == UpdatesSpec => EditsSurvive
<1>1. ASSUME UpdatesInv, NEW w \in Run, StoreUpdate(w), ~Ahead(run[w].rec)
      PROVE  head[run[w].rec].items \ head'[run[w].rec].items
               \subseteq brought[run[w].rec][run[w].source] \ run[w].update
  BY <1>1, StoreFacts, OwnItems, MergedItems DEF Stands
<1>2. UpdatesInv =>
        [\A w \in Run :
           LET p == run[w].rec IN
           StoreUpdate(w) /\ ~Ahead(p) =>
             head[p].items \ head'[p].items \subseteq brought[p][run[w].source] \ run[w].update
        ]_updatesVars
  BY <1>1
<1> QED BY <1>2, UpdatesInvHolds, PTL DEF EditsSurvive

\* What an update brings is in the record when it is stored: see UpdateArrives.
THEOREM UpdateArrivesHolds == UpdatesSpec => UpdateArrives
<1>1. ASSUME UpdatesInv, NEW w \in Run, StoreUpdate(w), ~Ahead(run[w].rec)
      PROVE  run[w].update \ head'[run[w].rec].items \subseteq removed[run[w].rec]
  <2>1. PICK old \in SUBSET Item :
          /\ Stands(run[w].rec, run[w].source, old)
          /\ head'[run[w].rec].items = Merged(head[run[w].rec].items, old, run[w].update)
    BY <1>1, StoreFacts
  <2>2. old \subseteq Had(run[w].rec)
    BY <1>1, <2>1, StoreFacts, OwnItems DEF Stands
  <2> QED BY <2>1, <2>2, MergedItems DEF Had
<1>2. UpdatesInv =>
        [\A w \in Run :
           LET p == run[w].rec IN
           StoreUpdate(w) /\ ~Ahead(p) =>
             run[w].update \ head'[p].items \subseteq removed[p]]_updatesVars
  BY <1>1
<1> QED BY <1>2, UpdatesInvHolds, PTL DEF UpdateArrives

\* An update with conflicts is stored only when a curator has decided about them
\* (await_merge_conflicts_resolved), or sent a decision from a page that was out
\* of date (resolve_workflow): no decision outlives its merge otherwise.
THEOREM ConflictsAreReviewedHolds == UpdatesSpec => ConflictsAreReviewed
<1>1. UpdatesInv =>
        [\A w \in Run :
           StoreUpdate(w) /\ run[w].conflicts => run[w].reviewed \/ run[w].late]_updatesVars
  BY StoreFacts
<1> QED BY <1>1, UpdatesInvHolds, PTL DEF ConflictsAreReviewed

-----------------------------------------------------------------------------
(* An update is one step                                                   *)

\* What ThreeWayRecords knows of a record is what is known here, and its merge
\* is the one of the runs.
LEMMA SameKnown ==
  ASSUME NEW p \in Paper, NEW s \in Source
  PROVE  Records!Known(p) = Known(p) /\ Records!BroughtTo(p, s) = BroughtTo(p, s)
BY DEF Records!Known, Records!BroughtTo, Known, BroughtTo

LEMMA SameMerge ==
  ASSUME NEW items, NEW old, NEW update
  PROVE  Merged(items, old, update) = Records!ThreeWay(items, old, update)
BY DEF Merged, Records!ThreeWay

\* A new version is a change of what the record has, and had.
LEMMA PutChanges ==
  ASSUME UpdatesTypeOK, NEW p \in Paper, NEW items \in SUBSET Item, NEW deleted \in SUBSET Paper,
         NEW was \in SUBSET Item, NEW more \in SUBSET Item, was = Had(p) \cup more,
         Put(p, items, deleted), Lose(p, items, was)
  PROVE  Records!Change(p, items, more)
<1>1. head'[p].items = items /\ \A o \in Paper : o # p => head'[o].items = head[o].items
  BY PutFacts
<1>2. Had(p)' = items \cup was /\ \A o \in Paper : o # p => Had(o)' = Had(o)
  BY HadGrows
<1>3. Had(p)' = Had(p) \cup items \cup more
  BY <1>2
<1>4. [o \in Paper |-> head[o].items]' = [[o \in Paper |-> head[o].items] EXCEPT ![p] = items]
  BY <1>1
<1>5. [o \in Paper |-> Had(o)]' = [[o \in Paper |-> Had(o)] EXCEPT ![p] = @ \cup items \cup more]
  BY <1>2, <1>3
<1> QED BY <1>4, <1>5 DEF Records!Change

\* An edit.
LEMMA EditIsEdit ==
  ASSUME UpdatesInv, NEW p \in Paper, EditRecord(p)
  PROVE  \E i \in Item : Records!Edit(p, i)
<1>1. /\ head[p].items \in SUBSET Item /\ head[p].deleted \in SUBSET Paper
      /\ Had(p) \in SUBSET Item
  BY HadType DEF UpdatesInv, UpdatesTypeOK, Head
<1>2. PICK i \in Item, items \in SUBSET Item :
        /\ items = IF i \in head[p].items THEN head[p].items \ {i} ELSE head[p].items \cup {i}
        /\ Put(p, items, head[p].deleted) /\ Lose(p, items, Had(p))
  BY <1>1 DEF EditRecord
<1>3. items = (head[p].items \cup {i}) \ (head[p].items \cap {i})
  BY <1>2
<1>4. Records!Change(p, items, {})
  BY <1>1, <1>2, PutChanges DEF UpdatesInv
<1> QED BY <1>3, <1>4 DEF EditRecord, Records!Edit

\* An update, with the record as it is now.
LEMMA UpdateIsUpdate ==
  ASSUME UpdatesInv, NEW w \in Run, StoreUpdate(w)
  PROVE  Records!Update(run[w].rec, run[w].source, run[w].update)
<1>1. PICK r : r = run[w]
  OBVIOUS
<1>2. /\ r.rec \in Paper /\ r.source \in Source /\ r.merged \in SUBSET Item
      /\ r.deleted \in SUBSET Paper /\ Had(r.rec) \in SUBSET Item
  BY <1>1, StoreFacts, HadType DEF UpdatesInv
<1>3. PICK old \in SUBSET Item :
        /\ Stands(r.rec, r.source, old)
        /\ r.merged = Merged(head[r.rec].items, old, r.update)
  BY <1>1, StoreFacts
<1>4. /\ Put(r.rec, r.merged, r.deleted) /\ Lose(r.rec, r.merged, Had(r.rec))
      /\ brought' = [brought EXCEPT ![r.rec][r.source] = @ \cup r.update] /\ UNCHANGED ahead
  BY <1>1 DEF StoreUpdate
<1>5. Records!Change(r.rec, r.merged, {})
  BY <1>2, <1>4, PutChanges DEF UpdatesInv
<1>6. /\ old \in SUBSET (Records!Known(r.rec) \cap Records!BroughtTo(r.rec, r.source))
      /\ r.merged = Records!ThreeWay([p \in Paper |-> head[p].items][r.rec], old, r.update)
  BY <1>2, <1>3, SameKnown, SameMerge DEF Stands
<1> QED BY <1>1, <1>4, <1>5, <1>6 DEF Records!Update

\* A manual merge: the record keeps what it has, and takes what the other had.
LEMMA ManualIsJoin ==
  ASSUME UpdatesInv, NEW w \in Run, StoreManual(w)
  PROVE  /\ run[w].rec \in Paper /\ run[w].other \in Paper
         /\ Records!Join(run[w].rec, run[w].other)
<1>1. PICK r \in RunState : r = run[w]
  BY DEF UpdatesInv, UpdatesTypeOK
<1>2. RunHolds(r) /\ r.at = "store" /\ r.kind = "manual"
  BY <1>1 DEF UpdatesInv, StoreManual, At
<1>3. UnderWay(r) /\ HasMerged(r) /\ Current(r)
  BY <1>1, <1>2 DEF Where, HasMerged, UnderWay, Current, StoreManual, Accepted, IsHead
<1>4. /\ r.rec \in Paper /\ r.other \in Paper /\ r.merged \in SUBSET Item
      /\ r.deleted \in SUBSET Paper
  BY <1>2, <1>3 DEF RunHolds, HeadHolds, ManualHolds, RunState
<1>5. head[r.rec].items \subseteq r.merged /\ r.merged \subseteq head[r.rec].items \cup Had(r.other)
  BY <1>2, <1>3 DEF RunHolds, ManualHolds
<1>6. PICK was, more \in SUBSET Item : was = Had(r.rec) \cup more /\ more = Had(r.other)
  BY <1>4, HadType DEF UpdatesInv
<1>7. Records!Change(r.rec, r.merged, more)
  BY <1>1, <1>4, <1>6, PutChanges DEF StoreManual, UpdatesInv
<1>8. PICK taken \in SUBSET more : r.merged = head[r.rec].items \cup taken
  <2>1. r.merged = head[r.rec].items \cup (r.merged \ head[r.rec].items)
    BY <1>5
  <2> QED BY <1>5, <1>6, <2>1
<1>9. /\ taken \in SUBSET [p \in Paper |-> Had(p)][r.other] /\ more = [p \in Paper |-> Had(p)][r.other]
      /\ r.merged = [p \in Paper |-> head[p].items][r.rec] \cup taken
  BY <1>4, <1>6, <1>8
<1>10. /\ brought' = [brought EXCEPT ![r.rec] = [s \in Source |-> @[s] \cup brought[r.other][s]]]
       /\ ahead' = ahead \ {<<r.rec, r.other>>}
  BY <1>1 DEF StoreManual
<1>11. Records!Join(r.rec, r.other)
  <2>1. Records!Change(r.rec, [p \in Paper |-> head[p].items][r.rec] \cup taken,
                       [p \in Paper |-> Had(p)][r.other])
    BY <1>7, <1>9 DEF Records!Change
  <2> HIDE DEF Records!Change
  <2> QED BY <1>9, <1>10, <2>1 DEF Records!Join
<1> QED BY <1>1, <1>4, <1>11

\* Roots that are moved before a merge are lent.
LEMMA CopyIsLend ==
  ASSUME UpdatesInv, NEW w \in Run, NEW s \in Source, CopyRoot(w, s)
  PROVE  \E p, o \in Paper : Records!Lend(p, o)
<1>1. PICK r \in RunState : r = run[w]
  BY DEF UpdatesInv, UpdatesTypeOK
<1>2. r.rec \in Paper /\ r.other \in Paper
  BY <1>1, MovingHolds DEF UpdatesInv, CopyRoot, At
<1>3. Records!Lend(r.rec, r.other)
  BY <1>1 DEF CopyRoot, Origins, Records!Lend, historyVars, Had
<1> QED BY <1>2, <1>3

\* Nobody sees the other steps.
LEMMA UnseenSteps ==
  ASSUME UNCHANGED <<head, ahead, historyVars>>
  PROVE  UNCHANGED Records!recordsVars
BY DEF historyVars, Had, Records!recordsVars

\* Every step of a run, and every edit, is a step of ThreeWayRecords, or none.
LEMMA RecordsStep ==
  ASSUME UpdatesInv, [UpdatesNext]_updatesVars
  PROVE  [Records!RecordsNext]_(Records!recordsVars)
<1>1. CASE UNCHANGED updatesVars
  BY <1>1, UnseenSteps DEF updatesVars, historyVars
<1>2. CASE \E p \in Paper : EditRecord(p)
  BY <1>2, EditIsEdit DEF Records!RecordsNext
<1>3. ASSUME NEW w \in Run, StoreUpdate(w)
      PROVE  Records!RecordsNext
  BY <1>3, UpdateIsUpdate, StoreFacts DEF Records!RecordsNext
<1>4. ASSUME NEW w \in Run, StoreManual(w)
      PROVE  Records!RecordsNext
  BY <1>4, ManualIsJoin DEF Records!RecordsNext
<1>5. ASSUME NEW w \in Run, NEW s \in Source, CopyRoot(w, s)
      PROVE  Records!RecordsNext
  BY <1>5, CopyIsLend DEF Records!RecordsNext
<1>6. ASSUME NEW w \in Run,
             \/ StartUpdate(w) \/ StartManual(w) \/ FollowRedirect(w) \/ ReadHead(w) \/ Merge(w)
             \/ Await(w) \/ Approve(w) \/ ListRoots(w) \/ RootsSaved(w) \/ StoreRefused(w)
             \/ StoreRoot(w) \/ FailRun(w) \/ RestartTask(w) \/ RestartRun(w)
             \/ \E s \in Source : DeleteRoot(w, s)
      PROVE  UNCHANGED Records!recordsVars
  BY <1>6, UnseenSteps
  DEF StartUpdate, StartManual, FollowRedirect, ReadHead, Merge, Await, Approve, ListRoots, RootsSaved,
      StoreRefused, StoreRoot, FailRun, RestartTask, RestartRun, DeleteRoot
<1> QED BY <1>1, <1>2, <1>3, <1>4, <1>5, <1>6 DEF UpdatesNext

\* At first nothing was brought to a record, and nothing was lent.
LEMMA RecordsStart ==
  ASSUME UpdatesInit
  PROVE  Records!RecordsInit
<1>1. PICK items \in [Paper -> SUBSET Item] :
        head = [p \in Paper |-> [version |-> 1, items |-> items[p], deleted |-> {}, into |-> NoPaper]]
  BY DEF UpdatesInit
<1>2. [p \in Paper |-> head[p].items] = items
  BY <1>1
<1>3. [p \in Paper |-> Had(p)] = items
  BY <1>1 DEF UpdatesInit, Had
<1> QED BY <1>2, <1>3 DEF UpdatesInit, NoRoots, Records!RecordsInit

\* To whom looks at the records, an update that is read, merged, reviewed and
\* stored is one step: see UpdatesAreAtomic.
THEOREM UpdatesAreAtomicHolds == UpdatesSpec => UpdatesAreAtomic
<1>1. UpdatesInv =>
        [\A w \in Run :
           LET r == run[w] IN
           /\ StoreUpdate(w) => Records!Update(r.rec, r.source, r.update)
           /\ StoreManual(w) => Records!Join(r.rec, r.other)]_updatesVars
  BY UpdateIsUpdate, ManualIsJoin
<1>2. UpdatesInv /\ [UpdatesNext]_updatesVars => [Records!RecordsNext]_(Records!recordsVars)
  BY RecordsStep
<1>3. UpdatesInit => Records!RecordsInit
  BY RecordsStart
<1> QED BY <1>1, <1>2, <1>3, UpdatesInvHolds, PTL DEF UpdatesSpec, UpdatesAreAtomic, Records!RecordsSpec
=============================================================================
