--------------------------- MODULE HarvestsProofs ---------------------------
(* What a window of days may miss, and when an article is posted once: for *)
(* every number of preprints and days, batches, articles and runs.         *)
EXTENDS RecordUpdatesProofs, MCIncoming

-----------------------------------------------------------------------------
(* Daily windows                                                           *)

\* No run is ahead of its day, a day has one run, and what waits has come out.
DaysHold ==
  /\ begun \subseteq 1..today /\ ended \subseteq begun
  /\ running # 0 => running \in begun \ ended
  /\ \A p \in waiting : listed[p] # 0

\* What the run that is under way does not have was changed on its day, or is
\* not in its window.
FetchedHolds ==
  \A p \in waiting :
    running # 0 /\ changed[p] < running /\ running <= listed[p] + Back => p \in fetched

WindowsInv == WindowsTypeOK /\ DaysHold /\ FetchedHolds /\ ChangesAreLoaded

\* Every step of the daily harvests keeps the invariant.
LEMMA WindowsStep ==
  ASSUME WindowsInv, [WindowsNext]_windowVars
  PROVE  WindowsInv'
<1> USE DEF WindowsInv, WindowsTypeOK, DaysHold, FetchedHolds, ChangesAreLoaded, Day, Back, Origin
<1>1. CASE NextDay
  BY <1>1, DaysAssumption DEF NextDay
<1>2. CASE FetchChanged
  BY <1>2, DaysAssumption DEF FetchChanged, Since
<1>3. CASE LoadFetched
  <2>1. PICK failed \in SUBSET (fetched \ nameless) :
          /\ waiting' = waiting \ (fetched \ (failed \cup nameless))
          /\ reported' = reported \cup failed
    BY <1>3 DEF LoadFetched
  <2>2. WindowsTypeOK' /\ DaysHold' /\ FetchedHolds'
    BY <1>3, <2>1, DaysAssumption DEF LoadFetched
  <2>3. ASSUME NEW p \in waiting' \ (reported' \cup nameless'), NEW d \in Day,
               changed[p] < d, d <= listed[p] + Back
        PROVE  d \notin ended'
    <3>1. p \in waiting \ fetched /\ p \notin reported \cup nameless
      BY <1>3, <2>1, <2>3 DEF LoadFetched
    <3>2. d # running /\ d \notin ended
      BY <1>3, <2>3, <3>1 DEF LoadFetched
    <3> QED BY <1>3, <3>2 DEF LoadFetched
  <2>4. ChangesAreLoaded'
    BY <1>3, <2>3 DEF LoadFetched
  <2> QED BY <2>2, <2>4
<1>4. CASE RunDies
  BY <1>4, DaysAssumption DEF RunDies
<1>5. ASSUME NEW p \in Preprint, ChangePreprint(p)
      PROVE  WindowsInv'
  <2>1. /\ changed' = [changed EXCEPT ![p] = today] /\ today \in 1..LastDay
        /\ listed' = [listed EXCEPT ![p] = IF origin = "aps" /\ @ # 0 THEN @ ELSE today]
    BY <1>5, DaysAssumption DEF ChangePreprint
  <2>2. WindowsTypeOK' /\ DaysHold'
    BY <1>5, <2>1 DEF ChangePreprint
  <2>3. ASSUME NEW q \in waiting'
        PROVE  \/ q = p /\ changed'[q] = today
               \/ /\ q # p /\ q \in waiting /\ changed'[q] = changed[q] /\ listed'[q] = listed[q]
                  /\ q \in fetched <=> q \in fetched'
                  /\ q \in reported <=> q \in reported'
                  /\ q \in nameless <=> q \in nameless'
    BY <1>5, <2>1, <2>3 DEF ChangePreprint
  <2>4. FetchedHolds' /\ ChangesAreLoaded'
    BY <1>5, <2>1, <2>3 DEF ChangePreprint
  <2> QED BY <2>2, <2>4
<1>6. CASE UNCHANGED windowVars
  BY <1>6 DEF windowVars
<1> QED BY <1>1, <1>2, <1>3, <1>4, <1>5, <1>6 DEF WindowsNext

\* The invariant holds throughout.
LEMMA WindowsInvariant == WindowsSpec => []WindowsInv
<1>1. WindowsInit => WindowsInv
  BY DaysAssumption DEF WindowsInit, WindowsInv, WindowsTypeOK, DaysHold, FetchedHolds, ChangesAreLoaded, Day, Back, Origin
<1> QED BY <1>1, WindowsStep, PTL DEF WindowsSpec

\* Days are within the bound, and a run is of one of them.
THEOREM WindowsTypeCorrect == WindowsSpec => []WindowsTypeOK
<1>1. WindowsInv => WindowsTypeOK
  BY DEF WindowsInv
<1> QED BY <1>1, WindowsInvariant, PTL

\* A change that was neither loaded nor reported came after the last run that
\* ended with its stamp in the window, but for articles without a DOI.
THEOREM ChangesNotMissed == WindowsSpec => []ChangesAreLoaded
<1>1. WindowsInv => ChangesAreLoaded
  BY DEF WindowsInv
<1> QED BY <1>1, WindowsInvariant, PTL

-----------------------------------------------------------------------------
(* Batches                                                                 *)

\* Where a run is, and what it has.
HarvestHolds(h) ==
  LET r == harvest[h] IN
  /\ r.at \in {"none", "done"} => r.failures = {}
  /\ r.at \in {"take", "move", "moved"} => r.task = "take"
  /\ r.at = "load" /\ feed = "desy" => r.task = "take"
  /\ r.task = "take" => r.ready = {}
  /\ r.task = "load" => feed = "elsevier"
  /\ r.at \in {"move", "moved"} => r.on \in offered \cup bucket
  /\ r.at = "move" => r.on \notin r.got
  /\ r.at = "moved" => r.on \in r.got
  /\ r.got \cup r.ready \subseteq bucket
  /\ r.at = "load" => r.load \subseteq ArticlesOf(bucket)
  /\ r.at = "failed" => r.got \cup r.ready \subseteq told

RunsHold == BatchesTypeOK /\ \A h \in Harvest : HarvestHolds(h)

\* What lasts: batches stay in the bucket, or are on their way into it.
Lasting ==
  /\ feed' = feed /\ articles' = articles
  /\ bucket \subseteq bucket' /\ offered \subseteq offered' \cup bucket' /\ told \subseteq told'
  /\ offered' \subseteq Batch /\ bucket' \subseteq Batch /\ told' \subseteq Batch

\* The run that a step is of gets its new state, and the others keep theirs.
LEMMA NowIs ==
  ASSUME BatchesTypeOK, NEW h \in Harvest, NEW s \in HarvestState, Now(h, s)
  PROVE  /\ harvest'[h] = s /\ harvest' \in [Harvest -> HarvestState]
         /\ \A o \in Harvest \ {h} : harvest'[o] = harvest[o]
BY DEF BatchesTypeOK, Now

\* What batches contain are articles.
LEMMA ArticlesTyped ==
  ASSUME BatchesTypeOK, NEW S \in SUBSET Batch
  PROVE  ArticlesOf(S) \in SUBSET Article
BY DEF BatchesTypeOK, ArticlesOf

\* A run that takes no step is as it was whatever the others put in the bucket.
LEMMA OtherRun ==
  ASSUME RunsHold, Lasting, NEW o \in Harvest, harvest'[o] = harvest[o]
  PROVE  HarvestHolds(o)'
<1>1. HarvestHolds(o)
  BY DEF RunsHold
<1>2. ArticlesOf(bucket) \subseteq ArticlesOf(bucket)'
  BY DEF Lasting, ArticlesOf
<1> QED BY <1>1, <1>2 DEF HarvestHolds, Lasting

\* A step of one run leaves the others what they held.
LEMMA OneRun ==
  ASSUME RunsHold, Lasting, NEW h \in Harvest, NEW s \in HarvestState, Now(h, s),
         posted' \in [Article -> 0..2], repeated' \subseteq Article,
         HarvestHolds(h)'
  PROVE  RunsHold'
<1>1. /\ harvest' \in [Harvest -> HarvestState]
      /\ \A o \in Harvest \ {h} : harvest'[o] = harvest[o]
  BY NowIs DEF RunsHold
<1>2. \A o \in Harvest : HarvestHolds(o)'
  BY <1>1, OtherRun
<1> QED BY <1>1, <1>2 DEF RunsHold, BatchesTypeOK, Lasting

\* Every step keeps what each run has taken in its own hands.
LEMMA RunsStep ==
  ASSUME RunsHold, [BatchesNext]_batchVars
  PROVE  RunsHold'
<1>1. ASSUME NEW b \in Batch, Offer(b)
      PROVE  RunsHold'
  <2>1. BatchesTypeOK' /\ Lasting /\ harvest' = harvest
    BY <1>1 DEF Offer, RunsHold, BatchesTypeOK, Lasting
  <2> QED BY <2>1, OtherRun DEF RunsHold
<1>2. ASSUME NEW h \in Harvest, StartHarvest(h)
      PROVE  RunsHold'
  <2>1. PICK s \in HarvestState : Now(h, s)
    BY <1>2 DEF StartHarvest, HarvestState, NoHarvest, Is, RunsHold, HarvestHolds, BatchesTypeOK
  <2>2. Lasting /\ posted' \in [Article -> 0..2] /\ repeated' \subseteq Article
    BY <1>2 DEF StartHarvest, Lasting, RunsHold, HarvestHolds, BatchesTypeOK, HarvestState, Is, Held
  <2>3. HarvestHolds(h)'
    BY <1>2, <2>1 DEF StartHarvest, RunsHold, HarvestHolds, HarvestState, NoHarvest, Is, Now, Held,
       BatchesTypeOK, ArticlesOf
  <2> QED BY <2>1, <2>2, <2>3, OneRun
<1>3. ASSUME NEW h \in Harvest, PutInBucket(h)
      PROVE  RunsHold'
  <2>1. PICK s \in HarvestState : Now(h, s)
    BY <1>3 DEF PutInBucket, HarvestState, Is, RunsHold, HarvestHolds, BatchesTypeOK
  <2>2. Lasting /\ posted' \in [Article -> 0..2] /\ repeated' \subseteq Article
    BY <1>3 DEF PutInBucket, Lasting, RunsHold, HarvestHolds, BatchesTypeOK, HarvestState, Is, Held
  <2>3. HarvestHolds(h)'
    BY <1>3, <2>1 DEF PutInBucket, RunsHold, HarvestHolds, HarvestState, Is, Now, Held, BatchesTypeOK,
       ArticlesOf
  <2> QED BY <2>1, <2>2, <2>3, OneRun
<1>4. ASSUME NEW h \in Harvest, DeleteInput(h)
      PROVE  RunsHold'
  <2>1. PICK s \in HarvestState : Now(h, s)
    BY <1>4 DEF DeleteInput, HarvestState, Is, RunsHold, HarvestHolds, BatchesTypeOK
  <2>2. Lasting /\ posted' \in [Article -> 0..2] /\ repeated' \subseteq Article
    BY <1>4 DEF DeleteInput, Lasting, RunsHold, HarvestHolds, BatchesTypeOK, HarvestState, Is, Held
  <2>3. HarvestHolds(h)'
    BY <1>4, <2>1 DEF DeleteInput, RunsHold, HarvestHolds, HarvestState, Is, Now, Held, BatchesTypeOK,
       ArticlesOf
  <2> QED BY <2>1, <2>2, <2>3, OneRun
<1>5. ASSUME NEW h \in Harvest, HandOver(h)
      PROVE  RunsHold'
  <2>1. harvest[h] \in HarvestState /\ harvest[h].got \in SUBSET Batch
    BY DEF RunsHold, BatchesTypeOK, HarvestState
  <2>2. ArticlesOf(harvest[h].got) \in SUBSET Article
    BY <2>1, ArticlesTyped DEF RunsHold
  <2>3. PICK s \in HarvestState : Now(h, s)
    BY <1>5, <2>1, <2>2 DEF HandOver, HarvestState
  <2>4. Lasting /\ posted' \in [Article -> 0..2] /\ repeated' \subseteq Article
    BY <1>5 DEF HandOver, Lasting, RunsHold, BatchesTypeOK
  <2>5. harvest'[h] = [harvest[h] EXCEPT !.at = "load", !.task = "load", !.got = {},
                         !.ready = harvest[h].got, !.load = ArticlesOf(harvest[h].got)]
    BY <1>5 DEF HandOver, Now, RunsHold, BatchesTypeOK
  <2>6. ArticlesOf(harvest[h].got) \subseteq ArticlesOf(bucket)' /\ harvest[h].got \subseteq bucket'
    BY <1>5 DEF HandOver, RunsHold, HarvestHolds, ArticlesOf
  <2>7. HarvestHolds(h)'
    BY <1>5, <2>1, <2>5, <2>6 DEF HandOver, HarvestHolds, HarvestState
  <2> QED BY <2>3, <2>4, <2>7, OneRun
<1>6. ASSUME NEW h \in Harvest, NextDirectory(h)
      PROVE  RunsHold'
  <2>1. PICK s \in HarvestState : Now(h, s)
    BY <1>6 DEF NextDirectory, HarvestState, Is, RunsHold, HarvestHolds, BatchesTypeOK
  <2>2. Lasting /\ posted' \in [Article -> 0..2] /\ repeated' \subseteq Article
    BY <1>6 DEF NextDirectory, Lasting, RunsHold, HarvestHolds, BatchesTypeOK, HarvestState, Is, Held
  <2>3. HarvestHolds(h)'
    BY <1>6, <2>1 DEF NextDirectory, RunsHold, HarvestHolds, HarvestState, Is, Now, Held,
       BatchesTypeOK, ArticlesOf
  <2> QED BY <2>1, <2>2, <2>3, OneRun
<1>7. ASSUME NEW h \in Harvest, WriteFailures(h)
      PROVE  RunsHold'
  <2>1. PICK s \in HarvestState : Now(h, s)
    BY <1>7 DEF WriteFailures, HarvestState, Is, RunsHold, HarvestHolds, BatchesTypeOK
  <2>2. Lasting /\ posted' \in [Article -> 0..2] /\ repeated' \subseteq Article
    BY <1>7 DEF WriteFailures, Lasting, RunsHold, HarvestHolds, BatchesTypeOK, HarvestState, Is, Held
  <2>3. HarvestHolds(h)'
    BY <1>7, <2>1 DEF WriteFailures, RunsHold, HarvestHolds, HarvestState, Is, Now, Held,
       BatchesTypeOK, ArticlesOf
  <2> QED BY <2>1, <2>2, <2>3, OneRun
<1>8. ASSUME NEW h \in Harvest, CheckFailures(h)
      PROVE  RunsHold'
  <2>1. PICK s \in HarvestState : Now(h, s)
    BY <1>8 DEF CheckFailures, HarvestState, NoHarvest, Is, Stopped, RunsHold, BatchesTypeOK
  <2>2. Lasting /\ posted' \in [Article -> 0..2] /\ repeated' \subseteq Article
    BY <1>8 DEF CheckFailures, Lasting, RunsHold, BatchesTypeOK, HarvestState, Held
  <2>3. \/ harvest'[h] = Stopped(h) /\ told' = told \cup harvest[h].got \cup harvest[h].ready
        \/ harvest'[h] = [NoHarvest EXCEPT !.at = "done"]
    BY <1>8 DEF CheckFailures, Now, Held, RunsHold, BatchesTypeOK
  <2>4. /\ harvest[h] \in HarvestState /\ HarvestHolds(h)
        /\ UNCHANGED <<feed, articles, offered, bucket>>
    BY <1>8 DEF CheckFailures, RunsHold, BatchesTypeOK
  <2>5. HarvestHolds(h)'
    BY <2>3, <2>4 DEF HarvestHolds, Stopped, HarvestState, NoHarvest
  <2> QED BY <2>1, <2>2, <2>5, OneRun
<1>9. ASSUME NEW h \in Harvest, StopHarvest(h)
      PROVE  RunsHold'
  <2>1. PICK s \in HarvestState : Now(h, s)
    BY <1>9 DEF StopHarvest, HarvestState, Stopped, RunsHold, HarvestHolds, BatchesTypeOK
  <2>2. Lasting /\ posted' \in [Article -> 0..2] /\ repeated' \subseteq Article
    BY <1>9 DEF StopHarvest, Lasting, RunsHold, HarvestHolds, BatchesTypeOK, HarvestState, Held
  <2>3. HarvestHolds(h)'
    BY <1>9, <2>1 DEF StopHarvest, RunsHold, HarvestHolds, HarvestState, Now, Stopped, Held,
       BatchesTypeOK, ArticlesOf
  <2> QED BY <2>1, <2>2, <2>3, OneRun
<1>10. ASSUME NEW h \in Harvest, StopCopying(h)
      PROVE  RunsHold'
  <2>1. PICK s \in HarvestState : Now(h, s)
    BY <1>10 DEF StopCopying, HarvestState, Is, Stopped, RunsHold, HarvestHolds, BatchesTypeOK
  <2>2. Lasting /\ posted' \in [Article -> 0..2] /\ repeated' \subseteq Article
    BY <1>10 DEF StopCopying, Lasting, RunsHold, HarvestHolds, BatchesTypeOK, HarvestState, Is, Held
  <2>3. HarvestHolds(h)'
    BY <1>10, <2>1 DEF StopCopying, RunsHold, HarvestHolds, HarvestState, Is, Now, Stopped, Held,
       BatchesTypeOK, ArticlesOf
  <2> QED BY <2>1, <2>2, <2>3, OneRun
<1>11. ASSUME NEW h \in Harvest, ClearTask(h)
      PROVE  RunsHold'
  <2> DEFINE r == harvest[h]
  <2>1. r \in HarvestState /\ r.ready \in SUBSET Batch /\ HarvestHolds(h)
    BY DEF RunsHold, BatchesTypeOK, HarvestState
  <2>2. ArticlesOf(r.ready) \in SUBSET Article /\ offered \in SUBSET Batch
    BY <2>1, ArticlesTyped DEF RunsHold, BatchesTypeOK
  <2>3. PICK s \in HarvestState : Now(h, s)
    BY <1>11, <2>1, <2>2 DEF ClearTask, HarvestState, NoHarvest
  <2>4. Lasting /\ posted' \in [Article -> 0..2] /\ repeated' \subseteq Article
    BY <1>11, <2>2 DEF ClearTask, Lasting, RunsHold, BatchesTypeOK
  <2>5. /\ UNCHANGED <<feed, articles, offered, bucket, told>> /\ r.at = "failed"
        /\ \/ harvest'[h] = [NoHarvest EXCEPT !.at = "take", !.todo = offered]
           \/ r.task = "load" /\ harvest'[h] = [r EXCEPT !.at = "load", !.failures = {}, !.load = ArticlesOf(r.ready)]
           \/ r.task = "check" /\ harvest'[h] = [r EXCEPT !.at = "check"]
    BY <1>11 DEF ClearTask, Now, Is, RunsHold, BatchesTypeOK
  <2>6. ArticlesOf(r.ready) \subseteq ArticlesOf(bucket)'
    BY <2>1, <2>5 DEF HarvestHolds, ArticlesOf
  <2>7. HarvestHolds(h)'
    BY <2>1, <2>5, <2>6 DEF HarvestHolds, HarvestState, NoHarvest
  <2> QED BY <2>3, <2>4, <2>7, OneRun
<1>12. ASSUME NEW h \in Harvest, NEW b \in Batch, Skip(h, b)
      PROVE  RunsHold'
  <2>1. PICK s \in HarvestState : Now(h, s)
    BY <1>12 DEF Skip, HarvestState, Is, RunsHold, HarvestHolds, BatchesTypeOK
  <2>2. Lasting /\ posted' \in [Article -> 0..2] /\ repeated' \subseteq Article
    BY <1>12 DEF Skip, Lasting, RunsHold, HarvestHolds, BatchesTypeOK, HarvestState, Is, Held
  <2>3. HarvestHolds(h)'
    BY <1>12, <2>1 DEF Skip, RunsHold, HarvestHolds, HarvestState, Is, Now, Held, BatchesTypeOK,
       ArticlesOf
  <2> QED BY <2>1, <2>2, <2>3, OneRun
<1>13. ASSUME NEW h \in Harvest, NEW b \in Batch, Take(h, b)
      PROVE  RunsHold'
  <2> DEFINE r == harvest[h]
  <2>1. r \in HarvestState /\ HarvestHolds(h)
    BY DEF RunsHold, BatchesTypeOK
  <2>2. PICK s \in HarvestState : Now(h, s)
    BY <1>13, <2>1 DEF Take, HarvestState
  <2>3. Lasting /\ posted' \in [Article -> 0..2] /\ repeated' \subseteq Article
    BY <1>13 DEF Take, Lasting, RunsHold, BatchesTypeOK
  <2>4. /\ UNCHANGED <<feed, articles, offered, bucket, told>> /\ r.at = "take" /\ b \notin bucket
        /\ \/ b \in offered /\ harvest'[h] = [r EXCEPT !.at = "move", !.on = b, !.todo = @ \ {b}]
           \/ harvest'[h] = [r EXCEPT !.todo = @ \ {b}]
    BY <1>13 DEF Take, Now, Is, IsThere, RunsHold, BatchesTypeOK
  <2>5. ArticlesOf(bucket)' = ArticlesOf(bucket)
    BY <2>4 DEF ArticlesOf
  <2>6. HarvestHolds(h)'
    BY <2>1, <2>4, <2>5 DEF HarvestHolds, HarvestState
  <2> QED BY <2>2, <2>3, <2>6, OneRun
<1>14. ASSUME NEW h \in Harvest, NEW a \in Article, Post(h, a)
      PROVE  RunsHold'
  <2> DEFINE r == harvest[h]
  <2>1. r \in HarvestState /\ HarvestHolds(h) /\ harvest \in [Harvest -> HarvestState]
    BY DEF RunsHold, BatchesTypeOK
  <2>2. PICK s \in HarvestState :
          /\ Now(h, s) /\ s.load \subseteq r.load
          /\ s.at = r.at /\ s.task = r.task /\ s.on = r.on /\ s.got = r.got /\ s.ready = r.ready
    <3>1. CASE UNCHANGED harvest
      <4>1. Now(h, r)
        BY <2>1, <3>1 DEF Now
      <4> QED BY <2>1, <4>1
    <3>2. CASE Now(h, [r EXCEPT !.load = @ \ {a}])
      <4>1. [r EXCEPT !.load = @ \ {a}] \in HarvestState
        BY <2>1 DEF HarvestState
      <4> QED BY <2>1, <3>2, <4>1 DEF HarvestState
    <3>3. CASE Now(h, [r EXCEPT !.load = @ \ {a}, !.failures = @ \cup {a}])
      <4>1. [r EXCEPT !.load = @ \ {a}, !.failures = @ \cup {a}] \in HarvestState
        BY <2>1 DEF HarvestState
      <4> QED BY <2>1, <3>3, <4>1 DEF HarvestState
    <3> QED BY <1>14, <3>1, <3>2, <3>3 DEF Post
  <2>3. Lasting /\ posted' \in [Article -> 0..2] /\ repeated' \subseteq Article
    BY <1>14 DEF Post, Lasting, RunsHold, BatchesTypeOK, MoreThan
  <2>4. harvest'[h] = s /\ UNCHANGED <<feed, articles, offered, bucket, told>> /\ r.at = "load"
    BY <1>14, <2>1, <2>2 DEF Post, Now, Is
  <2>5. ArticlesOf(bucket)' = ArticlesOf(bucket)
    BY <2>4 DEF ArticlesOf
  <2>6. HarvestHolds(h)'
    BY <2>1, <2>2, <2>4, <2>5 DEF HarvestHolds, HarvestState
  <2> QED BY <2>2, <2>3, <2>6, OneRun
<1>15. CASE UNCHANGED batchVars
  BY <1>15 DEF batchVars, RunsHold, HarvestHolds, BatchesTypeOK, ArticlesOf
<1> QED
  BY <1>1, <1>2, <1>3, <1>4, <1>5, <1>6, <1>7, <1>8, <1>9, <1>10, <1>11, <1>12, <1>13, <1>14, <1>15
  DEF BatchesNext
\* A run that has the batch, and will post the article or has failed to.
Keeps(h, b, a) ==
  \/ harvest[h].at \in {"take", "move"} /\ feed = "elsevier" /\ b \in harvest[h].got
  \/ Is(h, "moved") /\ harvest[h].on = b
  \/ /\ (Is(h, "load") /\ a \in harvest[h].load) \/ a \in harvest[h].failures
     /\ b \in Held(h)

NoneLeftOut ==
  \A b \in bucket \ told : \A a \in articles[b] :
    posted[a] = 0 => \E h \in Harvest : Keeps(h, b, a)

\* A run that posts the article unless it fails, and one that does if it takes
\* the batch that it has found missing.
WillPost(h, a) ==
  \/ harvest[h].at \in {"take", "move"} /\ feed = "elsevier" /\ a \in ArticlesOf(harvest[h].got)
  \/ Is(h, "moved") /\ a \in articles[harvest[h].on]
  \/ Is(h, "load") /\ a \in harvest[h].load
MayTake(h, a) == Is(h, "move") /\ a \in articles[harvest[h].on]

\* An article that nothing repeats comes in one batch, which one run takes.
OneBatch(a) == \A b, c \in offered \cup bucket : a \in articles[b] /\ a \in articles[c] => b = c
PostedAtMostOnce(a) ==
  /\ posted[a] # 2
  /\ posted[a] = 1 => /\ a \in ArticlesOf(bucket)
                      /\ \A h \in Harvest : ~WillPost(h, a) /\ ~MayTake(h, a)
OnePosts(a) ==
  \A h \in Harvest : WillPost(h, a) =>
    /\ ~MayTake(h, a)
    /\ \A o \in Harvest \ {h} : ~WillPost(o, a) /\ ~MayTake(o, a)
NoneTwice == \A a \in Article \ repeated : OneBatch(a) /\ PostedAtMostOnce(a) /\ OnePosts(a)

PostsInv == RunsHold /\ NoneLeftOut /\ NoneTwice

\* Only run h takes a step, and it lets go of nothing.
OnlyRun(h) ==
  /\ Lasting /\ RunsHold'
  /\ \A o \in Harvest \ {h} : harvest'[o] = harvest[o]
LetsGoOfNone(h) ==
  \A b \in bucket' \ told', a \in Article :
    a \in articles[b] /\ posted'[a] = 0 =>
      Keeps(h, b, a)' \/ (b \in bucket /\ posted[a] = 0 /\ ~Keeps(h, b, a))

\* If the run lets go of nothing, none of the others has to take over.
LEMMA KeptOn ==
  ASSUME PostsInv, NEW h \in Harvest, OnlyRun(h), LetsGoOfNone(h)
  PROVE  NoneLeftOut'
<1> SUFFICES ASSUME NEW b \in bucket' \ told', NEW a \in articles[b], posted'[a] = 0
             PROVE  \E o \in Harvest : Keeps(o, b, a)'
  BY DEF NoneLeftOut, OnlyRun, Lasting
<1>1. a \in Article
  BY DEF OnlyRun, Lasting, RunsHold, BatchesTypeOK
<1>2. CASE ~Keeps(h, b, a)'
  <2>1. b \in bucket /\ posted[a] = 0 /\ ~Keeps(h, b, a) /\ b \notin told
    BY <1>1, <1>2 DEF LetsGoOfNone, OnlyRun, Lasting
  <2>2. PICK o \in Harvest : Keeps(o, b, a)
    BY <2>1 DEF PostsInv, NoneLeftOut
  <2>3. o # h /\ harvest'[o] = harvest[o] /\ feed' = feed
    BY <2>1, <2>2 DEF OnlyRun, Lasting
  <2> QED BY <2>2, <2>3 DEF Keeps, Is, Held
<1> QED BY <1>2

\* And it gets nothing to post that it had not.
GetsNone(h) ==
  /\ posted' = posted /\ repeated \subseteq repeated' /\ offered' \cup bucket' \subseteq offered \cup bucket
  /\ \A a \in Article \ repeated' :
       (WillPost(h, a)' => WillPost(h, a)) /\ (MayTake(h, a)' => MayTake(h, a))

\* A run that does not move may take and post what it might before.
LEMMA SameRun ==
  ASSUME NEW o \in Harvest, harvest'[o] = harvest[o], feed' = feed, articles' = articles, NEW a \in Article
  PROVE  (WillPost(o, a)' <=> WillPost(o, a)) /\ (MayTake(o, a)' <=> MayTake(o, a))
BY DEF WillPost, MayTake, Is, ArticlesOf

\* A step that gives a run nothing new to post makes nothing be posted twice.
LEMMA NoneGot ==
  ASSUME PostsInv, NEW h \in Harvest, OnlyRun(h), GetsNone(h)
  PROVE  NoneTwice'
<1> SUFFICES ASSUME NEW a \in Article \ repeated'
             PROVE  OneBatch(a)' /\ PostedAtMostOnce(a)' /\ OnePosts(a)'
  BY DEF NoneTwice
<1>1. OneBatch(a) /\ PostedAtMostOnce(a) /\ OnePosts(a)
  BY DEF PostsInv, NoneTwice, GetsNone
<1>2. \A o \in Harvest : (WillPost(o, a)' => WillPost(o, a)) /\ (MayTake(o, a)' => MayTake(o, a))
  BY SameRun DEF GetsNone, OnlyRun, Lasting
<1>3. a \in ArticlesOf(bucket) => a \in ArticlesOf(bucket)'
  BY DEF OnlyRun, Lasting, ArticlesOf
<1>4. OneBatch(a)'
  BY <1>1 DEF OneBatch, GetsNone, OnlyRun, Lasting
<1> QED BY <1>1, <1>2, <1>3, <1>4 DEF PostedAtMostOnce, OnePosts, GetsNone

\* Every step keeps an unrepeated article to one batch and one run.
LEMMA PostsStep ==
  ASSUME PostsInv, [BatchesNext]_batchVars
  PROVE  PostsInv'
<1>1. RunsHold /\ RunsHold'
  BY RunsStep DEF PostsInv
<1>2. ASSUME NEW b \in Batch, Offer(b)
      PROVE  PostsInv'
  <2>1. \A h \in Harvest : harvest'[h] = harvest[h] /\ \A a \in Article : \A c \in Batch : Keeps(h, c, a)' <=> Keeps(h, c, a)
    BY <1>2 DEF Offer, Keeps, Is, Held
  <2>2. NoneLeftOut'
    BY <1>1, <1>2, <2>1 DEF Offer, PostsInv, NoneLeftOut, RunsHold, BatchesTypeOK
  <2>3. ASSUME NEW a \in Article \ repeated'
        PROVE  OneBatch(a)' /\ PostedAtMostOnce(a)' /\ OnePosts(a)'
    <3>1. OneBatch(a) /\ PostedAtMostOnce(a) /\ OnePosts(a)
      BY <1>2, <2>3 DEF Offer, PostsInv, NoneTwice
    <3>2. OneBatch(a)'
      BY <1>2, <2>3, <3>1 DEF Offer, OneBatch, ArticlesOf
    <3>3. \A h \in Harvest : (WillPost(h, a)' <=> WillPost(h, a)) /\ (MayTake(h, a)' <=> MayTake(h, a))
      BY <1>2, <2>1, SameRun DEF Offer
    <3>4. ArticlesOf(bucket)' = ArticlesOf(bucket)
      BY <1>2 DEF Offer, ArticlesOf
    <3> QED BY <1>2, <3>1, <3>2, <3>3, <3>4 DEF Offer, PostedAtMostOnce, OnePosts
  <2> QED BY <1>1, <2>2, <2>3 DEF PostsInv, NoneTwice
<1>3. ASSUME NEW h \in Harvest, StartHarvest(h)
      PROVE  PostsInv'
  <2>1. OnlyRun(h)
    BY <1>1, <1>3 DEF StartHarvest, OnlyRun, Lasting, RunsHold, HarvestHolds, BatchesTypeOK,
       HarvestState, NoHarvest, Is, Now, Held
  <2>2. LetsGoOfNone(h)
    BY <1>1, <1>3 DEF StartHarvest, LetsGoOfNone, Keeps, RunsHold, HarvestHolds, BatchesTypeOK,
       HarvestState, NoHarvest, Is, Now, Held
  <2>3. GetsNone(h)
    BY <1>1, <1>3 DEF StartHarvest, GetsNone, WillPost, MayTake, ArticlesOf, RunsHold, HarvestHolds,
       BatchesTypeOK, HarvestState, NoHarvest, Is, Now, Held
  <2> QED BY <1>1, <2>1, <2>2, <2>3, KeptOn, NoneGot DEF PostsInv
<1>4. ASSUME NEW h \in Harvest, DeleteInput(h)
      PROVE  PostsInv'
  <2>1. OnlyRun(h)
    BY <1>1, <1>4 DEF DeleteInput, OnlyRun, Lasting, RunsHold, HarvestHolds, BatchesTypeOK,
       HarvestState, Is, Now, Held
  <2>2. LetsGoOfNone(h)
    BY <1>1, <1>4 DEF DeleteInput, LetsGoOfNone, Keeps, RunsHold, HarvestHolds, BatchesTypeOK,
       HarvestState, Is, Now, Held
  <2>3. GetsNone(h)
    BY <1>1, <1>4 DEF DeleteInput, GetsNone, WillPost, MayTake, ArticlesOf, RunsHold, HarvestHolds,
       BatchesTypeOK, HarvestState, Is, Now, Held
  <2> QED BY <1>1, <2>1, <2>2, <2>3, KeptOn, NoneGot DEF PostsInv
<1>5. ASSUME NEW h \in Harvest, HandOver(h)
      PROVE  PostsInv'
  <2>1. OnlyRun(h)
    BY <1>1, <1>5 DEF HandOver, OnlyRun, Lasting, RunsHold, HarvestHolds, BatchesTypeOK, HarvestState,
       Is, Now, Held
  <2> DEFINE r == harvest[h]
  <2>2. /\ r.at = "take" /\ feed = "elsevier" /\ r.ready = {}
        /\ harvest'[h] = [r EXCEPT !.at = "load", !.task = "load", !.got = {},
                             !.ready = r.got, !.load = ArticlesOf(r.got)]
        /\ UNCHANGED <<feed, articles, offered, bucket, posted, told, repeated>>
    BY <1>1, <1>5 DEF HandOver, Is, Now, RunsHold, HarvestHolds, BatchesTypeOK
  <2>3. /\ harvest'[h].at = "load" /\ harvest'[h].ready = r.got
        /\ harvest'[h].load = ArticlesOf(r.got) /\ harvest'[h].failures = r.failures
    BY <1>1, <2>2 DEF RunsHold, BatchesTypeOK, HarvestState
  <2>4. LetsGoOfNone(h)
    BY <2>2, <2>3 DEF LetsGoOfNone, Keeps, Is, Held, ArticlesOf
  <2>5. GetsNone(h)
    BY <2>2, <2>3 DEF GetsNone, WillPost, MayTake, Is
  <2> QED BY <1>1, <2>1, <2>4, <2>5, KeptOn, NoneGot DEF PostsInv
<1>6. ASSUME NEW h \in Harvest, NextDirectory(h)
      PROVE  PostsInv'
  <2>1. OnlyRun(h)
    BY <1>1, <1>6 DEF NextDirectory, OnlyRun, Lasting, RunsHold, HarvestHolds, BatchesTypeOK,
       HarvestState, Is, Now, Held
  <2>2. LetsGoOfNone(h)
    BY <1>1, <1>6 DEF NextDirectory, LetsGoOfNone, Keeps, RunsHold, HarvestHolds, BatchesTypeOK,
       HarvestState, Is, Now, Held
  <2>3. GetsNone(h)
    BY <1>1, <1>6 DEF NextDirectory, GetsNone, WillPost, MayTake, ArticlesOf, RunsHold, HarvestHolds,
       BatchesTypeOK, HarvestState, Is, Now, Held
  <2> QED BY <1>1, <2>1, <2>2, <2>3, KeptOn, NoneGot DEF PostsInv
<1>7. ASSUME NEW h \in Harvest, WriteFailures(h)
      PROVE  PostsInv'
  <2>1. OnlyRun(h)
    BY <1>1, <1>7 DEF WriteFailures, OnlyRun, Lasting, RunsHold, HarvestHolds, BatchesTypeOK,
       HarvestState, Is, Now, Held
  <2>2. LetsGoOfNone(h)
    BY <1>1, <1>7 DEF WriteFailures, LetsGoOfNone, Keeps, RunsHold, HarvestHolds, BatchesTypeOK,
       HarvestState, Is, Now, Held
  <2>3. GetsNone(h)
    BY <1>1, <1>7 DEF WriteFailures, GetsNone, WillPost, MayTake, ArticlesOf, RunsHold, HarvestHolds,
       BatchesTypeOK, HarvestState, Is, Now, Held
  <2> QED BY <1>1, <2>1, <2>2, <2>3, KeptOn, NoneGot DEF PostsInv
<1>8. ASSUME NEW h \in Harvest, CheckFailures(h)
      PROVE  PostsInv'
  <2>1. OnlyRun(h)
    BY <1>1, <1>8 DEF CheckFailures, OnlyRun, Lasting, RunsHold, HarvestHolds, BatchesTypeOK, HarvestState, NoHarvest, Is, Now, Held, Stopped
  <2>2. LetsGoOfNone(h)
    BY <1>1, <1>8 DEF CheckFailures, LetsGoOfNone, Keeps, RunsHold, HarvestHolds, BatchesTypeOK, HarvestState, NoHarvest, Is, Now, Held, Stopped
  <2>3. harvest'[h].at \in {"failed", "done"}
    <3>1. harvest'[h] = Stopped(h) \/ harvest'[h] = [NoHarvest EXCEPT !.at = "done"]
      BY <1>8, <1>1 DEF CheckFailures, Now, RunsHold, BatchesTypeOK
    <3> QED BY <1>1, <3>1 DEF Stopped, NoHarvest, RunsHold, BatchesTypeOK, HarvestState
  <2>4. GetsNone(h)
    BY <1>8, <2>3 DEF CheckFailures, GetsNone, WillPost, MayTake, Is
  <2> QED BY <1>1, <2>1, <2>2, <2>4, KeptOn, NoneGot DEF PostsInv
<1>9. ASSUME NEW h \in Harvest, StopHarvest(h)
      PROVE  PostsInv'
  <2>1. OnlyRun(h)
    BY <1>1, <1>9 DEF StopHarvest, OnlyRun, Lasting, RunsHold, HarvestHolds, BatchesTypeOK,
       HarvestState, Now, Held, Stopped
  <2>2. LetsGoOfNone(h)
    BY <1>1, <1>9 DEF StopHarvest, LetsGoOfNone, Keeps, RunsHold, HarvestHolds, BatchesTypeOK,
       HarvestState, Is, Now, Held, Stopped
  <2>3. GetsNone(h)
    BY <1>1, <1>9 DEF StopHarvest, GetsNone, WillPost, MayTake, ArticlesOf, RunsHold, HarvestHolds,
       BatchesTypeOK, HarvestState, Is, Now, Held, Stopped
  <2> QED BY <1>1, <2>1, <2>2, <2>3, KeptOn, NoneGot DEF PostsInv
<1>10. ASSUME NEW h \in Harvest, StopCopying(h)
      PROVE  PostsInv'
  <2>1. OnlyRun(h)
    BY <1>1, <1>10 DEF StopCopying, OnlyRun, Lasting, RunsHold, HarvestHolds, BatchesTypeOK,
       HarvestState, Is, Now, Held, Stopped
  <2>2. LetsGoOfNone(h)
    BY <1>1, <1>10 DEF StopCopying, LetsGoOfNone, Keeps, RunsHold, HarvestHolds, BatchesTypeOK,
       HarvestState, Is, Now, Held, Stopped
  <2>3. GetsNone(h)
    BY <1>1, <1>10 DEF StopCopying, GetsNone, WillPost, MayTake, ArticlesOf, RunsHold, HarvestHolds,
       BatchesTypeOK, HarvestState, Is, Now, Held, Stopped
  <2> QED BY <1>1, <2>1, <2>2, <2>3, KeptOn, NoneGot DEF PostsInv
<1>11. ASSUME NEW h \in Harvest, ClearTask(h)
      PROVE  PostsInv'
  <2>1. OnlyRun(h)
    BY <1>1, <1>11 DEF ClearTask, OnlyRun, Lasting, RunsHold, HarvestHolds, BatchesTypeOK,
       HarvestState, NoHarvest, Is, Now, Held
  <2>2. LetsGoOfNone(h)
    BY <1>1, <1>11 DEF ClearTask, LetsGoOfNone, Keeps, RunsHold, HarvestHolds, BatchesTypeOK,
       HarvestState, NoHarvest, Is, Now, Held
  <2> DEFINE r == harvest[h]
  <2>3. \/ harvest'[h].at = "take" /\ harvest'[h].got = {}
        \/ /\ harvest'[h].at = "load" /\ harvest'[h].load = ArticlesOf(r.ready)
           /\ repeated' = repeated \cup ArticlesOf(r.ready)
        \/ harvest'[h].at = "check"
    <3>1. \/ harvest'[h] = [NoHarvest EXCEPT !.at = "take", !.todo = offered]
          \/ /\ harvest'[h] = [r EXCEPT !.at = "load", !.failures = {}, !.load = ArticlesOf(r.ready)]
             /\ repeated' = repeated \cup ArticlesOf(r.ready)
          \/ harvest'[h] = [r EXCEPT !.at = "check"]
      BY <1>1, <1>11 DEF ClearTask, Now, RunsHold, BatchesTypeOK
    <3> QED BY <1>1, <3>1 DEF NoHarvest, RunsHold, BatchesTypeOK, HarvestState
  <2>4. ArticlesOf({})' = {}
    BY DEF ArticlesOf
  <2>5. GetsNone(h)
    BY <1>11, <2>3, <2>4 DEF ClearTask, GetsNone, WillPost, MayTake, Is
  <2> QED BY <1>1, <2>1, <2>2, <2>5, KeptOn, NoneGot DEF PostsInv
<1>12. ASSUME NEW h \in Harvest, NEW b \in Batch, Skip(h, b)
      PROVE  PostsInv'
  <2>1. OnlyRun(h)
    BY <1>1, <1>12 DEF Skip, OnlyRun, Lasting, RunsHold, HarvestHolds, BatchesTypeOK, HarvestState,
       Is, Now, Held
  <2>2. LetsGoOfNone(h)
    BY <1>1, <1>12 DEF Skip, LetsGoOfNone, Keeps, RunsHold, HarvestHolds, BatchesTypeOK, HarvestState,
       Is, Now, Held
  <2>3. GetsNone(h)
    BY <1>1, <1>12 DEF Skip, GetsNone, WillPost, MayTake, ArticlesOf, RunsHold, HarvestHolds,
       BatchesTypeOK, HarvestState, Is, Now, Held
  <2> QED BY <1>1, <2>1, <2>2, <2>3, KeptOn, NoneGot DEF PostsInv
<1>13. ASSUME NEW h \in Harvest, PutInBucket(h)
      PROVE  PostsInv'
  <2> DEFINE r == harvest[h]
  <2>1. /\ OnlyRun(h) /\ r \in HarvestState /\ HarvestHolds(h)
        /\ r.at = "move" /\ bucket' = bucket \cup {r.on}
    BY <1>1, <1>13 DEF PutInBucket, OnlyRun, Lasting, RunsHold, BatchesTypeOK, HarvestHolds, Is, Now
  <2>2. /\ harvest'[h].got = r.got \cup {r.on} /\ harvest'[h].failures = r.failures /\ harvest'[h].ready = r.ready
        /\ \/ feed = "elsevier" /\ harvest'[h].at = "take"
           \/ feed = "desy" /\ harvest'[h].at = "moved" /\ harvest'[h].on = r.on
    BY <1>1, <1>13 DEF PutInBucket, RunsHold, BatchesTypeOK, HarvestState, Now, Feed
  <2>3. LetsGoOfNone(h)
    BY <1>13, <2>1, <2>2 DEF PutInBucket, LetsGoOfNone, Keeps, Is, Held
  <2>4. ASSUME NEW a \in Article \ repeated'
        PROVE  OneBatch(a)' /\ PostedAtMostOnce(a)' /\ OnePosts(a)'
    <3>1. OneBatch(a) /\ PostedAtMostOnce(a) /\ OnePosts(a)
      BY <1>13, <2>4 DEF PutInBucket, PostsInv, NoneTwice
    <3>2. OneBatch(a)'
      BY <1>13, <2>1, <3>1 DEF PutInBucket, OneBatch, HarvestHolds
    <3>3. (WillPost(h, a)' => WillPost(h, a) \/ MayTake(h, a)) /\ ~MayTake(h, a)'
      BY <1>13, <2>1, <2>2 DEF PutInBucket, WillPost, MayTake, Is, ArticlesOf
    <3>4. \A o \in Harvest \ {h} : (WillPost(o, a)' <=> WillPost(o, a)) /\ (MayTake(o, a)' <=> MayTake(o, a))
      BY <2>1, SameRun DEF OnlyRun, Lasting
    <3>5. ASSUME MayTake(h, a), NEW o \in Harvest \ {h}
          PROVE  ~MayTake(o, a)
      <4>1. CASE MayTake(o, a)
        <5>1. harvest[o].on = r.on
          BY <1>1, <3>1, <3>5, <4>1 DEF MayTake, Is, OneBatch, RunsHold, HarvestHolds
        <5> QED BY <1>13, <2>4, <3>5, <4>1, <5>1 DEF PutInBucket, MayTake
      <4> QED BY <4>1
    <3>6. a \in ArticlesOf(bucket) => a \in ArticlesOf(bucket)'
      BY <2>1 DEF OnlyRun, Lasting, ArticlesOf
    <3>7. PostedAtMostOnce(a)'
      BY <1>13, <3>1, <3>3, <3>4, <3>6 DEF PutInBucket, PostedAtMostOnce
    <3> QED BY <3>1, <3>2, <3>3, <3>4, <3>5, <3>7 DEF OnePosts
  <2> QED BY <1>1, <2>1, <2>3, <2>4, KeptOn DEF PostsInv, NoneTwice
<1>14. ASSUME NEW h \in Harvest, NEW b \in Batch, Take(h, b)
      PROVE  PostsInv'
  <2> DEFINE r == harvest[h]
  <2>1. OnlyRun(h) /\ r \in HarvestState /\ r.at = "take" /\ b \notin bucket
    BY <1>1, <1>14 DEF Take, OnlyRun, Lasting, RunsHold, BatchesTypeOK, Is, Now, IsThere
  <2>2. /\ harvest'[h].got = r.got /\ harvest'[h].failures = r.failures /\ harvest'[h].ready = r.ready
        /\ \/ harvest'[h].at = "take"
           \/ b \in offered /\ harvest'[h].at = "move" /\ harvest'[h].on = b
    <3>1. \/ b \in offered /\ harvest'[h] = [r EXCEPT !.at = "move", !.on = b, !.todo = @ \ {b}]
          \/ harvest'[h] = [r EXCEPT !.todo = @ \ {b}]
      BY <1>1, <1>14 DEF Take, Now, RunsHold, BatchesTypeOK
    <3> QED BY <2>1, <3>1 DEF HarvestState
  <2>3. LetsGoOfNone(h)
    BY <1>14, <2>1, <2>2 DEF Take, LetsGoOfNone, Keeps, Is, Held
  <2>4. ASSUME NEW a \in Article \ repeated'
        PROVE  OneBatch(a)' /\ PostedAtMostOnce(a)' /\ OnePosts(a)'
    <3>1. OneBatch(a) /\ PostedAtMostOnce(a) /\ OnePosts(a)
      BY <1>14, <2>4 DEF Take, PostsInv, NoneTwice
    <3>2. OneBatch(a)' /\ (a \in ArticlesOf(bucket) <=> a \in ArticlesOf(bucket)')
      BY <1>14, <3>1 DEF Take, OneBatch, ArticlesOf
    <3>3. WillPost(h, a)' <=> WillPost(h, a)
      BY <1>14, <2>1, <2>2 DEF Take, WillPost, Is, ArticlesOf
    <3>4. \A o \in Harvest \ {h} : (WillPost(o, a)' <=> WillPost(o, a)) /\ (MayTake(o, a)' <=> MayTake(o, a))
      BY <2>1, SameRun DEF OnlyRun, Lasting
    <3>5. ASSUME MayTake(h, a)'
          PROVE  a \notin ArticlesOf(bucket)
      BY <1>14, <2>1, <2>2, <3>1, <3>5 DEF Take, MayTake, Is, OneBatch, ArticlesOf
    <3>6. \A o \in Harvest : WillPost(o, a) => a \in ArticlesOf(bucket)
      BY <1>1 DEF WillPost, Is, ArticlesOf, RunsHold, HarvestHolds
    <3>7. PostedAtMostOnce(a)'
      BY <1>14, <3>1, <3>2, <3>3, <3>4, <3>5 DEF Take, PostedAtMostOnce
    <3> QED BY <3>1, <3>2, <3>3, <3>4, <3>5, <3>6, <3>7 DEF OnePosts
  <2> QED BY <1>1, <2>1, <2>3, <2>4, KeptOn DEF PostsInv, NoneTwice
<1>15. ASSUME NEW h \in Harvest, NEW p \in Article, Post(h, p)
      PROVE  PostsInv'
  <2> DEFINE r == harvest[h]
  <2>1. OnlyRun(h) /\ r \in HarvestState /\ r.at = "load" /\ p \in r.load /\ HarvestHolds(h)
    BY <1>1, <1>15 DEF Post, OnlyRun, Lasting, RunsHold, BatchesTypeOK, Is, Now
  <2>2. /\ harvest'[h].got = r.got /\ harvest'[h].ready = r.ready /\ harvest'[h].at = "load"
        /\ \/ /\ harvest'[h].load = r.load \ {p} /\ harvest'[h].failures = r.failures \cup {p}
              /\ UNCHANGED <<posted, repeated>>
           \/ /\ harvest'[h].load = r.load \ {p} /\ harvest'[h].failures = r.failures
              /\ posted' = [posted EXCEPT ![p] = MoreThan(@)] /\ repeated' = repeated
           \/ /\ harvest'[h] = r
              /\ posted' = [posted EXCEPT ![p] = MoreThan(@)] /\ repeated' = repeated \cup {p}
    <3>1. \/ /\ harvest'[h] = [r EXCEPT !.load = @ \ {p}, !.failures = @ \cup {p}]
             /\ UNCHANGED <<posted, repeated>>
          \/ /\ harvest'[h] = [r EXCEPT !.load = @ \ {p}]
             /\ posted' = [posted EXCEPT ![p] = MoreThan(@)] /\ repeated' = repeated
          \/ /\ harvest'[h] = r
             /\ posted' = [posted EXCEPT ![p] = MoreThan(@)] /\ repeated' = repeated \cup {p}
      BY <1>1, <1>15 DEF Post, Now, RunsHold, BatchesTypeOK
    <3> QED BY <2>1, <3>1 DEF HarvestState
  <2>3. posted[p] \in 0..2 /\ \A a \in Article \ {p} : posted'[a] = posted[a]
    BY <1>1, <2>2 DEF RunsHold, BatchesTypeOK
  <2>4. posted' = posted \/ posted'[p] = IF posted[p] = 2 THEN 2 ELSE posted[p] + 1
    BY <1>1, <2>2 DEF MoreThan, RunsHold, BatchesTypeOK
  <2>5. LetsGoOfNone(h)
    <3> SUFFICES ASSUME NEW b \in bucket, NEW a \in Article, posted'[a] = 0, Keeps(h, b, a)
                 PROVE  Keeps(h, b, a)' /\ posted[a] = 0
      BY <1>15, <2>3, <2>4 DEF Post, LetsGoOfNone
    <3>1. \/ /\ harvest'[h].load = r.load \ {p} /\ harvest'[h].failures = r.failures \cup {p}
             /\ UNCHANGED posted
          \/ posted'[p] # 0
      BY <1>1, <2>2, <2>3 DEF MoreThan, RunsHold, BatchesTypeOK
    <3>2. CASE posted'[p] # 0
      BY <2>1, <2>2, <2>3, <3>2 DEF Keeps, Is, Held
    <3>3. CASE posted'[p] = 0
      BY <2>1, <2>2, <3>1, <3>3 DEF Keeps, Is, Held
    <3> QED BY <2>3, <3>1, <3>2, <3>3
  <2>6. ASSUME NEW a \in Article \ repeated'
        PROVE  OneBatch(a)' /\ PostedAtMostOnce(a)' /\ OnePosts(a)'
    <3>1. OneBatch(a) /\ PostedAtMostOnce(a) /\ OnePosts(a)
      BY <2>2, <2>6 DEF PostsInv, NoneTwice
    <3>2. OneBatch(a)' /\ (a \in ArticlesOf(bucket) <=> a \in ArticlesOf(bucket)')
      BY <1>15, <3>1 DEF Post, OneBatch, ArticlesOf
    <3>3. (WillPost(h, a)' => WillPost(h, a)) /\ ~MayTake(h, a)'
      BY <1>15, <2>1, <2>2 DEF Post, WillPost, MayTake, Is
    <3>4. \A o \in Harvest \ {h} : (WillPost(o, a)' <=> WillPost(o, a)) /\ (MayTake(o, a)' <=> MayTake(o, a))
      BY <2>1, SameRun DEF OnlyRun, Lasting
    <3>5. CASE posted'[a] = posted[a]
      BY <3>1, <3>2, <3>3, <3>4, <3>5 DEF PostedAtMostOnce, OnePosts
    <3>6. CASE posted'[a] # posted[a]
      <4>1. a = p /\ WillPost(h, a) /\ ~WillPost(h, a)'
        BY <1>15, <2>1, <2>2, <2>3, <2>6, <3>6 DEF Post, WillPost, Is
      <4>2. posted[a] = 0 /\ posted'[a] = 1 /\ a \in ArticlesOf(bucket)
        BY <2>1, <2>3, <2>4, <3>1, <3>6, <4>1 DEF PostedAtMostOnce, HarvestHolds
      <4> QED BY <3>1, <3>2, <3>3, <3>4, <4>1, <4>2 DEF PostedAtMostOnce, OnePosts
    <3> QED BY <3>5, <3>6
  <2> QED BY <1>1, <2>1, <2>5, <2>6, KeptOn DEF PostsInv, NoneTwice
<1>16. CASE UNCHANGED batchVars
  BY <1>1, <1>16 DEF batchVars, PostsInv, NoneLeftOut, NoneTwice, Keeps, WillPost, MayTake, Is, Held,
     OneBatch, PostedAtMostOnce, OnePosts, ArticlesOf
<1> QED
  BY <1>2, <1>3, <1>4, <1>5, <1>6, <1>7, <1>8, <1>9, <1>10, <1>11, <1>12, <1>13, <1>14, <1>15, <1>16
  DEF BatchesNext

\* The invariant holds throughout.
LEMMA PostsInvariant == BatchesSpec => []PostsInv
<1>1. BatchesInit => PostsInv
  BY DEF BatchesInit, PostsInv, RunsHold, BatchesTypeOK, HarvestHolds, HarvestState, NoHarvest, ArticlesOf,
     NoneLeftOut, NoneTwice, OneBatch, PostedAtMostOnce, OnePosts, WillPost, Is
<1> QED BY <1>1, PostsStep, PTL DEF BatchesSpec

\* The types of the harvests of batches.
THEOREM BatchesTypeCorrect == BatchesSpec => []BatchesTypeOK
<1>1. PostsInv => BatchesTypeOK
  BY DEF PostsInv, RunsHold
<1> QED BY <1>1, PostsInvariant, PTL

\* No article of a batch in the bucket is left out untold, and none is posted
\* twice without a reason, whatever runs do side by side and where they fail.
THEOREM ArticlesPostedOnce == BatchesSpec => []PostedOnce
<1>1. PostsInv => PostedOnce
  <2> SUFFICES ASSUME PostsInv, NEW a \in Article
               PROVE  /\ posted[a] = 0 => \A b \in bucket : a \in articles[b] => b \in told \/ Underway(b, a)
                      /\ posted[a] = 2 => a \in repeated
    BY DEF PostedOnce
  <2>1. ASSUME NEW b \in bucket \ told, a \in articles[b], posted[a] = 0
        PROVE  Underway(b, a)
    BY <2>1 DEF PostsInv, NoneLeftOut, Keeps, Underway
  <2> QED BY <2>1 DEF PostsInv, NoneTwice, PostedAtMostOnce
<1> QED BY <1>1, PostsInvariant, PTL

-----------------------------------------------------------------------------
(* Updates, batches and windows together                                   *)

\* A behaviour of the parts, as MCIncoming puts them together, is a behaviour
\* of each: what is proved of one holds there too.
THEOREM IncomingPartsAreParts == PartsSpec => UpdatesSpec /\ BatchesSpec /\ WindowsSpec
<1>1. PartsInit => UpdatesInit /\ BatchesInit /\ WindowsInit
  BY DEF PartsInit
<1>2. [PartsNext]_partVars => [UpdatesNext]_updatesVars
  BY DEF PartsNext, partVars
<1>3. [PartsNext]_partVars => [BatchesNext]_batchVars
  BY DEF PartsNext, partVars
<1>4. [PartsNext]_partVars => [WindowsNext]_windowVars
  BY DEF PartsNext, partVars
<1> QED BY <1>1, <1>2, <1>3, <1>4, PTL DEF PartsSpec, UpdatesSpec, BatchesSpec, WindowsSpec

\* The types of all parts, there too.
THEOREM IncomingPartsTypes == PartsSpec => []TypesOK
<1>1. UpdatesTypeOK /\ BatchesTypeOK /\ WindowsTypeOK => TypesOK
  BY DEF TypesOK
<1> QED
  BY <1>1, IncomingPartsAreParts, UpdatesTypes, BatchesTypeCorrect, WindowsTypeCorrect, PTL
=============================================================================
