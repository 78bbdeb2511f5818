---------------------------- MODULE HarvestBatches ----------------------------
(***************************************************************************)
(* Harvests of batches that a publisher delivers: packages of Elsevier,    *)
(* and directories of DESY.  An hourly run takes the batches that are not  *)
(* in the bucket yet, by putting them there, and posts their articles as   *)
(* workflows.  A batch counts as done as soon as it is in the bucket, so   *)
(* a run that fails in between leaves it to an operator.                   *)
(*                                                                         *)
(* Sources, under src/workflows/: dags/literature/elsevier_harvest.py and  *)
(* desy_harvest.py, check_failures_task.py, and what they call of          *)
(* plugins/.  What a file or an article looks like is left out: reading,   *)
(* parsing or posting it may fail.                                         *)
(***************************************************************************)
EXTENDS Naturals, FiniteSets

CONSTANTS
  Batch,        \* packages, or directories
  Article,      \* what the workflows are about
  Harvest,      \* runs of the DAG
  NoBatch       \* no batch

ASSUME BatchesAssumption == NoBatch \notin Batch

VARIABLES
  feed,         \* which DAG it is
  articles,     \* the articles of each batch
  offered,      \* batches in the feed, or in the input bucket
  bucket,       \* batches in the bucket
  harvest,      \* the runs
  posted,       \* how often each article was posted (2: more than once)
  told,         \* history: batches of a run that failed
  repeated      \* history: articles that something may have posted again

batchVars == <<feed, articles, offered, bucket, harvest, posted, told, repeated>>

Feed == {"elsevier", "desy"}

\* "todo" are the batches a task has still to look at and "on" the one it works
\* on, "got" those it has taken, "load" the articles it has still to post.
\* "ready" is what the first task of Elsevier hands to the second.
HarvestState ==
  [at : {"none", "take", "move", "moved", "load", "check", "done", "failed"},
   task : {"take", "load", "check"},
   todo : SUBSET Batch, on : Batch \cup {NoBatch}, got : SUBSET Batch,
   ready : SUBSET Batch, load : SUBSET Article, failures : SUBSET Article]

NoHarvest == [at |-> "none", task |-> "take", todo |-> {}, on |-> NoBatch, got |-> {},
              ready |-> {}, load |-> {}, failures |-> {}]

BatchesTypeOK ==
  /\ feed \in Feed /\ articles \in [Batch -> SUBSET Article]
  /\ offered \subseteq Batch /\ bucket \subseteq Batch
  /\ harvest \in [Harvest -> HarvestState]
  /\ posted \in [Article -> 0..2]
  /\ told \subseteq Batch /\ repeated \subseteq Article

BatchesInit ==
  /\ feed \in Feed
  /\ articles \in [Batch -> SUBSET Article]
  /\ offered = {} /\ bucket = {}
  /\ harvest = [h \in Harvest |-> NoHarvest]
  /\ posted = [a \in Article |-> 0]
  /\ told = {} /\ repeated = {}

Is(h, place) == harvest[h].at = place
Now(h, state) == harvest' = [harvest EXCEPT ![h] = state]
ArticlesOf(S) == UNION {articles[b] : b \in S}

\* What a run that stops now has taken, or was about to post.
Held(h) == harvest[h].got \cup harvest[h].ready
Stopped(h) == [harvest[h] EXCEPT !.at = "failed", !.on = NoBatch, !.todo = {}, !.load = {}]

-----------------------------------------------------------------------------
(* Taking batches                                                          *)

\* The publisher delivers a batch.  An article may come in several.
Offer(b) ==
  /\ b \notin offered \cup bucket
  /\ offered' = offered \cup {b}
  /\ repeated' = repeated \cup (articles[b] \cap ArticlesOf((offered \cup bucket) \ {b}))
  /\ UNCHANGED <<feed, articles, bucket, harvest, posted, told>>

\* fetch_package_feed, and the prefixes of the input bucket.
StartHarvest(h) ==
  /\ Is(h, "none") /\ offered # {}
  /\ Now(h, [NoHarvest EXCEPT !.at = "take", !.todo = offered])
  /\ UNCHANGED <<feed, articles, offered, bucket, posted, told, repeated>>

\* check_for_key and list_keys: what is in the bucket is skipped.
NeverThere(b) == FALSE                       \* mutant: nothing is skipped
IsThere(b) == b \in bucket
Skip(h, b) ==
  /\ Is(h, "take") /\ b \in harvest[h].todo /\ IsThere(b)
  /\ Now(h, [harvest[h] EXCEPT !.todo = @ \ {b}])
  /\ UNCHANGED <<feed, articles, offered, bucket, posted, told, repeated>>

\* The package is requested, or the list of records is read (the task fails when
\* another run has moved it).  A download that fails is left to the next run.
Take(h, b) ==
  /\ Is(h, "take") /\ b \in harvest[h].todo /\ ~IsThere(b)
  /\ \/ b \in offered /\ Now(h, [harvest[h] EXCEPT !.at = "move", !.on = b, !.todo = @ \ {b}])
     \/ feed = "elsevier" /\ Now(h, [harvest[h] EXCEPT !.todo = @ \ {b}])
  /\ UNCHANGED <<feed, articles, offered, bucket, posted, told, repeated>>

\* load_file_obj, or the copies of the files: two runs that have both not found
\* the batch there may come to it, and post what is in it.
PutInBucket(h) ==
  LET b == harvest[h].on IN
  /\ Is(h, "move")
  /\ bucket' = bucket \cup {b}
  /\ repeated' = repeated \cup
       {a \in articles[b] : \E o \in Harvest \ {h} : Is(o, "move") /\ harvest[o].on = b}
  /\ Now(h, IF feed = "elsevier"
            THEN [harvest[h] EXCEPT !.at = "take", !.on = NoBatch, !.got = @ \cup {b}]
            ELSE [harvest[h] EXCEPT !.at = "moved", !.got = @ \cup {b}])
  /\ UNCHANGED <<feed, articles, offered, posted, told>>

\* DESY: the files are deleted, and the articles of this batch are posted next.
DeleteInput(h) ==
  LET b == harvest[h].on IN
  /\ Is(h, "moved")
  /\ offered' = offered \ {b}
  /\ Now(h, [harvest[h] EXCEPT !.at = "load", !.on = NoBatch, !.load = articles[b]])
  /\ UNCHANGED <<feed, articles, bucket, posted, told, repeated>>

\* Elsevier: the list of what was downloaded is written for the next task.
HandOver(h) ==
  /\ feed = "elsevier" /\ Is(h, "take") /\ harvest[h].todo = {}
  /\ Now(h, [harvest[h] EXCEPT !.at = "load", !.task = "load", !.got = {},
               !.ready = harvest[h].got, !.load = ArticlesOf(harvest[h].got)])
  /\ UNCHANGED <<feed, articles, offered, bucket, posted, told, repeated>>

-----------------------------------------------------------------------------
(* Posting articles                                                        *)

MoreThan(n) == IF n = 2 THEN 2 ELSE n + 1

\* post_workflow is repeated when it gets no answer; in the end an article that
\* failed is on the list of failures.
Post(h, a) ==
  /\ Is(h, "load") /\ a \in harvest[h].load
  /\ \/ /\ posted' = [posted EXCEPT ![a] = MoreThan(@)]
        /\ \/ Now(h, [harvest[h] EXCEPT !.load = @ \ {a}]) /\ UNCHANGED repeated
           \/ UNCHANGED harvest /\ repeated' = repeated \cup {a}
     \/ /\ Now(h, [harvest[h] EXCEPT !.load = @ \ {a}, !.failures = @ \cup {a}])
        /\ UNCHANGED <<posted, repeated>>
  /\ UNCHANGED <<feed, articles, offered, bucket, told>>

\* DESY: the next directory.
NextDirectory(h) ==
  /\ feed = "desy" /\ Is(h, "load") /\ harvest[h].load = {}
  /\ Now(h, [harvest[h] EXCEPT !.at = "take"])
  /\ UNCHANGED <<feed, articles, offered, bucket, posted, told, repeated>>

\* The failures are written for check_failures.
WriteFailures(h) ==
  /\ \/ feed = "desy" /\ Is(h, "take") /\ harvest[h].todo = {}
     \/ feed = "elsevier" /\ Is(h, "load") /\ harvest[h].load = {}
  /\ Now(h, [harvest[h] EXCEPT !.at = "check", !.task = "check"])
  /\ UNCHANGED <<feed, articles, offered, bucket, posted, told, repeated>>

CheckFailures(h) ==
  /\ Is(h, "check")
  /\ \/ harvest[h].failures # {} /\ Now(h, Stopped(h)) /\ told' = told \cup Held(h)
     \/ harvest[h].failures = {} /\ Now(h, [NoHarvest EXCEPT !.at = "done"]) /\ UNCHANGED told
  /\ UNCHANGED <<feed, articles, offered, bucket, posted, repeated>>

-----------------------------------------------------------------------------
(* Failed and repeated tasks                                               *)

\* A worker dies, S3 fails, a package cannot be read, a directory is gone, or
\* the harvest is not what it should be: the run fails, which is notified.
StopHarvest(h) ==
  /\ harvest[h].at \in {"take", "move", "moved", "load", "check"}
  /\ Now(h, Stopped(h))
  /\ told' = told \cup Held(h)
  /\ UNCHANGED <<feed, articles, offered, bucket, posted, repeated>>

\* A directory may be copied in part when its run fails.
StopCopying(h) ==
  /\ feed = "desy" /\ Is(h, "move") /\ harvest[h].on \in offered
  /\ bucket' = bucket \cup {harvest[h].on}
  /\ told' = told \cup Held(h) \cup {harvest[h].on}
  /\ Now(h, Stopped(h))
  /\ UNCHANGED <<feed, articles, offered, posted, repeated>>

\* An operator clears the failed task, which begins again: it finds the batches
\* it has taken before in the bucket, and skips them.
ClearTask(h) ==
  LET t == harvest[h].task IN
  /\ Is(h, "failed")
  /\ \/ /\ t = "take"
        /\ Now(h, [NoHarvest EXCEPT !.at = "take", !.todo = offered])
        /\ UNCHANGED repeated
     \/ /\ t = "load"
        /\ Now(h, [harvest[h] EXCEPT !.at = "load", !.failures = {},
                                     !.load = ArticlesOf(harvest[h].ready)])
        /\ repeated' = repeated \cup ArticlesOf(harvest[h].ready)
     \/ /\ t = "check"
        /\ Now(h, [harvest[h] EXCEPT !.at = "check"])
        /\ UNCHANGED repeated
  /\ UNCHANGED <<feed, articles, offered, bucket, posted, told>>

-----------------------------------------------------------------------------

BatchesNext ==
  \/ \E b \in Batch : Offer(b)
  \/ \E h \in Harvest :
       \/ StartHarvest(h) \/ PutInBucket(h) \/ DeleteInput(h) \/ HandOver(h)
       \/ NextDirectory(h) \/ WriteFailures(h) \/ CheckFailures(h)
       \/ StopHarvest(h) \/ StopCopying(h) \/ ClearTask(h)
       \/ \E b \in Batch : Skip(h, b) \/ Take(h, b)
       \/ \E a \in Article : Post(h, a)

BatchesSpec == BatchesInit /\ [][BatchesNext]_batchVars

-----------------------------------------------------------------------------
(* Properties                                                              *)

\* A run that still has the batch and will post the article, or report it.
Underway(b, a) ==
  \E h \in Harvest :
    \/ harvest[h].at \in {"take", "move"} /\ feed = "elsevier" /\ b \in harvest[h].got
    \/ Is(h, "moved") /\ harvest[h].on = b
    \/ Is(h, "load") /\ a \in harvest[h].load
    \/ a \in harvest[h].failures

\* No article of a batch that is in the bucket is left out without a run that
\* has failed and tells so; and none is posted twice by the hourly runs, unless
\* two batches have it, two runs took it side by side, an answer was lost, or an
\* operator had a task done again.
PostedOnce ==
  \A a \in Article :
    /\ posted[a] = 0 =>
         \A b \in bucket : a \in articles[b] =>
           b \in told \/ Underway(b, a)
    /\ posted[a] = 2 => a \in repeated
=============================================================================
