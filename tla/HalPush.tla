------------------------------ MODULE HalPush ------------------------------
(***************************************************************************)
(* A paper pushed to HAL: src/backend/inspirehep/hal/.  An update sends a  *)
(* task before it commits.  The task loads the paper, waits for the lock   *)
(* of the paper, updates the deposit or creates it, and writes the id of a *)
(* new deposit back to the paper, which curators edit meanwhile.           *)
(***************************************************************************)
EXTENDS Naturals, Sequences

CONSTANTS
  Ext,           \* identifiers of the paper in systems other than HAL
  Pusher,        \* workers of the queue hal_push
  PaperVersions  \* bound on the versions of the paper

ASSUME VersionsAssumption == PaperVersions \in Nat \ {0}

VARIABLES
  paper,         \* the committed versions
  draft,         \* the version an update has flushed and will commit, if any
  pushes,        \* tasks to run, by the version they were sent for
  pusher,        \* what each worker does
  deposit,       \* HAL: the text of the deposit; 0 if there is none
  wrong          \* history: why paper and deposit may differ

halVars == <<paper, draft, pushes, pusher, deposit, wrong>>

\* "text" stands for all that is sent to HAL, by the version that wrote it;
\* "ids" and "hal" are external_system_identifiers; "edited": not by a push.
Paper == [text : Nat, ids : SUBSET Ext, hal : BOOLEAN, edited : BOOLEAN]

\* "base" is the version the paper was loaded at, "seen" the one whose
\* identifiers are written back.
PusherState ==
  [at : {"idle", "loaded", "locked", "answered", "reloaded"}, task : Nat, base : Nat, seen : Nat]
NoPush == [at |-> "idle", task |-> 0, base |-> 0, seen |-> 0]

\* An older push ended after a newer one; a push was given up; identifiers were
\* written back over those of an edit.
Cause == {"overtaken", "given up", "overwritten"}

HalTypeOK ==
  /\ paper \in Seq(Paper) /\ Len(paper) \in 1..PaperVersions
  /\ draft \in SUBSET Paper
  /\ pushes \subseteq 1..PaperVersions
  /\ pusher \in [Pusher -> PusherState]
  /\ deposit \in 0..PaperVersions
  /\ wrong \subseteq Cause

HalInit ==
  /\ paper = <<[text |-> 1, ids |-> {}, hal |-> FALSE, edited |-> TRUE]>>
  /\ draft = {} /\ pushes = {1}
  /\ pusher = [j \in Pusher |-> NoPush]
  /\ deposit = 0 /\ wrong = {}

Current == paper[Len(paper)]

-----------------------------------------------------------------------------
(* Updates                                                                 *)

\* The row is locked from the flush to the commit; push_to_hal is between them.
EditPaper ==
  /\ draft = {} /\ Len(paper) < PaperVersions
  /\ \E ids \in SUBSET Ext, hal \in {FALSE, Current.hal} :
       draft' = {[text |-> Len(paper) + 1, ids |-> ids, hal |-> hal, edited |-> TRUE]}
  /\ pushes' = pushes \cup {Len(paper) + 1}
  /\ UNCHANGED <<paper, pusher, deposit, wrong>>

CommitPaper ==
  /\ \E d \in draft : paper' = Append(paper, d)
  /\ draft' = {}
  /\ wrong' = wrong \ {"overwritten"}
  /\ UNCHANGED <<pushes, pusher, deposit>>

RollbackPaper ==
  /\ draft # {} /\ draft' = {}
  /\ UNCHANGED <<paper, pushes, pusher, deposit, wrong>>

-----------------------------------------------------------------------------
(* hal_push                                                                *)

Pushing(j, at) == pusher[j].at = at
GoOn(j, state) == pusher' = [pusher EXCEPT ![j] = state]
Sent(j) == paper[pusher[j].seen]

\* A task ahead of its commit is retried, unchanged.
LoadPaper(j) ==
  /\ Pushing(j, "idle")
  /\ \E v \in pushes :
       /\ v <= Len(paper)
       /\ pushes' = pushes \ {v}
       /\ GoOn(j, [at |-> "loaded", task |-> v, base |-> Len(paper), seen |-> Len(paper)])
  /\ UNCHANGED <<paper, draft, deposit, wrong>>

\* distributed_lock: what is sent was loaded before the wait.
LockPaper(j) ==
  /\ Pushing(j, "loaded")
  /\ \A k \in Pusher : pusher[k].at \in {"idle", "loaded"}
  /\ GoOn(j, [pusher[j] EXCEPT !.at = "locked"])
  /\ UNCHANGED <<paper, draft, pushes, deposit, wrong>>

\* HAL has the deposit as it was sent.
Deposited(j) ==
  /\ deposit' = Sent(j).text
  /\ wrong' = IF Sent(j).text < deposit THEN wrong \cup {"overtaken"}
              ELSE IF Sent(j).text = Current.text THEN wrong \ {"overtaken"}
              ELSE wrong

\* _hal_update, or _hal_create, which HAL refuses for a paper that it has, naming
\* the deposit, so that it is updated.  The receipt has its id either way.
Answer(j) ==
  /\ Pushing(j, "locked")
  /\ Deposited(j)
  /\ GoOn(j, [pusher[j] EXCEPT !.at = "answered"])
  /\ UNCHANGED <<paper, draft, pushes>>

\* The end of the task; the lock of the editor that it removes is advisory.
EndPush(j) ==
  /\ GoOn(j, NoPush)
  /\ UNCHANGED <<draft, pushes, deposit>>
Succeeded(j) == IF draft = {} /\ Sent(j).text = Current.text THEN wrong \ {"given up"} ELSE wrong

KeepId(j) ==
  /\ Pushing(j, "answered") /\ Sent(j).hal
  /\ EndPush(j) /\ wrong' = Succeeded(j)
  /\ UNCHANGED paper

\* _write_hal_id_to_record: the update waits for the row, and succeeds if the
\* paper is as it was loaded.
Unchanged(j) == pusher[j].base = Len(paper)
SentAgain(j) == [Sent(j) EXCEPT !.hal = TRUE, !.edited = FALSE]  \* mutant: not reloaded
WithId(j) == [Current EXCEPT !.ids = Sent(j).ids, !.hal = TRUE, !.edited = FALSE]

WriteId(j) ==
  /\ pusher[j].at \in {"answered", "reloaded"} /\ ~Sent(j).hal
  /\ draft = {} /\ Unchanged(j) /\ Len(paper) < PaperVersions
  /\ paper' = Append(paper, WithId(j))
  /\ wrong' = Succeeded(j) \cup
       (IF Current.ids # Sent(j).ids THEN {"overwritten"} ELSE {})
  /\ EndPush(j)

\* StaleDataError: the paper is loaded again, and the identifiers that were
\* computed from the old one are put into it; the second time it is raised.
Reload(j) ==
  /\ Pushing(j, "answered") /\ ~Sent(j).hal
  /\ draft = {} /\ ~Unchanged(j)
  /\ GoOn(j, [pusher[j] EXCEPT !.at = "reloaded", !.base = Len(paper)])
  /\ UNCHANGED <<paper, draft, pushes, deposit, wrong>>

RetryPush(j) ==
  /\ pushes' = pushes \cup {pusher[j].task}
  /\ GoOn(j, NoPush)
  /\ UNCHANGED <<paper, draft>>

StaleAgain(j) ==
  /\ Pushing(j, "reloaded") /\ draft = {} /\ ~Unchanged(j)
  /\ RetryPush(j) /\ UNCHANGED <<deposit, wrong>>

-----------------------------------------------------------------------------
(* Failures                                                                *)

\* RequestTimeOut of an update, which HAL may have carried out.
TimeOut(j) ==
  /\ Pushing(j, "locked") /\ Sent(j).hal
  /\ Deposited(j) \/ UNCHANGED <<deposit, wrong>>
  /\ RetryPush(j)

\* Anything else the task is retried for: the database, the index.
Disturb(j) ==
  /\ ~Pushing(j, "idle")
  /\ RetryPush(j) /\ UNCHANGED <<deposit, wrong>>

\* A creation that failed or timed out becomes a HALCreateException, which is
\* not retried, whether HAL has carried it out or not; the retries are over, or
\* the worker is killed.
GiveUpPush(j) ==
  /\ ~Pushing(j, "idle")
  /\ \/ /\ Pushing(j, "locked")
        /\ deposit' = Sent(j).text
     \/ UNCHANGED deposit
  /\ wrong' = wrong \cup {"given up"}
  /\ GoOn(j, NoPush)
  /\ UNCHANGED <<paper, draft, pushes>>

\* The retries of a task ahead of its commit are over.
DropPush(v) ==
  /\ v \in pushes /\ v > Len(paper)
  /\ pushes' = pushes \ {v}
  /\ wrong' = IF draft = {} THEN wrong ELSE wrong \cup {"given up"}
  /\ UNCHANGED <<paper, draft, pusher, deposit>>

HalNext ==
  \/ EditPaper \/ CommitPaper \/ RollbackPaper
  \/ \E j \in Pusher :
       \/ LoadPaper(j) \/ LockPaper(j) \/ Answer(j) \/ KeepId(j) \/ WriteId(j)
       \/ Reload(j) \/ StaleAgain(j) \/ TimeOut(j) \/ Disturb(j) \/ GiveUpPush(j)
  \/ \E v \in pushes : DropPush(v)

HalSpec == HalInit /\ [][HalNext]_halVars

-----------------------------------------------------------------------------
(* Properties                                                              *)

Pushed == draft = {} /\ pushes = {} /\ \A j \in Pusher : Pushing(j, "idle")
LastEdit == paper[CHOOSE v \in 1..Len(paper) :
                    paper[v].edited /\ \A u \in (v + 1)..Len(paper) : ~paper[u].edited]

\* A push changes nothing that curators wrote, except the identifiers of an edit
\* that it met; and when all pushes are over HAL has the paper as it is, and the
\* paper names its deposit, unless one was given up or an older one came last.
HalAgrees ==
  /\ Current.text = LastEdit.text
  /\ "overwritten" \notin wrong => Current.ids = LastEdit.ids
  /\ Pushed /\ wrong \cap {"overtaken", "given up"} = {} =>
       Current.hal /\ deposit = Current.text
=============================================================================
