----------------------------- MODULE RecordPids -----------------------------
(***************************************************************************)
(* Records of the backend, their control-number PIDs, the external         *)
(* identifiers they own, and the redirections that merging records leaves  *)
(* behind: records/api/base.py, pidstore/minters/base.py,                  *)
(* pidstore/models.py.                                                     *)
(*                                                                         *)
(* A record is named by its control number (its uuid is one-to-one with    *)
(* it, and goes away with it in hard_delete).  A database transaction      *)
(* loads one record, and with it the record's PID, and later commits one   *)
(* operation on it.  Between the two other transactions commit: what was   *)
(* loaded stays in the session's identity map, and the version_id column   *)
(* of records_metadata is what detects that it is stale.  The other        *)
(* records an operation touches (deleted_records) are read by the          *)
(* operation itself and written by it under the same version check, so     *)
(* they are read and written in one step here.                             *)
(***************************************************************************)
EXTENDS Naturals

CONSTANTS
  Recid,        \* control numbers
  ExtId,        \* external identifiers (arXiv numbers, DOIs, texkeys ...)
  Txn,          \* concurrent database sessions
  PidType,      \* "lit", "aut", ...
  TypeOf,       \* the PID type of each control number
  NoRecid,      \* no control number: SQL NULL, or "not in the table"
  MaxVersion    \* bound on version_id, for model checking only

ASSUME RecidAssumption == NoRecid \notin Recid
ASSUME TypeAssumption == TypeOf \in [Recid -> PidType]
ASSUME VersionAssumption == MaxVersion \in Nat

VARIABLES
  status,       \* pidstore_pid.status of each control number
  redirect,     \* inspire_pidstore_redirect: original_pid -> new_pid
  owner,        \* pidstore_pid rows of external ids: the record owning each
  life,         \* records_metadata: no row, a live record, a deleted one
  ids,          \* the external ids in the record's JSON
  version,      \* records_metadata.version_id
  snap          \* what each open session loaded

vars == <<status, redirect, owner, life, ids, version, snap>>

PidStatus == {"absent", "registered", "deleted", "redirected"}
Life == {"none", "live", "deleted"}

Idle == [rec |-> NoRecid, version |-> 0, status |-> "absent", life |-> "none"]
Snapshot == [rec : Recid \cup {NoRecid}, version : Nat,
             status : PidStatus, life : Life]

TypeOK ==
  /\ status \in [Recid -> PidStatus]
  /\ redirect \in [Recid -> Recid \cup {NoRecid}]
  /\ owner \in [ExtId -> Recid \cup {NoRecid}]
  /\ life \in [Recid -> Life]
  /\ ids \in [Recid -> SUBSET ExtId]
  /\ version \in [Recid -> Nat]
  /\ snap \in [Txn -> Snapshot]

Init ==
  /\ status = [p \in Recid |-> "absent"]
  /\ redirect = [p \in Recid |-> NoRecid]
  /\ owner = [x \in ExtId |-> NoRecid]
  /\ life = [p \in Recid |-> "none"]
  /\ ids = [p \in Recid |-> {}]
  /\ version = [p \in Recid |-> 0]
  /\ snap = [t \in Txn |-> Idle]

-----------------------------------------------------------------------------
(* Helpers: one per function of the code that an operation calls.          *)

\* A fault of DeletedStatus: the status is cleared where it should be set.
DeletedStatusUnset(s) == IF s = "redirected" THEN "redirected" ELSE NoRecid

\* ControlNumberMinter.delete: a redirected PID keeps its status.
DeletedStatus(s) == IF s = "redirected" THEN "redirected" ELSE "deleted"

\* delete_records_from_deleted_records: the listed records it deletes.
ToDelete(merged) == {d \in merged : status[d] # "absent" /\ life[d] = "live"}

\* redirect_pids: the listed PIDs it redirects (a missing one is skipped).
ToRedirect(merged) == {d \in merged : status[d] # "absent"}

\* The PID table after delete_records_from_deleted_records, where the
\* session sees status s for the PID of its own record r.
StatusSeen(r, s, merged) ==
  [p \in Recid |->
     LET seen == IF p = r THEN s ELSE status[p]
     IN  IF p \in ToDelete(merged) THEN DeletedStatus(seen) ELSE seen]

\* The external ids after delete_records_from_deleted_records freed those of
\* the records it deletes.
OwnerSeen(merged) ==
  [x \in ExtId |->
     IF owner[x] \in ToDelete(merged) THEN NoRecid ELSE owner[x]]

\* Minter.create fails with PIDAlreadyExists on an id of another record.
CanClaim(r, wanted, own) == \A x \in wanted : own[x] \in {NoRecid, r}

\* A fault of Claim: ids the record no longer lists stay with it.
ClaimOnly(r, wanted, own) ==
  [x \in ExtId |-> IF x \in wanted THEN r ELSE own[x]]

\* Minter.update: drop what the record no longer lists, create what it lists.
Claim(r, wanted, own) ==
  [x \in ExtId |-> IF x \in wanted THEN r
                   ELSE IF own[x] = r THEN NoRecid ELSE own[x]]

\* Minter.delete: every external id of the record is removed.
Release(r, own) ==
  [x \in ExtId |-> IF own[x] = r THEN NoRecid ELSE own[x]]

\* A fault of CanRedirect: the status of the new PID is not looked at.
CanRedirectAnywhere(d, r, st) ==
  /\ TypeOf[d] = TypeOf[r]
  /\ st[d] \in {"registered", "deleted", "redirected"}
  /\ redirect[d] # NoRecid => st[d] = "redirected"
  /\ life[d] # "none"

\* Another: the types of the two PIDs are not compared.
CanRedirectAcross(d, r, st) ==
  /\ st[d] \in {"registered", "deleted", "redirected"}
  /\ st[r] = "registered"
  /\ redirect[d] # NoRecid => st[d] = "redirected"
  /\ life[d] # "none"

\* InspireRecord.redirect_pid and InspireRedirect.redirect raise unless the
\* types agree, the new PID is registered, an existing redirection belongs to
\* a redirected PID, and the old record can be loaded.
CanRedirect(d, r, st) ==
  /\ TypeOf[d] = TypeOf[r]
  /\ st[d] \in {"registered", "deleted", "redirected"}
  /\ st[r] = "registered"
  /\ redirect[d] # NoRecid => st[d] = "redirected"
  /\ life[d] # "none"

\* InspireRedirect.redirect: a row is created, or an existing one changed.
Redirections(old, r) == [p \in Recid |-> IF p \in old THEN r ELSE redirect[p]]

\* The rows written by a merge into r: version_id counts one write of each.
BumpVersions(S) ==
  /\ \A p \in S : version[p] < MaxVersion
  /\ version' = [p \in Recid |-> IF p \in S THEN version[p] + 1 ELSE version[p]]

\* The non-deleted branch shared by create and update, for a session that
\* sees status s for the PID of r: delete the merged records, mint, redirect.
WriteLive(r, s, wanted, merged) ==
  LET old == ToRedirect(merged)
      st  == StatusSeen(r, s, merged)
  IN  /\ CanClaim(r, wanted, OwnerSeen(merged))
      /\ \A d \in old : CanRedirect(d, r, st)
      /\ owner' = Claim(r, wanted, OwnerSeen(merged))
      /\ status' = [p \in Recid |-> IF p \in old THEN "redirected"
                                    ELSE IF p = r THEN st[r] ELSE status[p]]
      /\ redirect' = Redirections(old, r)
      /\ life' = [p \in Recid |-> IF p = r THEN "live"
                                  ELSE IF p \in old THEN "deleted" ELSE life[p]]
      /\ ids' = [ids EXCEPT ![r] = wanted]
      /\ BumpVersions(old \cup {r})

-----------------------------------------------------------------------------
(* InspireRecord.create, for a control number given or freshly reserved.   *)

\* A record that lists itself is minted, redirected to itself, and then not
\* found (its model is not added yet): the transaction fails.
CreateLive(r, wanted, merged) ==
  /\ status[r] = "absent"
  /\ r \notin merged
  /\ WriteLive(r, "registered", wanted, merged)
  /\ UNCHANGED snap

\* A record created with deleted=True: minted, then its PIDs are deleted.
CreateDeleted(r, wanted) ==
  /\ status[r] = "absent"
  /\ CanClaim(r, wanted, owner)
  /\ status' = [status EXCEPT ![r] = "deleted"]
  /\ owner' = Release(r, Claim(r, wanted, owner))
  /\ life' = [life EXCEPT ![r] = "deleted"]
  /\ ids' = [ids EXCEPT ![r] = wanted]
  /\ BumpVersions({r})
  /\ UNCHANGED <<redirect, snap>>

\* A session loads a record and its PID.
Begin(t, r) ==
  /\ snap[t] = Idle
  /\ life[r] # "none"
  /\ snap' = [snap EXCEPT ![t] = [rec |-> r, version |-> version[r],
                                  status |-> status[r], life |-> life[r]]]
  /\ UNCHANGED <<status, redirect, owner, life, ids, version>>

\* UPDATE ... WHERE version_id = <the one loaded>: StaleDataError otherwise.
NotStale(t) == version[snap[t].rec] = snap[t].version

\* InspireRecord.update with data that is not deleted (PUT, revert,
\* create_or_update): refused for a redirected PID and for a deleted record.
UpdateLive(t, wanted, merged) ==
  LET r == snap[t].rec IN
  /\ r # NoRecid
  /\ snap[t].status # "redirected"
  /\ snap[t].life # "deleted"
  /\ NotStale(t)
  /\ WriteLive(r, snap[t].status, wanted, merged)
  /\ snap' = [snap EXCEPT ![t] = Idle]

\* InspireRecord.update with deleted=True, and InspireRecord.delete.
UpdateDeleted(t, wanted) ==
  LET r == snap[t].rec IN
  /\ r # NoRecid
  /\ NotStale(t)
  /\ status' = [status EXCEPT ![r] = DeletedStatus(snap[t].status)]
  /\ owner' = Release(r, owner)
  /\ life' = [life EXCEPT ![r] = "deleted"]
  /\ ids' = [ids EXCEPT ![r] = wanted]
  /\ BumpVersions({r})
  /\ snap' = [snap EXCEPT ![t] = Idle]
  /\ UNCHANGED redirect

\* A fault of IsTarget: the foreign key does not restrict deletion.
IsTargetIgnored(r) == FALSE

\* A redirection row points at the PID: its foreign key keeps the PID.
IsTarget(r) == \E p \in Recid : redirect[p] = r

\* InspireRecord.hard_delete: every PID of the record that is not redirected
\* goes, with the row; the foreign key of a redirection to it forbids that.
HardDelete(t) ==
  LET r == snap[t].rec IN
  /\ r # NoRecid
  /\ NotStale(t)
  /\ status[r] # "redirected" => ~IsTarget(r)
  /\ status' = [status EXCEPT ![r] = IF @ = "redirected" THEN @ ELSE "absent"]
  /\ owner' = Release(r, owner)
  /\ life' = [life EXCEPT ![r] = "none"]
  /\ ids' = [ids EXCEPT ![r] = {}]
  /\ BumpVersions({r})
  /\ snap' = [snap EXCEPT ![t] = Idle]
  /\ UNCHANGED redirect

\* The transaction is rolled back: any of the errors above, or a lost worker.
Rollback(t) ==
  /\ snap[t] # Idle
  /\ snap' = [snap EXCEPT ![t] = Idle]
  /\ UNCHANGED <<status, redirect, owner, life, ids, version>>

CreateRecord == \E r \in Recid, wanted \in SUBSET ExtId :
                  \/ CreateDeleted(r, wanted)
                  \/ \E merged \in SUBSET Recid : CreateLive(r, wanted, merged)

UpdateRecord(t) == \E wanted \in SUBSET ExtId :
                     \/ UpdateDeleted(t, wanted)
                     \/ \E merged \in SUBSET Recid : UpdateLive(t, wanted, merged)

Next ==
  \/ CreateRecord
  \/ \E t \in Txn : \/ \E r \in Recid : Begin(t, r)
                    \/ UpdateRecord(t)
                    \/ HardDelete(t)
                    \/ Rollback(t)

Spec == Init /\ [][Next]_vars

-----------------------------------------------------------------------------
(* Properties                                                              *)

\* Redirections form no cycle: every non-empty set of PIDs has a member that
\* is not redirected into the set.  InspireRedirect.get_redirect, a bare
\* while loop, ends for this reason alone.
NoRedirectCycle ==
  \A S \in SUBSET Recid : S # {} => \E p \in S : redirect[p] \notin S

\* A PID is redirected exactly when a redirection row starts at it, the row
\* leads to a PID that exists, and its record does not live on beside the
\* record it was merged into.
RedirectedIsMerged ==
  \A p \in Recid :
    /\ status[p] = "redirected" <=> redirect[p] # NoRecid
    /\ redirect[p] # NoRecid => /\ status[redirect[p]] # "absent"
                                /\ life[p] # "live"

\* A live record, and only a live one, is reachable under its own control
\* number and owns exactly the external ids its JSON lists: no merge, delete
\* or failed claim leaves an id with a dead record or a record without it.
PidsMatchRecord ==
  /\ \A r \in Recid : life[r] = "live" <=> status[r] = "registered"
  /\ \A r \in Recid, x \in ExtId :
       owner[x] = r <=> (life[r] = "live" /\ x \in ids[r])

\* A merged record never comes back: no later update, delete, hard delete or
\* merge frees a redirected PID or makes its record live again.
KeepsMerges ==
  \A p \in Recid : status[p] = "redirected" =>
    /\ status'[p] = "redirected"
    /\ life'[p] # "live"
    /\ redirect'[p] # NoRecid

MergeIsForever == [][KeepsMerges]_vars
=============================================================================
