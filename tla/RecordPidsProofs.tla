-------------------------- MODULE RecordPidsProofs --------------------------
(* Safety of RecordPids, of a lookup beside it, and of what lookups answer: *)
(* for every number of records, ids and sessions.                          *)
EXTENDS RedirectWalk, TLAPS

\* What a session loaded is what the database holds as long as the version
\* is: every write of a record's row or PID also bumps its version_id.
SnapshotsCurrent ==
  \A t \in Txn : LET r == snap[t].rec IN
    r # NoRecid =>
      /\ snap[t].life # "none"
      /\ snap[t].version <= version[r]
      /\ snap[t].version = version[r] => /\ snap[t].status = status[r]
                                         /\ snap[t].life = life[r]

Inv == /\ TypeOK
       /\ SnapshotsCurrent
       /\ RedirectedIsMerged
       /\ PidsMatchRecord
       /\ NoRedirectCycle

\* Every step keeps the types.
LEMMA TypeStep ==
  ASSUME TypeOK, [Next]_vars PROVE TypeOK'
<1> USE RecidAssumption DEF TypeOK, PidStatus, Life, Snapshot
<1>1. ASSUME NEW r \in Recid, NEW s \in PidStatus, NEW wanted \in SUBSET ExtId,
             NEW merged \in SUBSET Recid, WriteLive(r, s, wanted, merged)
      PROVE  /\ status' \in [Recid -> PidStatus]
             /\ redirect' \in [Recid -> Recid \cup {NoRecid}]
             /\ owner' \in [ExtId -> Recid \cup {NoRecid}]
             /\ life' \in [Recid -> Life]
             /\ ids' \in [Recid -> SUBSET ExtId]
             /\ version' \in [Recid -> Nat]
  <2>1. StatusSeen(r, s, merged)[r] \in PidStatus
    BY DEF StatusSeen, DeletedStatus
  <2>2. OwnerSeen(merged) \in [ExtId -> Recid \cup {NoRecid}]
    BY DEF OwnerSeen
  <2>3. status' \in [Recid -> PidStatus]
    BY <1>1, <2>1 DEF WriteLive, Redirections
  <2>4. owner' \in [ExtId -> Recid \cup {NoRecid}]
    BY <1>1, <2>2 DEF WriteLive, Redirections, Claim
  <2>5. version' \in [Recid -> Nat]
    BY <1>1 DEF WriteLive, Redirections, BumpVersions
  <2> QED BY <1>1, <2>3, <2>4, <2>5 DEF WriteLive, Redirections
<1>2. CASE CreateRecord
  <2>1. PICK r \in Recid, wanted \in SUBSET ExtId :
          \/ CreateDeleted(r, wanted)
          \/ \E merged \in SUBSET Recid : CreateLive(r, wanted, merged)
    BY <1>2 DEF CreateRecord
  <2>2. CASE CreateDeleted(r, wanted)
    BY <2>2 DEF CreateDeleted, Release, Claim, BumpVersions
  <2>3. ASSUME NEW merged \in SUBSET Recid, CreateLive(r, wanted, merged)
        PROVE  TypeOK'
    BY <2>3, <1>1 DEF CreateLive
  <2> QED BY <2>1, <2>2, <2>3
<1>3. ASSUME NEW t \in Txn, NEW r \in Recid, Begin(t, r) PROVE TypeOK'
  BY <1>3 DEF Begin
<1>4. ASSUME NEW t \in Txn, UpdateRecord(t) PROVE TypeOK'
  <2>1. PICK wanted \in SUBSET ExtId :
          \/ UpdateDeleted(t, wanted)
          \/ \E merged \in SUBSET Recid : UpdateLive(t, wanted, merged)
    BY <1>4 DEF UpdateRecord
  <2>2. CASE UpdateDeleted(t, wanted)
    BY <2>2 DEF UpdateDeleted, Release, BumpVersions, DeletedStatus, Idle
  <2>3. ASSUME NEW merged \in SUBSET Recid, UpdateLive(t, wanted, merged)
        PROVE  TypeOK'
    <3> DEFINE r == snap[t].rec
    <3>1. /\ r # NoRecid
          /\ WriteLive(r, snap[t].status, wanted, merged)
          /\ snap' = [snap EXCEPT ![t] = Idle]
      BY <2>3 DEF UpdateLive
    <3>2. r \in Recid /\ snap[t].status \in PidStatus
      BY <3>1
    <3>3. Idle \in Snapshot
      BY DEF Idle
    <3>4. snap' \in [Txn -> Snapshot]
      BY <3>1, <3>3
    <3>5. /\ status' \in [Recid -> PidStatus]
          /\ redirect' \in [Recid -> Recid \cup {NoRecid}]
          /\ owner' \in [ExtId -> Recid \cup {NoRecid}]
          /\ life' \in [Recid -> Life]
          /\ ids' \in [Recid -> SUBSET ExtId]
          /\ version' \in [Recid -> Nat]
      <4> DEFINE s == snap[t].status
      <4>1. s \in PidStatus /\ WriteLive(r, s, wanted, merged)
        BY <3>1, <3>2
      <4> HIDE DEF r, s, TypeOK, PidStatus, Life, Snapshot
      <4> QED BY <3>2, <4>1, <1>1
    <3> QED BY <3>4, <3>5
  <2> QED BY <2>1, <2>2, <2>3
<1>5. ASSUME NEW t \in Txn, HardDelete(t) PROVE TypeOK'
  BY <1>5 DEF HardDelete, Release, BumpVersions, Idle
<1>6. ASSUME NEW t \in Txn, Rollback(t) PROVE TypeOK'
  BY <1>6 DEF Rollback, Idle
<1>7. CASE UNCHANGED vars
  BY <1>7 DEF vars
<1> QED BY <1>2, <1>3, <1>4, <1>5, <1>6, <1>7 DEF Next

\* Type correctness of the PID tables and sessions.
THEOREM TypeCorrect == Spec => []TypeOK
<1>1. Init => TypeOK
  BY RecidAssumption DEF Init, TypeOK, PidStatus, Life, Snapshot, Idle
<1>2. TypeOK /\ [Next]_vars => TypeOK'
  BY TypeStep
<1> QED BY <1>1, <1>2, PTL DEF Spec

-----------------------------------------------------------------------------

\* A merge keeps the three invariants: its target is a registered PID, so no
\* redirection starts there, and the target is not among the merged records.
LEMMA MergeStep ==
  ASSUME TypeOK, RedirectedIsMerged, PidsMatchRecord, NoRedirectCycle,
         NEW r \in Recid, NEW wanted \in SUBSET ExtId,
         NEW merged \in SUBSET Recid,
         r \notin ToRedirect(merged), status[r] \in {"absent", "registered"},
         WriteLive(r, "registered", wanted, merged)
  PROVE  RedirectedIsMerged' /\ PidsMatchRecord' /\ NoRedirectCycle' /\ KeepsMerges
<1> DEFINE old == ToRedirect(merged)
<1>0. /\ old \subseteq Recid
      /\ ToDelete(merged) \subseteq old
      /\ \A d \in old : life[d] = "live" => d \in ToDelete(merged)
  BY DEF ToRedirect, ToDelete
<1>1. redirect[r] = NoRecid
  BY DEF RedirectedIsMerged
<1>2. StatusSeen(r, "registered", merged)[r] = "registered"
  BY <1>0 DEF StatusSeen
<1>3. /\ status' = [p \in Recid |-> IF p \in old THEN "redirected"
                       ELSE IF p = r THEN "registered" ELSE status[p]]
      /\ redirect' = [p \in Recid |-> IF p \in old THEN r ELSE redirect[p]]
      /\ life' = [p \in Recid |-> IF p = r THEN "live"
                       ELSE IF p \in old THEN "deleted" ELSE life[p]]
      /\ ids' = [ids EXCEPT ![r] = wanted]
      /\ owner' = Claim(r, wanted, OwnerSeen(merged))
      /\ CanClaim(r, wanted, OwnerSeen(merged))
  BY <1>2 DEF WriteLive, Redirections
<1>4. NoRedirectCycle'
  <2> SUFFICES ASSUME NEW S \in SUBSET Recid, S # {}
               PROVE  \E p \in S : redirect'[p] \notin S
    BY DEF NoRedirectCycle
  <2>1. CASE r \in S
    <3>1. redirect'[r] = NoRecid
      BY <1>1, <1>3
    <3> QED BY <2>1, <3>1, RecidAssumption
  <2>2. CASE r \notin S /\ S \cap old # {}
    <3>1. PICK p \in S : p \in old
      BY <2>2
    <3>2. redirect'[p] = r
      BY <3>1, <1>0, <1>3
    <3> QED BY <2>2, <3>1, <3>2
  <2>3. CASE S \cap old = {}
    <3>1. PICK p \in S : redirect[p] \notin S
      BY DEF NoRedirectCycle
    <3>2. redirect'[p] = redirect[p]
      BY <2>3, <1>3
    <3> QED BY <3>1, <3>2
  <2> QED BY <2>1, <2>2, <2>3
<1>5. RedirectedIsMerged'
  <2> SUFFICES ASSUME NEW p \in Recid
               PROVE  /\ status'[p] = "redirected" <=> redirect'[p] # NoRecid
                      /\ redirect'[p] # NoRecid =>
                            /\ status'[redirect'[p]] # "absent"
                            /\ life'[p] # "live"
    BY DEF RedirectedIsMerged
  <2>1. CASE p \in old
    <3>1. status'[p] = "redirected" /\ redirect'[p] = r /\ life'[p] = "deleted"
      BY <2>1, <1>3
    <3>2. status'[r] = "registered"
      BY <1>3
    <3> QED BY <3>1, <3>2, RecidAssumption
  <2>2. CASE p = r
    BY <2>2, <1>1, <1>3
  <2>3. CASE p \notin old /\ p # r
    <3>1. /\ status'[p] = status[p]
          /\ redirect'[p] = redirect[p]
          /\ life'[p] = life[p]
      BY <2>3, <1>3
    <3>2. ASSUME redirect[p] # NoRecid PROVE status'[redirect[p]] # "absent"
      <4>1. redirect[p] \in Recid /\ status[redirect[p]] # "absent"
        BY <3>2 DEF TypeOK, RedirectedIsMerged
      <4> QED BY <4>1, <1>3
    <3> QED BY <3>1, <3>2 DEF RedirectedIsMerged
  <2> QED BY <2>1, <2>2, <2>3
<1>6. PidsMatchRecord'
  <2>1. ASSUME NEW p \in Recid
        PROVE  life'[p] = "live" <=> status'[p] = "registered"
    BY <1>3 DEF PidsMatchRecord
  <2>2. ASSUME NEW p \in Recid, NEW x \in ExtId
        PROVE  owner'[x] = p <=> (life'[p] = "live" /\ x \in ids'[p])
    <3>1. owner'[x] = IF x \in wanted THEN r
                      ELSE IF OwnerSeen(merged)[x] = r THEN NoRecid
                      ELSE OwnerSeen(merged)[x]
      BY <1>3 DEF Claim
    <3>2. OwnerSeen(merged)[x] = IF owner[x] \in ToDelete(merged) THEN NoRecid
                                 ELSE owner[x]
      BY DEF OwnerSeen
    <3>3. x \in wanted => OwnerSeen(merged)[x] \in {NoRecid, r}
      BY <1>3 DEF CanClaim
    <3>4. CASE p = r
      <4>1. life'[p] = "live" /\ ids'[p] = wanted
        BY <3>4, <1>3 DEF TypeOK
      <4> QED BY <4>1, <3>1, <3>4, RecidAssumption
    <3>5. CASE p \in old
      <4>1. life'[p] = "deleted" /\ p # r
        BY <3>5, <1>3
      <4>2. owner[x] # p \/ p \in ToDelete(merged)
        BY <3>5, <1>0 DEF PidsMatchRecord
      <4>3. owner'[x] # p
        BY <4>1, <4>2, <3>1, <3>2, RecidAssumption
      <4> QED BY <4>1, <4>3
    <3>6. CASE p # r /\ p \notin old
      <4>1. life'[p] = life[p] /\ ids'[p] = ids[p]
        BY <3>6, <1>3 DEF TypeOK
      <4>2. p \notin ToDelete(merged)
        BY <3>6, <1>0
      <4>3. owner'[x] = p <=> owner[x] = p
        BY <4>2, <3>1, <3>2, <3>3, <3>6, RecidAssumption
      <4> QED BY <4>1, <4>3 DEF PidsMatchRecord
    <3> QED BY <3>4, <3>5, <3>6
  <2> QED BY <2>1, <2>2 DEF PidsMatchRecord
<1>7. KeepsMerges
  BY <1>3, RecidAssumption DEF KeepsMerges, RedirectedIsMerged
<1> QED BY <1>4, <1>5, <1>6, <1>7

\* Deleting a record, softly or for good, under a current snapshot.  The
\* foreign key keeps the targets of redirections.
LEMMA RemovalStep ==
  ASSUME TypeOK, RedirectedIsMerged, PidsMatchRecord, NoRedirectCycle,
         NEW r \in Recid, NEW wanted \in SUBSET ExtId, NEW s \in PidStatus, NEW l \in Life,
         s \in {"absent", "deleted", "redirected"}, l \in {"none", "deleted"},
         s = "redirected" <=> status[r] = "redirected",
         s = "absent" => ~IsTarget(r),
         status' = [status EXCEPT ![r] = s], life' = [life EXCEPT ![r] = l],
         ids' = [ids EXCEPT ![r] = wanted], redirect' = redirect,
         owner' = Release(r, owner)
  PROVE  RedirectedIsMerged' /\ PidsMatchRecord' /\ NoRedirectCycle' /\ KeepsMerges
<1>1. NoRedirectCycle'
  BY DEF NoRedirectCycle
<1>2. RedirectedIsMerged'
  <2>1. ASSUME NEW p \in Recid PROVE status'[p] = "redirected" <=> redirect'[p] # NoRecid
    BY DEF RedirectedIsMerged, TypeOK
  <2>2. ASSUME NEW p \in Recid, redirect[p] # NoRecid
        PROVE  status'[redirect[p]] # "absent" /\ life'[p] # "live"
    <3>1. redirect[p] \in Recid /\ status[redirect[p]] # "absent" /\ life[p] # "live"
      BY <2>2 DEF RedirectedIsMerged, TypeOK
    <3>2. redirect[p] = r => s # "absent"
      BY DEF IsTarget
    <3> QED BY <3>1, <3>2 DEF TypeOK
  <2> QED BY <2>1, <2>2 DEF RedirectedIsMerged
<1>3. PidsMatchRecord'
  <2>1. ASSUME NEW p \in Recid PROVE life'[p] = "live" <=> status'[p] = "registered"
    BY DEF PidsMatchRecord, TypeOK
  <2>2. ASSUME NEW p \in Recid, NEW x \in ExtId
        PROVE  owner'[x] = p <=> (life'[p] = "live" /\ x \in ids'[p])
    <3>1. owner'[x] = IF owner[x] = r THEN NoRecid ELSE owner[x]
      BY DEF Release
    <3> QED BY <3>1, RecidAssumption DEF PidsMatchRecord, TypeOK
  <2> QED BY <2>1, <2>2 DEF PidsMatchRecord
<1>4. KeepsMerges
  BY DEF KeepsMerges, RedirectedIsMerged, TypeOK
<1> QED BY <1>1, <1>2, <1>3, <1>4

\* A step that writes rows and PIDs of records only along with their versions
\* leaves the snapshots that are still open valid.
LEMMA SnapshotStep ==
  ASSUME TypeOK, SnapshotsCurrent, NEW S \in SUBSET Recid, BumpVersions(S),
         \A p \in Recid \ S : status'[p] = status[p] /\ life'[p] = life[p],
         \A t \in Txn : snap'[t] \in {snap[t], Idle}
  PROVE  SnapshotsCurrent'
<1> SUFFICES ASSUME NEW t \in Txn, snap'[t].rec # NoRecid
             PROVE  LET r == snap'[t].rec IN
                    /\ snap'[t].life # "none"
                    /\ snap'[t].version <= version'[r]
                    /\ snap'[t].version = version'[r] =>
                          /\ snap'[t].status = status'[r]
                          /\ snap'[t].life = life'[r]
  BY DEF SnapshotsCurrent
<1>1. snap'[t] = snap[t]
  BY DEF Idle
<1> DEFINE r == snap[t].rec
<1>2. r \in Recid /\ snap[t].version \in Nat /\ version[r] \in Nat
  BY <1>1 DEF TypeOK, Snapshot
<1>3. /\ snap[t].life # "none"
      /\ snap[t].version <= version[r]
      /\ snap[t].version = version[r] => /\ snap[t].status = status[r]
                                         /\ snap[t].life = life[r]
  BY <1>1 DEF SnapshotsCurrent
<1>4. version'[r] = IF r \in S THEN version[r] + 1 ELSE version[r]
  BY <1>2 DEF BumpVersions
<1> QED BY <1>1, <1>2, <1>3, <1>4

-----------------------------------------------------------------------------

\* The invariant is inductive, and every step that starts in it keeps merges.
LEMMA InvStep ==
  ASSUME Inv, [Next]_vars PROVE Inv' /\ KeepsMerges
<1> USE DEF Inv
<1>0. TypeOK'
  BY TypeStep
<1>1. ASSUME NEW r \in Recid, NEW wanted \in SUBSET ExtId, CreateDeleted(r, wanted)
      PROVE  Inv' /\ KeepsMerges
  <2>1. status[r] = "absent"
    BY <1>1 DEF CreateDeleted
  <2>2. owner' = Release(r, owner)
    <3>1. owner' = [x \in ExtId |-> IF Claim(r, wanted, owner)[x] = r THEN NoRecid
                                    ELSE Claim(r, wanted, owner)[x]]
      BY <1>1 DEF CreateDeleted, Release
    <3>2. ASSUME NEW x \in ExtId
          PROVE  owner'[x] = IF owner[x] = r THEN NoRecid ELSE owner[x]
      <4>1. x \in wanted => owner[x] \in {NoRecid, r}
        BY <1>1 DEF CreateDeleted, CanClaim
      <4> QED BY <3>1, <4>1 DEF Claim
    <3> QED BY <3>1, <3>2 DEF Release
  <2>3. RedirectedIsMerged' /\ PidsMatchRecord' /\ NoRedirectCycle' /\ KeepsMerges
    <3>0. "deleted" \in PidStatus /\ "deleted" \in Life
      BY DEF PidStatus, Life
    <3>1. /\ status' = [status EXCEPT ![r] = "deleted"]
          /\ life' = [life EXCEPT ![r] = "deleted"]
          /\ ids' = [ids EXCEPT ![r] = wanted]
          /\ redirect' = redirect
      BY <1>1 DEF CreateDeleted
    <3> QED BY <2>1, <2>2, <3>0, <3>1, RemovalStep
  <2>4. SnapshotsCurrent'
    <3>1. /\ BumpVersions({r})
          /\ \A p \in Recid \ {r} : status'[p] = status[p] /\ life'[p] = life[p]
          /\ \A t \in Txn : snap'[t] \in {snap[t], Idle}
      BY <1>1 DEF CreateDeleted, TypeOK
    <3> QED BY <3>1, SnapshotStep
  <2> QED BY <1>0, <2>3, <2>4
<1>2. ASSUME NEW r \in Recid, NEW wanted \in SUBSET ExtId,
             NEW merged \in SUBSET Recid,
             WriteLive(r, "registered", wanted, merged),
             \A t \in Txn : snap'[t] \in {snap[t], Idle}
      PROVE  SnapshotsCurrent'
  <2> DEFINE S == ToRedirect(merged) \cup {r}
  <2>1. S \in SUBSET Recid /\ BumpVersions(S)
    BY <1>2 DEF WriteLive, Redirections, ToRedirect
  <2>2. \A p \in Recid \ S : status'[p] = status[p] /\ life'[p] = life[p]
    BY <1>2 DEF WriteLive, Redirections
  <2> QED BY <1>2, <2>1, <2>2, SnapshotStep
<1>3. ASSUME NEW r \in Recid, NEW wanted \in SUBSET ExtId,
             NEW merged \in SUBSET Recid, CreateLive(r, wanted, merged)
      PROVE  Inv' /\ KeepsMerges
  <2>1. /\ r \notin ToRedirect(merged)
        /\ status[r] = "absent"
        /\ WriteLive(r, "registered", wanted, merged)
        /\ \A t \in Txn : snap'[t] \in {snap[t], Idle}
    BY <1>3 DEF CreateLive, ToRedirect
  <2> QED BY <1>0, <1>2, <2>1, MergeStep
<1>4. ASSUME NEW t \in Txn, NEW r \in Recid, Begin(t, r) PROVE Inv' /\ KeepsMerges
  <2>1. /\ RedirectedIsMerged' /\ PidsMatchRecord' /\ NoRedirectCycle'
        /\ KeepsMerges
    BY <1>4 DEF Begin, RedirectedIsMerged, PidsMatchRecord, NoRedirectCycle, KeepsMerges
  <2>2. SnapshotsCurrent'
    <3> SUFFICES ASSUME NEW u \in Txn, snap'[u].rec # NoRecid
                 PROVE  LET q == snap'[u].rec IN
                        /\ snap'[u].life # "none"
                        /\ snap'[u].version <= version'[q]
                        /\ snap'[u].version = version'[q] =>
                              /\ snap'[u].status = status'[q]
                              /\ snap'[u].life = life'[q]
      BY DEF SnapshotsCurrent
    <3>1. CASE u = t
      BY <1>4, <3>1 DEF Begin, TypeOK
    <3>2. CASE u # t
      BY <1>4, <3>2 DEF Begin, SnapshotsCurrent, TypeOK
    <3> QED BY <3>1, <3>2
  <2> QED BY <1>0, <2>1, <2>2
<1>5. ASSUME NEW t \in Txn, NEW wanted \in SUBSET ExtId, UpdateDeleted(t, wanted)
      PROVE  Inv' /\ KeepsMerges
  <2>1. PICK r \in Recid : /\ r = snap[t].rec
                           /\ snap[t].status = status[r]
                           /\ status[r] \in PidStatus
    BY <1>5 DEF UpdateDeleted, NotStale, SnapshotsCurrent, TypeOK, Snapshot
  <2>2. PICK s \in PidStatus : s = DeletedStatus(status[r])
    BY DEF PidStatus, DeletedStatus
  <2>3. /\ status' = [status EXCEPT ![r] = s]
        /\ life' = [life EXCEPT ![r] = "deleted"]
        /\ ids' = [ids EXCEPT ![r] = wanted]
        /\ redirect' = redirect
        /\ owner' = Release(r, owner)
        /\ BumpVersions({r})
        /\ snap' = [snap EXCEPT ![t] = Idle]
    BY <1>5, <2>1, <2>2 DEF UpdateDeleted
  <2>4. /\ s \in {"deleted", "redirected"}
        /\ s = "redirected" <=> status[r] = "redirected"
    BY <2>2 DEF DeletedStatus
  <2>5. RedirectedIsMerged' /\ PidsMatchRecord' /\ NoRedirectCycle' /\ KeepsMerges
    <3>1. {"none", "deleted"} \subseteq Life
      BY DEF Life
    <3> QED BY <2>3, <2>4, <3>1, RemovalStep
  <2>6. SnapshotsCurrent'
    <3>1. /\ \A p \in Recid \ {r} : status'[p] = status[p] /\ life'[p] = life[p]
          /\ \A u \in Txn : snap'[u] \in {snap[u], Idle}
      BY <2>3 DEF TypeOK
    <3> QED BY <2>3, <3>1, SnapshotStep
  <2> QED BY <1>0, <2>5, <2>6
<1>6. ASSUME NEW t \in Txn, NEW wanted \in SUBSET ExtId,
             NEW merged \in SUBSET Recid, UpdateLive(t, wanted, merged)
      PROVE  Inv' /\ KeepsMerges
  <2>1. PICK r \in Recid : /\ r = snap[t].rec
                           /\ snap[t].status = status[r]
                           /\ snap[t].life = life[r]
                           /\ life[r] = "live"
    BY <1>6 DEF UpdateLive, NotStale, SnapshotsCurrent, TypeOK, Snapshot, Life
  <2>2. status[r] = "registered"
    BY <2>1 DEF PidsMatchRecord
  <2>3. /\ WriteLive(r, "registered", wanted, merged)
        /\ \A u \in Txn : snap'[u] \in {snap[u], Idle}
    BY <1>6, <2>1, <2>2 DEF UpdateLive, TypeOK
  <2>4. r \notin ToRedirect(merged)
    <3> SUFFICES ASSUME r \in ToRedirect(merged) PROVE FALSE
      OBVIOUS
    <3>1. r \in ToDelete(merged)
      BY <2>1 DEF ToRedirect, ToDelete
    <3>2. StatusSeen(r, "registered", merged)[r] = "deleted"
      BY <2>1, <3>1 DEF StatusSeen, DeletedStatus
    <3>3. CanRedirect(r, r, StatusSeen(r, "registered", merged))
      BY <2>3 DEF WriteLive, Redirections
    <3> QED BY <3>2, <3>3 DEF CanRedirect
  <2> QED BY <1>0, <1>2, <2>1, <2>2, <2>3, <2>4, MergeStep
<1>7. ASSUME NEW t \in Txn, HardDelete(t) PROVE Inv' /\ KeepsMerges
  <2>1. PICK r \in Recid : r = snap[t].rec
    BY <1>7 DEF HardDelete, TypeOK, Snapshot
  <2>2. PICK s \in PidStatus :
          s = IF status[r] = "redirected" THEN "redirected" ELSE "absent"
    BY DEF PidStatus
  <2>3. /\ status' = [status EXCEPT ![r] = s]
        /\ life' = [life EXCEPT ![r] = "none"]
        /\ ids' = [ids EXCEPT ![r] = {}]
        /\ redirect' = redirect
        /\ owner' = Release(r, owner)
        /\ BumpVersions({r})
        /\ snap' = [snap EXCEPT ![t] = Idle]
    BY <1>7, <2>1, <2>2 DEF HardDelete, TypeOK
  <2>4. /\ s \in {"absent", "deleted", "redirected"}
        /\ s = "redirected" <=> status[r] = "redirected"
        /\ s = "absent" => ~IsTarget(r)
    BY <1>7, <2>1, <2>2 DEF HardDelete
  <2>5. RedirectedIsMerged' /\ PidsMatchRecord' /\ NoRedirectCycle' /\ KeepsMerges
    <3>1. {"none", "deleted"} \subseteq Life
      BY DEF Life
    <3> QED BY <2>3, <2>4, <3>1, RemovalStep
  <2>6. SnapshotsCurrent'
    <3>1. /\ \A p \in Recid \ {r} : status'[p] = status[p] /\ life'[p] = life[p]
          /\ \A u \in Txn : snap'[u] \in {snap[u], Idle}
      BY <2>3 DEF TypeOK
    <3> QED BY <2>3, <3>1, SnapshotStep
  <2> QED BY <1>0, <2>5, <2>6
<1>8. ASSUME UNCHANGED <<status, redirect, owner, life, ids, version>>,
             \A u \in Txn : snap'[u] \in {snap[u], Idle}
      PROVE  Inv' /\ KeepsMerges
  <2>1. /\ RedirectedIsMerged' /\ PidsMatchRecord' /\ NoRedirectCycle'
        /\ KeepsMerges
    BY <1>8 DEF RedirectedIsMerged, PidsMatchRecord, NoRedirectCycle, KeepsMerges
  <2>2. SnapshotsCurrent'
    BY <1>8 DEF SnapshotsCurrent, Idle
  <2> QED BY <1>0, <2>1, <2>2
<1>9. ASSUME NEW t \in Txn, Rollback(t) PROVE Inv' /\ KeepsMerges
  <2>1. \A u \in Txn : snap'[u] \in {snap[u], Idle}
    BY <1>9 DEF Rollback, TypeOK
  <2> QED BY <1>8, <1>9, <2>1 DEF Rollback
<1>10. CASE UNCHANGED vars
  BY <1>8, <1>10 DEF vars
<1> QED BY <1>1, <1>3, <1>4, <1>5, <1>6, <1>7, <1>9, <1>10
        DEF Next, CreateRecord, UpdateRecord

\* An empty database satisfies the invariant.
LEMMA InitInv == Init => Inv
<1> SUFFICES ASSUME Init PROVE Inv
  OBVIOUS
<1>1. TypeOK
  BY RecidAssumption DEF Init, TypeOK, PidStatus, Life, Snapshot, Idle
<1>2. NoRedirectCycle
  BY RecidAssumption DEF Init, NoRedirectCycle
<1>3. SnapshotsCurrent /\ RedirectedIsMerged /\ PidsMatchRecord
  BY RecidAssumption DEF Init, SnapshotsCurrent, Idle, RedirectedIsMerged, PidsMatchRecord
<1> QED BY <1>1, <1>2, <1>3 DEF Inv

\* The inductive invariant holds in every reachable state.
THEOREM InvHolds == Spec => []Inv
<1>1. Inv /\ [Next]_vars => Inv'
  BY InvStep
<1> QED BY <1>1, InitInv, PTL DEF Spec

\* Whatever records are merged, deleted, hard deleted and updated by however
\* many concurrent sessions, get_redirect's loop cannot run in a circle.
THEOREM RedirectsAcyclic == Spec => []NoRedirectCycle
BY InvHolds, PTL DEF Inv

\* A redirected PID always leads to a PID that exists, and its record is not
\* alive beside the one it was merged into.
THEOREM RedirectsSound == Spec => []RedirectedIsMerged
BY InvHolds, PTL DEF Inv

\* Exactly the live records own external ids, and exactly the listed ones.
THEOREM PidsConsistent == Spec => []PidsMatchRecord
BY InvHolds, PTL DEF Inv

\* No operation takes back a merge.
THEOREM MergesPermanent == Spec => MergeIsForever
<1>1. Inv /\ [Next]_vars => [KeepsMerges]_vars
  BY InvStep
<1> QED BY <1>1, InvHolds, PTL DEF Spec, MergeIsForever

-----------------------------------------------------------------------------
(* A walk along redirections never returns to a PID it has left.           *)

\* Everything ahead of the walk lies in a closed set without visited PIDs.
AheadIsNew ==
  cursor # NoRecid =>
    \E S \in SUBSET Recid : cursor \in S /\ S \cap visited = {} /\ Enclosed(S)

WalkInv == /\ Inv
           /\ WalkTypeOK
           /\ \A v \in visited : status[v] = "redirected"
           /\ AheadIsNew

\* A step changes redirections only by pointing some of them at a PID that
\* is not redirected itself.
LEMMA RedirectStep ==
  ASSUME Inv, [Next]_vars
  PROVE  \/ redirect' = redirect
         \/ \E r \in Recid : /\ status[r] # "redirected"
                             /\ redirect'[r] = NoRecid
                             /\ \A p \in Recid : redirect'[p] \in {redirect[p], r}
<1> DEFINE Retarget(r) == /\ status[r] # "redirected"
                          /\ redirect'[r] = NoRecid
                          /\ \A p \in Recid : redirect'[p] \in {redirect[p], r}
<1>1. ASSUME NEW r \in Recid, NEW s, NEW wanted \in SUBSET ExtId,
             NEW merged \in SUBSET Recid, WriteLive(r, s, wanted, merged),
             status[r] # "redirected", r \notin ToRedirect(merged)
      PROVE  Retarget(r)
  <2>1. redirect' = [p \in Recid |-> IF p \in ToRedirect(merged) THEN r ELSE redirect[p]]
    BY <1>1 DEF WriteLive, Redirections
  <2>2. redirect[r] = NoRecid
    BY <1>1 DEF Inv, RedirectedIsMerged
  <2> QED BY <1>1, <2>1, <2>2
<1>2. ASSUME NEW r \in Recid, NEW wanted \in SUBSET ExtId,
             NEW merged \in SUBSET Recid, CreateLive(r, wanted, merged)
      PROVE  Retarget(r)
  BY <1>1, <1>2 DEF CreateLive, ToRedirect
<1>3. ASSUME NEW t \in Txn, NEW wanted \in SUBSET ExtId,
             NEW merged \in SUBSET Recid, UpdateLive(t, wanted, merged)
      PROVE  \E r \in Recid : Retarget(r)
  <2>1. PICK r \in Recid : /\ r = snap[t].rec
                           /\ snap[t].status = status[r]
                           /\ snap[t].life = life[r]
                           /\ life[r] = "live"
    BY <1>3 DEF UpdateLive, NotStale, Inv, SnapshotsCurrent, TypeOK, Snapshot, Life
  <2>2. PICK s \in PidStatus : s = snap[t].status
    BY DEF Inv, TypeOK, Snapshot
  <2>3. WriteLive(r, s, wanted, merged) /\ status[r] # "redirected"
    BY <1>3, <2>1, <2>2 DEF UpdateLive
  <2>4. r \notin ToRedirect(merged)
    <3> SUFFICES ASSUME r \in ToRedirect(merged) PROVE FALSE
      OBVIOUS
    <3>1. r \in ToDelete(merged)
      BY <2>1 DEF ToRedirect, ToDelete
    <3>2. StatusSeen(r, s, merged)[r] \in {"deleted", "redirected"}
      BY <3>1 DEF StatusSeen, DeletedStatus
    <3>3. CanRedirect(r, r, StatusSeen(r, s, merged))
      BY <2>3 DEF WriteLive, Redirections
    <3> QED BY <3>2, <3>3 DEF CanRedirect
  <2> QED BY <1>1, <2>3, <2>4
<1> QED BY <1>2, <1>3 DEF Next, CreateRecord, UpdateRecord, CreateDeleted,
           Begin, UpdateDeleted, HardDelete, Rollback, vars

\* In an acyclic graph a closed set around a redirected PID contains a closed
\* set around its target that leaves the PID itself out.
LEMMA FromRedirect ==
  ASSUME TypeOK, NoRedirectCycle, NEW c \in Recid, redirect[c] # NoRecid,
         NEW S \in SUBSET Recid, c \in S, Enclosed(S)
  PROVE  \E R \in SUBSET S : redirect[c] \in R /\ c \notin R /\ Enclosed(R)
<1> DEFINE T == {q \in Recid : \A C \in SUBSET Recid : Enclosed(C) /\ q \in C => c \in C}
<1>1. redirect[c] \in S
  BY DEF Enclosed
<1>2. ASSUME redirect[c] \in T PROVE FALSE
  <2>1. c \in T
    OBVIOUS
  <2>2. ASSUME NEW q \in T PROVE redirect[q] \in T
    <3>1. CASE q = c
      BY <3>1, <1>2
    <3>2. CASE q # c
      <4>1. redirect[q] # NoRecid
        <5> SUFFICES ASSUME redirect[q] = NoRecid PROVE FALSE
          OBVIOUS
        <5>1. Enclosed({q})
          BY DEF Enclosed
        <5> QED BY <3>2, <5>1
      <4>2. redirect[q] \in Recid
        BY <4>1 DEF TypeOK
      <4>3. ASSUME NEW C \in SUBSET Recid, Enclosed(C), redirect[q] \in C
            PROVE  c \in C
        <5>1. Enclosed(C \cup {q})
          BY <4>3 DEF Enclosed
        <5>2. C \cup {q} \in SUBSET Recid
          OBVIOUS
        <5>3. c \in C \cup {q}
          BY <5>1, <5>2
        <5> QED BY <3>2, <5>3
      <4> QED BY <4>2, <4>3
    <3> QED BY <3>1, <3>2
  <2> QED BY <2>1, <2>2 DEF NoRedirectCycle
<1>3. PICK C \in SUBSET Recid : Enclosed(C) /\ redirect[c] \in C /\ c \notin C
  BY <1>1, <1>2
<1>4. Enclosed(C \cap S)
  BY <1>3 DEF Enclosed
<1> QED BY <1>1, <1>3, <1>4

\* Every step of the lookup, and of the writers beside it, keeps what is ahead new.
LEMMA WalkInvStep ==
  ASSUME WalkInv, [WalkNext]_walkVars PROVE WalkInv'
<1>1. ASSUME [Next]_vars, UNCHANGED <<cursor, visited>> PROVE WalkInv'
  <2>1. Inv' /\ KeepsMerges
    BY <1>1, InvStep DEF WalkInv
  <2>2. WalkTypeOK'
    BY <1>1, <2>1 DEF WalkInv, WalkTypeOK, Inv
  <2>3. \A v \in visited' : status'[v] = "redirected"
    BY <1>1, <2>1 DEF WalkInv, WalkTypeOK, KeepsMerges
  <2>4. AheadIsNew'
    <3> SUFFICES ASSUME cursor # NoRecid
                 PROVE  \E S \in SUBSET Recid :
                          /\ cursor \in S /\ S \cap visited = {}
                          /\ \A p \in S : redirect'[p] \in S \cup {NoRecid}
      BY <1>1 DEF AheadIsNew, Enclosed
    <3>1. PICK S \in SUBSET Recid : cursor \in S /\ S \cap visited = {} /\ Enclosed(S)
      BY DEF WalkInv, AheadIsNew
    <3>2. CASE redirect' = redirect
      BY <3>1, <3>2 DEF Enclosed
    <3>3. ASSUME NEW r \in Recid, status[r] # "redirected", redirect'[r] = NoRecid,
                 \A p \in Recid : redirect'[p] \in {redirect[p], r}
          PROVE  \E U \in SUBSET Recid :
                   /\ cursor \in U /\ U \cap visited = {}
                   /\ \A p \in U : redirect'[p] \in U \cup {NoRecid}
      <4>1. r \notin visited
        BY <3>3 DEF WalkInv
      <4>2. PICK U \in SUBSET Recid : U = S \cup {r}
        OBVIOUS
      <4>3. \A p \in U : redirect'[p] \in U \cup {NoRecid}
        BY <3>1, <3>3, <4>2 DEF Enclosed
      <4>4. cursor \in U /\ U \cap visited = {}
        BY <3>1, <4>1, <4>2
      <4> QED BY <4>3, <4>4
    <3> QED BY <1>1, <3>2, <3>3, RedirectStep DEF WalkInv
  <2> QED BY <2>1, <2>2, <2>3, <2>4 DEF WalkInv
<1>2. ASSUME NEW p \in Recid, StartWalk(p) PROVE WalkInv'
  <2>1. Inv' /\ UNCHANGED vars
    BY <1>2, InvStep DEF StartWalk, WalkInv
  <2>2. AheadIsNew'
    <3>1. Enclosed(Recid)
      BY DEF Enclosed, WalkInv, Inv, TypeOK
    <3>2. Enclosed(Recid)' /\ cursor' \in Recid /\ Recid \cap visited' = {}
      BY <1>2, <2>1, <3>1 DEF StartWalk, Enclosed, vars
    <3> QED BY <3>2 DEF AheadIsNew
  <2> QED BY <1>2, <2>1, <2>2 DEF WalkInv, WalkTypeOK, Inv, StartWalk
<1>3. CASE FollowRedirect
  <2>1. Inv' /\ UNCHANGED vars
    BY <1>3, InvStep DEF FollowRedirect, WalkInv
  <2>2. /\ cursor \in Recid /\ redirect[cursor] # NoRecid
        /\ status[cursor] = "redirected"
        /\ cursor' = redirect[cursor] /\ visited' = visited \cup {cursor}
    BY <1>3 DEF FollowRedirect, WalkInv, WalkTypeOK
  <2>3. PICK S \in SUBSET Recid : cursor \in S /\ S \cap visited = {} /\ Enclosed(S)
    BY <2>2, RecidAssumption DEF WalkInv, AheadIsNew
  <2>4. PICK c \in Recid : c = cursor
    BY <2>2
  <2>5. PICK R \in SUBSET S : redirect[c] \in R /\ c \notin R /\ Enclosed(R)
    BY <2>2, <2>3, <2>4, FromRedirect DEF WalkInv, Inv
  <2>6. AheadIsNew'
    <3>1. cursor' \in R /\ R \cap visited' = {} /\ Enclosed(R)' /\ R \in SUBSET Recid
      BY <2>1, <2>2, <2>3, <2>4, <2>5 DEF Enclosed, vars
    <3> QED BY <3>1 DEF AheadIsNew
  <2>7. WalkTypeOK' /\ \A v \in visited' : status'[v] = "redirected"
    <3>1. redirect[cursor] \in Recid
      BY <2>2 DEF WalkInv, Inv, TypeOK
    <3> QED BY <2>1, <2>2, <3>1 DEF WalkInv, WalkTypeOK, Inv, vars
  <2> QED BY <2>1, <2>6, <2>7 DEF WalkInv
<1>4. CASE EndWalk
  <2>1. Inv'
    BY <1>4, InvStep DEF EndWalk, WalkInv
  <2> QED BY <1>4, <2>1 DEF EndWalk, WalkInv, WalkTypeOK, Inv, AheadIsNew
<1> QED BY <1>1, <1>2, <1>3, <1>4 DEF WalkNext, WalkStep, walkVars, vars

\* The walk's invariant holds in every reachable state.
LEMMA WalkInvHolds == WalkSpec => []WalkInv
<1>1. WalkInit => WalkInv
  <2> SUFFICES ASSUME WalkInit PROVE WalkInv
    OBVIOUS
  <2>1. Inv
    BY InitInv DEF WalkInit
  <2> QED BY <2>1 DEF WalkInit, WalkInv, WalkTypeOK, AheadIsNew, Inv
<1>2. WalkInv /\ [WalkNext]_walkVars => WalkInv'
  BY WalkInvStep
<1> QED BY <1>1, <1>2, PTL DEF WalkSpec

\* For every number of records and sessions, get_redirect never comes back to
\* a PID it has left, although merges commit between its queries: with a
\* finite PID table the loop ends.
THEOREM WalkNeverRevisits == WalkSpec => []NeverRevisits
<1>1. WalkInv => NeverRevisits
  BY DEF WalkInv, AheadIsNew, NeverRevisits
<1> QED BY <1>1, WalkInvHolds, PTL

\* The loop never meets a redirected PID whose redirection is missing.
THEOREM WalkNeverMissing == WalkSpec => []NeverMissing
<1>1. WalkInv => NeverMissing
  BY DEF WalkInv, Inv, RedirectedIsMerged, NeverMissing, WalkTypeOK
<1> QED BY <1>1, WalkInvHolds, PTL

-----------------------------------------------------------------------------
(* The store implements MergedRecords                                      *)

\* A redirection leads to a PID of the same type.
TypesAgree == \A p \in Recid : redirect[p] # NoRecid => TypeOf[redirect[p]] = TypeOf[p]

\* The steps of the store as MergedRecords sees them, before answers.
Sets(r, s) ==
  /\ \/ status[r] = "absent" /\ s \in {"registered", "deleted"}
     \/ status[r] = "registered" /\ s = "deleted"
  /\ status' = [status EXCEPT ![r] = s] /\ redirect' = redirect
Forgets(r) ==
  /\ status[r] \in {"registered", "deleted"} /\ ~IsTarget(r)
  /\ status' = [status EXCEPT ![r] = "absent"] /\ redirect' = redirect
Redirects(r, old) ==
  /\ status[r] \in {"absent", "registered"} /\ r \notin old
  /\ \A d \in old : status[d] # "absent" /\ TypeOf[d] = TypeOf[r]
  /\ status' = [p \in Recid |-> IF p \in old THEN "redirected"
                                ELSE IF p = r THEN "registered" ELSE status[p]]
  /\ redirect' = Redirections(old, r)

\* What a session writes with its records goes into a record that is new or that
\* lives, and is not itself among them.
LEMMA WriteRedirects ==
  ASSUME Inv, NEW r \in Recid, NEW s \in PidStatus, NEW wanted \in SUBSET ExtId,
         NEW merged \in SUBSET Recid, WriteLive(r, s, wanted, merged),
         s = "registered", r \notin ToRedirect(merged), status[r] \in {"absent", "registered"}
  PROVE  Redirects(r, ToRedirect(merged))
<1> DEFINE old == ToRedirect(merged)
           st == StatusSeen(r, s, merged)
<1>1. /\ \A d \in old : CanRedirect(d, r, st)
      /\ status' = [p \in Recid |-> IF p \in old THEN "redirected"
                                    ELSE IF p = r THEN st[r] ELSE status[p]]
      /\ redirect' = Redirections(old, r)
  BY DEF WriteLive
<1>2. r \notin ToDelete(merged)
  BY DEF ToDelete, ToRedirect
<1>3. st[r] = "registered"
  BY <1>2 DEF StatusSeen
<1>4. \A d \in old : status[d] # "absent" /\ TypeOf[d] = TypeOf[r]
  BY <1>1 DEF CanRedirect, ToRedirect
<1> HIDE DEF st, old
<1> QED BY <1>1, <1>3, <1>4 DEF Redirects, old

\* Every step of the store is one of them, or changes neither status nor
\* redirections.
LEMMA StoreStep ==
  ASSUME Inv, [Next]_vars
  PROVE  \/ UNCHANGED <<status, redirect>>
         \/ \E r \in Recid : \/ \E s \in {"registered", "deleted"} : Sets(r, s)
                             \/ Forgets(r)
                             \/ \E old \in SUBSET Recid : Redirects(r, old)
<1>0. TypeOK
  BY DEF Inv
<1>1. ASSUME NEW r \in Recid, NEW wanted \in SUBSET ExtId,
             NEW merged \in SUBSET Recid, CreateLive(r, wanted, merged)
      PROVE  Redirects(r, ToRedirect(merged))
  <2>1. "registered" \in PidStatus /\ r \notin ToRedirect(merged)
    BY <1>1 DEF CreateLive, ToRedirect, PidStatus
  <2> QED BY <1>1, <2>1, WriteRedirects DEF CreateLive
<1>2. ASSUME NEW t \in Txn, NEW wanted \in SUBSET ExtId,
             NEW merged \in SUBSET Recid, UpdateLive(t, wanted, merged)
      PROVE  \E r \in Recid : Redirects(r, ToRedirect(merged))
  <2>1. PICK r \in Recid : /\ r = snap[t].rec
                           /\ snap[t].status = status[r]
                           /\ snap[t].life = life[r]
                           /\ life[r] = "live"
    BY <1>2 DEF UpdateLive, NotStale, Inv, SnapshotsCurrent, TypeOK, Snapshot, Life
  <2>2. status[r] = "registered" /\ "registered" \in PidStatus
    BY <2>1 DEF Inv, PidsMatchRecord, PidStatus
  <2>3. WriteLive(r, "registered", wanted, merged)
    BY <1>2, <2>1, <2>2 DEF UpdateLive
  <2>4. r \notin ToRedirect(merged)
    <3> SUFFICES ASSUME r \in ToRedirect(merged) PROVE FALSE
      OBVIOUS
    <3>1. r \in ToDelete(merged)
      BY <2>1 DEF ToRedirect, ToDelete
    <3>2. StatusSeen(r, "registered", merged)[r] \in {"deleted", "redirected"}
      BY <3>1 DEF StatusSeen, DeletedStatus
    <3>3. CanRedirect(r, r, StatusSeen(r, "registered", merged))
      BY <2>3 DEF WriteLive
    <3> QED BY <3>2, <3>3 DEF CanRedirect
  <2> QED BY <2>2, <2>3, <2>4, WriteRedirects
<1>3. ASSUME NEW r \in Recid, NEW wanted \in SUBSET ExtId, CreateDeleted(r, wanted)
      PROVE  Sets(r, "deleted")
  BY <1>3 DEF CreateDeleted, Sets
<1>4. ASSUME NEW t \in Txn, NEW wanted \in SUBSET ExtId, UpdateDeleted(t, wanted)
      PROVE  UNCHANGED <<status, redirect>> \/ \E r \in Recid : Sets(r, "deleted")
  <2>1. PICK r \in Recid : r = snap[t].rec /\ snap[t].status = status[r]
    BY <1>4 DEF UpdateDeleted, NotStale, Inv, SnapshotsCurrent, TypeOK, Snapshot
  <2>2. status' = [status EXCEPT ![r] = DeletedStatus(status[r])] /\ redirect' = redirect
    BY <1>4, <2>1 DEF UpdateDeleted
  <2>3. CASE status[r] \in {"deleted", "redirected"}
    BY <1>0, <2>2, <2>3 DEF DeletedStatus, TypeOK
  <2>4. CASE status[r] \in {"absent", "registered"}
    BY <2>2, <2>4 DEF DeletedStatus, Sets
  <2> QED BY <1>0, <2>3, <2>4 DEF TypeOK, PidStatus
<1>5. ASSUME NEW t \in Txn, HardDelete(t)
      PROVE  UNCHANGED <<status, redirect>> \/ \E r \in Recid : Forgets(r)
  <2>1. PICK r \in Recid : r = snap[t].rec
    BY <1>0, <1>5 DEF HardDelete, TypeOK, Snapshot
  <2>2. /\ status' = [status EXCEPT ![r] = IF status[r] = "redirected" THEN status[r] ELSE "absent"]
        /\ redirect' = redirect /\ (status[r] # "redirected" => ~IsTarget(r))
    BY <1>5, <2>1 DEF HardDelete
  <2>3. CASE status[r] \in {"absent", "redirected"}
    BY <1>0, <2>2, <2>3 DEF TypeOK
  <2>4. CASE status[r] \in {"registered", "deleted"}
    BY <2>2, <2>4 DEF Forgets
  <2> QED BY <1>0, <2>3, <2>4 DEF TypeOK, PidStatus
<1>6. ToRedirect({}) \in SUBSET Recid /\ \A merged \in SUBSET Recid : ToRedirect(merged) \in SUBSET Recid
  BY DEF ToRedirect
<1> QED BY <1>1, <1>2, <1>3, <1>4, <1>5, <1>6
        DEF Next, CreateRecord, UpdateRecord, Begin, Rollback, vars

\* No step redirects across types.
LEMMA TypesStep ==
  ASSUME Inv, TypesAgree, [Next]_vars
  PROVE  TypesAgree'
<1>1. CASE redirect' = redirect
  BY <1>1 DEF TypesAgree
<1>2. ASSUME NEW r \in Recid, NEW old \in SUBSET Recid, Redirects(r, old)
      PROVE  TypesAgree'
  BY <1>2 DEF TypesAgree, Redirects, Redirections
<1> QED BY <1>1, <1>2, StoreStep DEF Sets, Forgets

-----------------------------------------------------------------------------
(* Answers                                                                 *)

\* A lookup of p ends at q.
EndsAt(p, q) == redirect[q] = NoRecid /\ ComesTo(p, q)

\* One turn of the loop.
LEMMA OneTurn ==
  ASSUME TypeOK, NEW p \in Recid, NEW q \in Recid
  PROVE  /\ redirect[p] = NoRecid => (EndsAt(p, q) <=> q = p)
         /\ redirect[p] # NoRecid => /\ redirect[p] \in Recid
                                     /\ EndsAt(p, q) <=> EndsAt(redirect[p], q)
<1>1. ASSUME redirect[p] = NoRecid PROVE EndsAt(p, q) <=> q = p
  <2>1. Enclosed({p})
    BY <1>1 DEF Enclosed
  <2>2. ASSUME q # p, EndsAt(p, q) PROVE FALSE
    <3>1. {p} \in SUBSET (Recid \ {q})
      BY <2>2
    <3> QED BY <2>1, <2>2, <3>1 DEF EndsAt, ComesTo
  <2> QED BY <1>1, <2>2 DEF EndsAt, ComesTo
<1>2. ASSUME redirect[p] # NoRecid
      PROVE  redirect[p] \in Recid /\ (EndsAt(p, q) <=> EndsAt(redirect[p], q))
  <2>1. redirect[p] \in Recid
    BY <1>2 DEF TypeOK
  <2>2. ASSUME EndsAt(redirect[p], q) PROVE EndsAt(p, q)
    <3> SUFFICES ASSUME NEW S \in SUBSET (Recid \ {q}), p \in S, Enclosed(S) PROVE FALSE
      BY <2>2 DEF EndsAt, ComesTo
    <3>1. redirect[p] \in S
      BY <1>2 DEF Enclosed
    <3> QED BY <2>2, <3>1 DEF EndsAt, ComesTo
  <2>3. ASSUME EndsAt(p, q) PROVE EndsAt(redirect[p], q)
    <3> SUFFICES ASSUME NEW S \in SUBSET (Recid \ {q}), redirect[p] \in S, Enclosed(S) PROVE FALSE
      BY <2>3 DEF EndsAt, ComesTo
    <3>1. p # q
      BY <1>2, <2>3 DEF EndsAt
    <3>2. S \cup {p} \in SUBSET (Recid \ {q})
      BY <3>1
    <3>3. Enclosed(S \cup {p})
      BY DEF Enclosed
    <3> QED BY <2>3, <3>2, <3>3 DEF EndsAt, ComesTo
  <2> QED BY <2>1, <2>2, <2>3
<1> QED BY <1>1, <1>2

\* Every lookup ends, at one PID: what does not is a set of PIDs each of which is
\* redirected into it.
LEMMA OneAnswer ==
  ASSUME TypeOK, NoRedirectCycle, NEW p \in Recid
  PROVE  /\ Answer(p) \in Recid /\ EndsAt(p, Answer(p))
         /\ \A q \in Recid : EndsAt(p, q) => q = Answer(p)
<1> DEFINE None == {x \in Recid : \A q \in Recid : ~EndsAt(x, q)}
           Two == {x \in Recid : \E q, o \in Recid : q # o /\ EndsAt(x, q) /\ EndsAt(x, o)}
<1>1. None = {}
  <2> SUFFICES ASSUME None # {} PROVE FALSE
    OBVIOUS
  <2>1. None \in SUBSET Recid
    OBVIOUS
  <2>2. PICK x \in None : redirect[x] \notin None
    BY <2>1 DEF NoRedirectCycle
  <2>3. CASE redirect[x] = NoRecid
    BY <2>2, <2>3, OneTurn
  <2>4. CASE redirect[x] # NoRecid
    <3>1. redirect[x] \in Recid /\ \A q \in Recid : EndsAt(x, q) <=> EndsAt(redirect[x], q)
      BY <2>4, OneTurn
    <3> QED BY <2>2, <3>1
  <2> QED BY <2>3, <2>4
<1>2. Two = {}
  <2> SUFFICES ASSUME Two # {} PROVE FALSE
    OBVIOUS
  <2>1. Two \in SUBSET Recid
    OBVIOUS
  <2>2. PICK x \in Two : redirect[x] \notin Two
    BY <2>1 DEF NoRedirectCycle
  <2>3. CASE redirect[x] = NoRecid
    BY <2>3, OneTurn
  <2>4. CASE redirect[x] # NoRecid
    <3>1. redirect[x] \in Recid /\ \A q \in Recid : EndsAt(x, q) <=> EndsAt(redirect[x], q)
      BY <2>4, OneTurn
    <3> QED BY <2>2, <3>1
  <2> QED BY <2>3, <2>4
<1>3. PICK q \in Recid : EndsAt(p, q)
  BY <1>1
<1>4. Answer(p) \in Recid /\ EndsAt(p, Answer(p))
  BY <1>3 DEF Answer, EndsAt
<1> QED BY <1>2, <1>4

\* While redirections stay, answers do.
LEMMA SameAnswer ==
  ASSUME redirect' = redirect
  PROVE  [p \in Recid |-> Answer(p)]' = [p \in Recid |-> Answer(p)]
BY DEF Answer, ComesTo, Enclosed

\* The answer of a PID is of its type.
LEMMA AnswerType ==
  ASSUME TypeOK, NoRedirectCycle, TypesAgree, NEW p \in Recid, NEW q \in Recid, ComesTo(p, q)
  PROVE  TypeOf[q] = TypeOf[p]
<1> DEFINE S == {x \in Recid : TypeOf[x] = TypeOf[p]}
<1>1. Enclosed(S)
  BY DEF Enclosed, TypesAgree, TypeOK
<1> SUFFICES ASSUME q \notin S PROVE FALSE
  OBVIOUS
<1>2. S \in SUBSET (Recid \ {q}) /\ p \in S
  OBVIOUS
<1> QED BY <1>1, <1>2 DEF ComesTo

\* So it is in every state, and in the next.
LEMMA AnswersAre ==
  TypeOK /\ NoRedirectCycle =>
    \A p, q \in Recid : Answer(p) \in Recid /\ (EndsAt(p, q) <=> q = Answer(p))
BY OneAnswer

LEMMA AnswersWillBe ==
  (TypeOK /\ NoRedirectCycle =>
    \A p, q \in Recid : Answer(p) \in Recid /\ (EndsAt(p, q) <=> q = Answer(p)))'
BY AnswersAre, PTL

\* Records redirected to r are answered by it, with all that come to them; the
\* others as before.
Moved(old) == {p \in Recid : \E d \in old : ComesTo(p, d)}

LEMMA MergeAnswers ==
  ASSUME Inv, Inv', NEW r \in Recid, NEW old \in SUBSET Recid, Redirects(r, old), NEW p \in Recid
  PROVE  Answer(p)' = IF p \in Moved(old) THEN r ELSE Answer(p)
<1> DEFINE to(x) == IF x \in old THEN r ELSE redirect[x]
           ClosedNext(S) == \A x \in S : to(x) \in S \cup {NoRecid}
<1>1. \A x \in Recid : redirect'[x] = to(x)
  BY DEF Redirects, Redirections
<1>2. redirect[r] = NoRecid /\ to(r) = NoRecid /\ redirect'[r] = NoRecid
  BY <1>1 DEF Redirects, Inv, RedirectedIsMerged
<1>3. \A S \in SUBSET Recid : Enclosed(S)' <=> ClosedNext(S)
  BY <1>1 DEF Enclosed
<1>4. \A S \in SUBSET Recid : S \cap old = {} => (Enclosed(S) <=> ClosedNext(S))
  BY DEF Enclosed
<1> HIDE DEF to, ClosedNext
<1>5. \A q \in Recid : EndsAt(p, q)' => q = Answer(p)'
  BY AnswersWillBe DEF Inv
<1>6. Answer(p) \in Recid /\ EndsAt(p, Answer(p))
  BY AnswersAre DEF Inv
<1>7. CASE p \in Moved(old)
  <2>1. PICK d \in old : ComesTo(p, d)
    BY <1>7 DEF Moved
  <2>2. ASSUME NEW S \in SUBSET (Recid \ {r}), p \in S, Enclosed(S)'
        PROVE  FALSE
    <3>1. ClosedNext(S) /\ S \in SUBSET Recid
      BY <1>3, <2>2
    <3>2. S \cap old = {}
      BY <2>2, <3>1, RecidAssumption DEF ClosedNext, to
    <3>3. Enclosed(S) /\ S \in SUBSET (Recid \ {d})
      BY <1>4, <3>1, <3>2
    <3> QED BY <2>1, <2>2, <3>3 DEF ComesTo
  <2>3. EndsAt(p, r)'
    BY <1>2, <2>2 DEF EndsAt, ComesTo
  <2> QED BY <1>5, <1>7, <2>3
<1>8. CASE p \notin Moved(old)
  <2> DEFINE Way == {x \in Recid : ComesTo(p, x)}
  <2>0. PICK q \in Recid : q = Answer(p)
    BY <1>6
  <2>1. \A d \in old : ~ComesTo(p, d)
    BY <1>8 DEF Moved
  <2>2. q \in Recid /\ redirect[q] = NoRecid /\ ComesTo(p, q)
    BY <1>6, <2>0 DEF EndsAt
  <2>3. redirect'[q] = NoRecid
    BY <1>1, <2>1, <2>2 DEF to
  <2>4. Enclosed(Way)
    <3> SUFFICES ASSUME NEW x \in Recid, ComesTo(p, x), redirect[x] # NoRecid
                 PROVE  redirect[x] \in Recid /\ ComesTo(p, redirect[x])
      BY DEF Enclosed
    <3>1. redirect[x] \in Recid
      BY DEF Inv, TypeOK
    <3>2. ASSUME NEW S \in SUBSET (Recid \ {redirect[x]}), p \in S, Enclosed(S)
          PROVE  FALSE
      <4>1. x \notin S
        BY <3>2 DEF Enclosed
      <4>2. S \in SUBSET (Recid \ {x})
        BY <4>1, <3>2
      <4> QED BY <3>2, <4>2 DEF ComesTo
    <3> QED BY <3>1, <3>2 DEF ComesTo
  <2>5. ASSUME NEW S \in SUBSET (Recid \ {q}), p \in S, Enclosed(S)'
        PROVE  FALSE
    <3>1. ClosedNext(S) /\ S \in SUBSET Recid
      BY <1>3, <2>5
    <3>2. p \in Way
      BY DEF ComesTo
    <3>3. (S \cap Way) \cap old = {}
      BY <2>1
    <3>4. Enclosed(S \cap Way)
      BY <2>4, <3>1, <3>3 DEF Enclosed, ClosedNext, to
    <3>5. S \cap Way \in SUBSET (Recid \ {q}) /\ p \in S \cap Way
      BY <2>5, <3>2
    <3> QED BY <2>2, <3>4, <3>5 DEF ComesTo
  <2>6. EndsAt(p, q)'
    <3>1. \A S \in SUBSET (Recid \ {q}) : p \in S => ~Enclosed(S)'
      BY <2>5
    <3> QED BY <2>3, <3>1 DEF EndsAt, ComesTo
  <2> QED BY <1>5, <1>8, <2>0, <2>6
<1> QED BY <1>7, <1>8

\* Every step of the store is a step of MergedRecords, or none.
LEMMA MergedStep ==
  ASSUME Inv, TypesAgree, Inv', [Next]_vars
  PROVE  [Merged!MergedNext]_Merged!mergedVars
<1> DEFINE answers == [p \in Recid |-> Answer(p)]
<1>1. \A p \in Recid : Answer(p) \in Recid /\ EndsAt(p, Answer(p))
  BY AnswersAre DEF Inv
<1>2. CASE UNCHANGED <<status, redirect>>
  BY <1>2, SameAnswer DEF Merged!mergedVars
<1>3. ASSUME NEW r \in Recid, NEW s \in {"registered", "deleted"}, Sets(r, s)
      PROVE  Merged!SetStatus(r, s)
  BY <1>3, SameAnswer DEF Sets, Merged!SetStatus
<1>4. ASSUME NEW r \in Recid, Forgets(r)
      PROVE  Merged!Forget(r)
  <2>1. ASSUME NEW p \in Recid, answers[p] = r, p # r
        PROVE  FALSE
    <3>1. Enclosed(Recid \ {r})
      BY <1>4 DEF Forgets, IsTarget, Enclosed, Inv, TypeOK
    <3>2. ComesTo(p, r)
      BY <1>1, <2>1 DEF EndsAt
    <3> QED BY <2>1, <3>1, <3>2 DEF ComesTo
  <2> QED BY <1>4, <2>1, SameAnswer DEF Forgets, Merged!Forget
<1>5. ASSUME NEW r \in Recid, NEW old \in SUBSET Recid, Redirects(r, old)
      PROVE  Merged!Merge(r, Moved(old))
  <2>1. \A p \in Recid : Answer(p)' = IF p \in Moved(old) THEN r ELSE Answer(p)
    BY <1>5, MergeAnswers
  <2>2. redirect[r] = NoRecid /\ r \notin old
    BY <1>5 DEF Redirects, Inv, RedirectedIsMerged
  <2>3. r \notin Moved(old)
    <3> SUFFICES ASSUME NEW d \in old, ComesTo(r, d) PROVE FALSE
      BY DEF Moved
    <3>1. Enclosed({r}) /\ {r} \in SUBSET (Recid \ {d})
      BY <2>2 DEF Enclosed
    <3> QED BY <3>1 DEF ComesTo
  <2>4. ASSUME NEW p \in Moved(old)
        PROVE  status[p] # "absent" /\ TypeOf[p] = TypeOf[r] /\ status'[p] = "redirected"
    <3>1. PICK d \in old : ComesTo(p, d)
      BY DEF Moved
    <3>2. p \in Recid /\ d \in Recid /\ status[d] # "absent" /\ TypeOf[d] = TypeOf[r]
      BY <1>5 DEF Moved, Redirects
    <3>3. TypeOf[d] = TypeOf[p]
      BY <3>1, <3>2, AnswerType DEF Inv
    <3>4. CASE p = d
      BY <1>5, <3>1, <3>2, <3>4 DEF Redirects
    <3>5. CASE p # d
      <4>1. ~Enclosed({p})
        BY <3>1, <3>2, <3>5 DEF ComesTo
      <4>2. status[p] = "redirected"
        BY <3>2, <4>1 DEF Enclosed, Inv, RedirectedIsMerged
      <4>3. p # r
        BY <2>2, <4>2 DEF Inv, RedirectedIsMerged
      <4> QED BY <1>5, <3>2, <3>3, <4>2, <4>3 DEF Redirects
    <3> QED BY <3>2, <3>3, <3>4, <3>5
  <2>5. old \subseteq Moved(old)
    BY DEF Moved, ComesTo
  <2>6. ASSUME NEW p \in Recid, Answer(p) \in Moved(old)
        PROVE  p \in Moved(old)
    <3>1. PICK a \in Recid : a = Answer(p) /\ redirect[a] = NoRecid /\ ComesTo(p, a)
      BY <1>1 DEF EndsAt
    <3>2. PICK d \in old : ComesTo(a, d)
      BY <2>6, <3>1 DEF Moved
    <3>3. d = a
      <4> SUFFICES ASSUME d # a PROVE FALSE
        OBVIOUS
      <4>1. Enclosed({a}) /\ {a} \in SUBSET (Recid \ {d})
        BY <3>1 DEF Enclosed
      <4> QED BY <3>2, <4>1 DEF ComesTo
    <3> QED BY <3>1, <3>2, <3>3 DEF Moved
  <2>7. status' = [p \in Recid |-> IF p \in Moved(old) THEN "redirected"
                                   ELSE IF p = r THEN "registered" ELSE status[p]]
    BY <1>5, <2>4, <2>5 DEF Redirects
  <2>8. answers' = [p \in Recid |-> IF p \in Moved(old) THEN r ELSE answers[p]]
    BY <2>1
  <2>9. status[r] \in {"absent", "registered"}
    BY <1>5 DEF Redirects
  <2>10. \A p \in Recid : answers[p] \in Moved(old) => p \in Moved(old)
    BY <2>6
  <2> HIDE DEF answers
  <2> QED BY <2>3, <2>4, <2>7, <2>8, <2>9, <2>10 DEF Merged!Merge, answers
<1>6. \A old : Moved(old) \in SUBSET Recid
  BY DEF Moved
<1> QED BY <1>2, <1>3, <1>4, <1>5, <1>6, StoreStep DEF Merged!MergedNext

\* What lookups see of the store is MergedRecords, however many records are
\* created, updated, deleted and merged, by however many sessions: a merge gives
\* all that it merges one answer, and nothing else changes an answer or takes
\* away the record that gives it.
THEOREM ImplementsMergedRecords == Spec => IsMergedRecords
<1>1. Init => Merged!MergedInit /\ TypesAgree
  <2> SUFFICES ASSUME Init PROVE Merged!MergedInit /\ TypesAgree
    OBVIOUS
  <2>1. Inv
    BY InitInv
  <2>2. \A p \in Recid : Answer(p) = p
    BY <2>1, OneTurn, OneAnswer DEF Init, Inv
  <2> QED BY <2>2 DEF Init, Merged!MergedInit, TypesAgree
<1>2. Inv /\ TypesAgree /\ [Next]_vars => TypesAgree'
  BY TypesStep
<1>3. Inv /\ TypesAgree /\ Inv' /\ [Next]_vars => [Merged!MergedNext]_Merged!mergedVars
  BY MergedStep
<1> QED BY <1>1, <1>2, <1>3, InvHolds, PTL DEF Spec, IsMergedRecords, Merged!MergedSpec

\* So does a store with lookups beside it.
LEMMA WalkIsStore == WalkSpec => Spec
<1>1. WalkInit => Init
  BY DEF WalkInit
<1>2. [WalkNext]_walkVars => [Next]_vars
  BY DEF WalkNext, StartWalk, WalkStep, FollowRedirect, EndWalk, walkVars, vars
<1> QED BY <1>1, <1>2, PTL DEF WalkSpec, Spec
=============================================================================
