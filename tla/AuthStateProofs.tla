-------------------------- MODULE AuthStateProofs --------------------------
(* Theorems about the AuthState object and its callers, for any number of    *)
(* invites, tokens and concurrent requests and any bounds.  TypeOK becomes   *)
(* inductive with what a request knows of the row it read (Holds): it is     *)
(* there whenever the next step writes it back.  StoredSessionsSupported is  *)
(* inductive with that: a write-back of the collection drops every session   *)
(* the new rows do not support, whatever the rows are.                       *)
EXTENDS AuthState, FiniteSetTheorems, TLAPS

Row      == Invite \cup {NoInvite}
Rows     == [Uuids -> Row]
Optional == Session \cup {NoSession}

(* TypeOK in the three parts that the steps disturb separately. *)
RowsTyped ==
    /\ invites \in Rows
    /\ trash \in [Items -> Uuids \cup {NoItem}]
    /\ invRev \in Nat
    /\ trashRev \in Nat
    /\ sessions \in [Tokens -> Optional]
    /\ nextKey \in Nat \ {0}
    /\ gen \in [Uuids -> Nat]

(* The row a request is about was in the collection it read, when the next   *)
(* step writes that row back.                                                *)
Holds(r) ==
    /\ r.pc = "save" => r.op \in {"create", "rotate", "update"}
    /\ (r.pc = "save" /\ r.op # "create") => r.base[r.uuid] # NoInvite
    /\ r.pc \in {"resave", "upsert"} => r.base[r.uuid] # NoInvite

Request == {r \in AdminState : Holds(r)}

AdminTyped == admin \in [Admins -> Request]

(* A look-up that is past KV holds the session it found there. *)
Reading == {r \in [pc : {"idle", "kv", "invite", "put"}, payload : Optional] :
              r.pc \in {"invite", "put"} => r.payload \in Session}

VisitorsTyped ==
    /\ now \in Nat
    /\ kv \in [Tokens -> Optional]
    /\ legacyOpen \in BOOLEAN
    /\ login \in [Tokens -> [uuid : Uuids, method : Methods, row : Invite, life : Nat] \cup {NoLogin}]
    /\ reader \in [Tokens -> Reading]
    /\ leaving \subseteq Tokens
    /\ born \subseteq Tokens
    /\ gone \subseteq Tokens

(* The inductive invariant, and that it is one about types. *)
Typed == RowsTyped /\ AdminTyped /\ VisitorsTyped

LEMMA TypedIsTypeOK == Typed => TypeOK
<1> SUFFICES ASSUME Typed PROVE TypeOK
  OBVIOUS
<1>1. admin \in [Admins -> AdminState]
  BY DEF Typed, AdminTyped, Request
<1>2. reader \in [Tokens -> [pc : {"idle", "kv", "invite", "put"}, payload : Session \cup {NoSession}]]
  BY DEF Typed, VisitorsTyped, Reading, Optional
<1> QED BY <1>1, <1>2 DEF Typed, TypeOK, RowsTyped, VisitorsTyped, Row, Rows, Optional

-----------------------------------------------------------------------------
(* The helpers return rows, sessions and requests of the right shape.         *)
LEMMA RestingTyped == Resting \in Request
BY SetAssumption, BoundAssumption DEF Resting, Request, AdminState, Holds

LEMMA IssueTyped ==
    ASSUME NEW invite \in Invite, NEW until \in Deadlines, RowsTyped
    PROVE  Issue(invite, until) \in Invite
<1>1. nextKey \in Nat
  BY DEF RowsTyped
<1>2. invite.version + 1 \in Nat
  BY DEF Invite
<1> QED BY <1>1, <1>2 DEF Issue, Invite

LEMMA NewInviteTyped ==
    ASSUME NEW d \in Data
    PROVE  NewInvite(d) \in Invite
BY DEF NewInvite, Invite, Deadlines

LEMMA ClampedTyped ==
    ASSUME NEW s \in Session, NEW deadline \in Nat
    PROVE  Clamped(s, deadline) \in Optional
BY DEF Clamped, Earlier, Session, Optional

LEMMA ReconciledTyped ==
    ASSUME NEW s \in Session, NEW old \in Invite, NEW new \in Invite
    PROVE  Reconciled(s, old, new) \in Optional
<1>1. ReconciledAccess(s, old, new) \in Optional
  BY DEF ReconciledAccess, Optional
<1>2. ReconciledLegacy(s, new) \in Optional
  BY ClampedTyped DEF ReconciledLegacy, Optional, Invite, Deadlines
<1> QED BY <1>1, <1>2 DEF Reconciled

LEMMA RevokedTyped ==
    ASSUME RowsTyped, NEW next \in Rows, NEW s \in Optional
    PROVE  RevokedFor(s, next) \in Optional
<1>1. CASE s = NoSession \/ ~Present(s.uuid)
  BY <1>1 DEF RevokedFor
<1>2. CASE s # NoSession /\ Present(s.uuid)
  <2>1. s \in Session /\ s.uuid \in Uuids
    BY <1>2 DEF Optional, Session
  <2>2. invites[s.uuid] \in Invite
    BY <1>2, <2>1 DEF RowsTyped, Rows, Row, Present
  <2>3. CASE next[s.uuid] = NoInvite
    BY <1>2, <2>3 DEF RevokedFor, Optional
  <2>4. CASE next[s.uuid] # NoInvite
    <3>1. next[s.uuid] \in Invite
      BY <2>1, <2>4 DEF Rows, Row
    <3> QED BY <1>2, <2>1, <2>2, <2>4, <3>1, ReconciledTyped DEF RevokedFor
  <2> QED BY <2>3, <2>4
<1> QED BY <1>1, <1>2

(* Writing the collection back leaves typed rows, whatever was read. *)
LEMMA ReplaceTyped ==
    ASSUME RowsTyped, NEW next \in Rows, ReplaceInvites(next)
    PROVE  /\ invites' \in Rows
           /\ trash' \in [Items -> Uuids \cup {NoItem}]
           /\ invRev' \in Nat
           /\ trashRev' \in Nat
           /\ sessions' \in [Tokens -> Optional]
<1>1. sessions' \in [Tokens -> Optional]
  BY RevokedTyped DEF RowsTyped, ReplaceInvites
<1> QED BY <1>1 DEF RowsTyped, ReplaceInvites

(* A request that only reads leaves the object and the visitors alone. *)
LEMMA ReadOnlyTyped ==
    ASSUME RowsTyped, VisitorsTyped, ReadOnly
    PROVE  RowsTyped' /\ VisitorsTyped'
BY DEF RowsTyped, VisitorsTyped, ReadOnly, AdminOnly, stateVars, visitorVars

LEMMA AdminOnlyTyped ==
    ASSUME VisitorsTyped, AdminOnly
    PROVE  VisitorsTyped'
BY DEF VisitorsTyped, AdminOnly, visitorVars

LEMMA EndsTyped ==
    ASSUME AdminTyped, NEW a \in Admins, Ends(a)
    PROVE  AdminTyped'
BY RestingTyped DEF AdminTyped, Ends

LEMMA ConflictsTyped ==
    ASSUME AdminTyped, NEW a \in Admins, Conflicts(a)
    PROVE  AdminTyped'
<1>1. [Resting EXCEPT !.pc = "reconcile", !.op = admin[a].op,
                      !.uuid = admin[a].uuid, !.tries = FirstTry] \in Request
  <2>1. admin[a].op \in AdminOps \cup {"none"} /\ admin[a].uuid \in Uuids
    BY DEF AdminTyped, Request, AdminState
  <2>2. FirstTry \in 0..Attempts
    BY BoundAssumption DEF FirstTry
  <2> QED BY <2>1, <2>2, RestingTyped DEF Request, AdminState, Holds
<1> QED BY <1>1, RestingTyped DEF AdminTyped, Conflicts

-----------------------------------------------------------------------------
(* Admin requests: each action leaves a typed state. *)
LEMMA AdminReadsTyped ==
    ASSUME Typed, NEW a \in Admins, ReadOnly,
           NEW r \in Request, admin' = [admin EXCEPT ![a] = r]
    PROVE  Typed'
<1>1. AdminTyped'
  BY DEF Typed, AdminTyped
<1> QED BY <1>1, ReadOnlyTyped DEF Typed

LEMMA AdminRestsTyped ==
    ASSUME Typed, NEW a \in Admins, ReadOnly, Ends(a)
    PROVE  Typed'
BY EndsTyped, ReadOnlyTyped DEF Typed

(* What is known of the request of a. *)
LEMMA OwnRequest ==
    ASSUME Typed, NEW a \in Admins
    PROVE  /\ admin[a] \in Request
           /\ admin[a] \in AdminState
           /\ Holds(admin[a])
           /\ invites \in Rows
           /\ invRev \in Nat /\ trashRev \in Nat
BY DEF Typed, AdminTyped, RowsTyped, Request

LEMMA ReadInvitesTyped ==
    ASSUME Typed, NEW a \in Admins, NEW u \in Uuids, NEW op \in AdminOps, ReadInvites(a, op, u)
    PROVE  Typed'
<1> DEFINE r == [Resting EXCEPT !.pc = NextStep(op), !.op = op,
                    !.uuid = u, !.base = invites, !.rev = invRev]
<1>1. r \in AdminState
  BY OwnRequest, RestingTyped DEF Request, AdminState, NextStep, Rows, Row
<1>2. Holds(r)
  BY RestingTyped DEF ReadInvites, Wanted, Present, NextStep, Holds, Request, AdminState
<1>3. r \in Request
  BY <1>1, <1>2 DEF Request
<1> QED BY <1>3, AdminReadsTyped DEF ReadInvites

LEMMA WrittenTyped ==
    ASSUME Typed, NEW a \in Admins, NEW d \in Data, admin[a].pc = "save"
    PROVE  Written(a, d) \in Invite
<1> DEFINE old == admin[a].base[admin[a].uuid]
<1>1. admin[a].op \in {"create", "rotate", "update"} /\ (admin[a].op # "create" => old \in Invite)
  BY OwnRequest DEF Holds, AdminState
<1>2. NoDeadline \in Deadlines
  BY DEF Deadlines
<1>3. CASE admin[a].op = "create"
  BY <1>2, <1>3, NewInviteTyped, IssueTyped DEF Written, Typed
<1>4. CASE admin[a].op = "rotate"
  BY <1>1, <1>2, <1>4, IssueTyped DEF Written, Typed
<1>5. CASE admin[a].op = "update"
  BY <1>1, <1>5 DEF Written, Invite
<1> QED BY <1>1, <1>3, <1>4, <1>5

LEMMA SaveInvitesTyped ==
    ASSUME Typed, NEW a \in Admins, NEW d \in Data, SaveInvites(a, d)
    PROVE  Typed'
<1> DEFINE next == [admin[a].base EXCEPT ![admin[a].uuid] = Written(a, d)]
<1>1. next \in Rows
  BY WrittenTyped, OwnRequest DEF SaveInvites, AdminState, Rows, Row
<1>2. ReplaceInvites(next)
  BY DEF SaveInvites
<1>3. nextKey' \in Nat \ {0}
  BY DEF SaveInvites, Spent, Typed, RowsTyped
<1>4. RowsTyped'
  BY <1>1, <1>2, <1>3, ReplaceTyped DEF SaveInvites, Typed, RowsTyped
<1> QED BY <1>4, EndsTyped, AdminOnlyTyped DEF SaveInvites, Typed

LEMMA ConflictTyped ==
    ASSUME Typed, NEW a \in Admins, ReadOnly, Conflicts(a)
    PROVE  Typed'
BY ConflictsTyped, ReadOnlyTyped DEF Typed

LEMMA ReconcileReadTyped ==
    ASSUME Typed, NEW a \in Admins, ReconcileRead(a)
    PROVE  Typed'
<1>1. CASE ~Present(admin[a].uuid)
  BY <1>1, AdminRestsTyped DEF ReconcileRead
<1>2. CASE Present(admin[a].uuid)
  <2> DEFINE r == [admin[a] EXCEPT !.pc = "resave", !.base = invites, !.rev = invRev]
  <2>1. r \in AdminState
    BY OwnRequest DEF AdminState, Rows, Row
  <2>2. Holds(r)
    BY <1>2, OwnRequest DEF Holds, Present, AdminState
  <2>3. admin' = [admin EXCEPT ![a] = r]
    BY <1>2 DEF ReconcileRead, Typed, AdminTyped
  <2> QED BY <2>1, <2>2, <2>3, AdminReadsTyped DEF ReconcileRead, Request
<1> QED BY <1>1, <1>2

LEMMA ReconcileSaveTyped ==
    ASSUME Typed, NEW a \in Admins, NEW d \in Data, ReconcileSave(a, d)
    PROVE  Typed'
<1> DEFINE old == admin[a].base[admin[a].uuid]
           next == [admin[a].base EXCEPT ![admin[a].uuid].data = d]
<1>1. old \in Invite
  BY OwnRequest DEF ReconcileSave, Holds, AdminState
<1>2. [old EXCEPT !.data = d] \in Row
  BY <1>1 DEF Invite, Row
<1>3. next \in Rows
  BY <1>2, OwnRequest DEF AdminState, Rows, Row
<1>4. ReplaceInvites(next)
  BY DEF ReconcileSave
<1>5. RowsTyped'
  BY <1>3, <1>4, ReplaceTyped DEF ReconcileSave, Typed, RowsTyped
<1> QED BY <1>5, EndsTyped, AdminOnlyTyped DEF ReconcileSave, Typed

LEMMA ReconcileConflictTyped ==
    ASSUME Typed, NEW a \in Admins, ReconcileConflict(a)
    PROVE  Typed'
<1>1. CASE admin[a].tries > 1
  <2> DEFINE r == [admin[a] EXCEPT !.pc = "reconcile", !.tries = @ - 1]
  <2>1. r \in Request
    <3>1. admin[a].tries - 1 \in 0..Attempts
      BY <1>1, OwnRequest, BoundAssumption DEF AdminState
    <3>2. r \in AdminState
      BY <3>1, OwnRequest DEF AdminState
    <3>3. r.pc = "reconcile"
      BY OwnRequest DEF AdminState
    <3> QED BY <3>2, <3>3 DEF Holds, Request
  <2>2. admin' = [admin EXCEPT ![a] = r]
    BY <1>1 DEF ReconcileConflict, Typed, AdminTyped
  <2> QED BY <2>1, <2>2, AdminReadsTyped DEF ReconcileConflict
<1>2. CASE ~(admin[a].tries > 1)
  BY <1>2, AdminRestsTyped DEF ReconcileConflict
<1> QED BY <1>1, <1>2

LEMMA DeleteReadsTrashTyped ==
    ASSUME Typed, NEW a \in Admins, DeleteReadsTrash(a)
    PROVE  Typed'
<1> DEFINE r == [admin[a] EXCEPT !.pc = "remove", !.items = trash, !.trev = trashRev]
<1>1. r \in AdminState
  BY OwnRequest DEF AdminState, Typed, RowsTyped
<1>2. r.pc = "remove"
  BY OwnRequest DEF AdminState
<1>3. r \in Request
  BY <1>1, <1>2 DEF Holds, Request
<1>4. admin' = [admin EXCEPT ![a] = r]
  BY DEF DeleteReadsTrash, Typed, AdminTyped
<1> QED BY <1>3, <1>4, AdminReadsTyped DEF DeleteReadsTrash

LEMMA DeleteInviteTyped ==
    ASSUME Typed, NEW a \in Admins, NEW i \in Items, DeleteInvite(a, i)
    PROVE  Typed'
<1>1. admin[a].uuid \in Uuids
  BY OwnRequest DEF AdminState
<1>2. RowsTyped'
  BY <1>1 DEF DeleteInvite, RemoveInvite, Typed, RowsTyped, Rows, Row, Optional
<1> QED BY <1>2, EndsTyped, AdminOnlyTyped DEF DeleteInvite, Typed

LEMMA ReadTrashTyped ==
    ASSUME Typed, NEW a \in Admins, NEW i \in Items, NEW op \in AdminOps, ReadTrash(a, op, i)
    PROVE  Typed'
<1> DEFINE r == [Resting EXCEPT !.pc = TrashStep(op), !.op = op,
                    !.items = trash, !.trev = trashRev,
                    !.uuid = IF op = "ip_group" THEN @ ELSE trash[i]]
<1>1. (IF op = "ip_group" THEN Resting.uuid ELSE trash[i]) \in Uuids
  <2>1. op # "ip_group" => trash[i] # NoItem
    BY DEF ReadTrash
  <2>2. trash[i] # NoItem => trash[i] \in Uuids
    BY DEF Typed, RowsTyped
  <2>3. Resting.uuid \in Uuids
    BY RestingTyped DEF Request, AdminState
  <2> QED BY <2>1, <2>2, <2>3
<1>2. TrashStep(op) \in {"invites", "purge", "savetrash"}
  BY DEF ReadTrash, TrashStep
<1>3. r \in AdminState
  BY <1>1, <1>2, RestingTyped DEF Request, AdminState, Typed, RowsTyped
<1>4. r.pc \notin {"save", "resave", "upsert"}
  BY <1>2, RestingTyped DEF Request, AdminState
<1>5. r \in Request
  BY <1>3, <1>4 DEF Holds, Request
<1> QED BY <1>5, AdminReadsTyped DEF ReadTrash

LEMMA RestoreReadsInvitesTyped ==
    ASSUME Typed, NEW a \in Admins, RestoreReadsInvites(a)
    PROVE  Typed'
<1>1. CASE Present(admin[a].uuid)
  BY <1>1, AdminRestsTyped DEF RestoreReadsInvites
<1>2. CASE ~Present(admin[a].uuid)
  <2> DEFINE r == [admin[a] EXCEPT !.pc = "restore", !.base = invites, !.rev = invRev]
  <2>1. r \in AdminState
    BY OwnRequest DEF AdminState, Rows, Row
  <2>2. r.pc = "restore"
    BY OwnRequest DEF AdminState
  <2>3. r \in Request
    BY <2>1, <2>2 DEF Holds, Request
  <2>4. admin' = [admin EXCEPT ![a] = r]
    BY <1>2 DEF RestoreReadsInvites, Typed, AdminTyped
  <2> QED BY <2>3, <2>4, AdminReadsTyped DEF RestoreReadsInvites
<1> QED BY <1>1, <1>2

LEMMA RestoreFromTrashTyped ==
    ASSUME Typed, NEW a \in Admins, NEW i \in Items, RestoreFromTrash(a, i)
    PROVE  Typed'
<1> DEFINE row == Issue(NewInvite(CHOOSE d \in Data : TRUE), NoDeadline)
<1>1. row \in Row
  BY SetAssumption, NewInviteTyped, IssueTyped DEF Typed, Deadlines, Row
<1>2. admin[a].uuid \in Uuids
  BY OwnRequest DEF AdminState
<1>3. invites' \in Rows
  BY <1>1, <1>2 DEF RestoreFromTrash, RestoreInvite, Typed, RowsTyped, Rows
<1>4. RowsTyped'
  BY <1>3 DEF RestoreFromTrash, RestoreInvite, Typed, RowsTyped
<1> QED BY <1>4, EndsTyped, AdminOnlyTyped DEF RestoreFromTrash, Typed

LEMMA TrashWritesTyped ==
    ASSUME Typed, NEW a \in Admins,
           SaveTrash(a) \/ \E i \in Items : PurgeFromTrash(a, i)
    PROVE  Typed'
<1>1. admin[a].items \in [Items -> Uuids \cup {NoItem}]
  BY OwnRequest DEF AdminState
<1>2. RowsTyped'
  BY <1>1 DEF SaveTrash, PurgeFromTrash, ReplaceTrash, PurgeTrash, Typed, RowsTyped
<1> QED BY <1>2, EndsTyped, AdminOnlyTyped DEF SaveTrash, PurgeFromTrash, Typed

LEMMA ReadMigrationBatchTyped ==
    ASSUME Typed, NEW a \in Admins, ReadMigrationBatch(a)
    PROVE  Typed'
<1> DEFINE r == [Resting EXCEPT !.pc = "migrate", !.op = "migrate", !.base = invites, !.rev = invRev]
<1>1. r \in AdminState
  BY OwnRequest, RestingTyped DEF ReadMigrationBatch, Starts, Request, AdminState, Rows, Row
<1>2. r.pc = "migrate"
  BY RestingTyped DEF Request, AdminState
<1>3. r \in Request
  BY <1>1, <1>2 DEF Holds, Request
<1> QED BY <1>3, AdminReadsTyped DEF ReadMigrationBatch

LEMMA MigratedTyped ==
    ASSUME Typed, NEW u \in Uuids, Present(u), NEW k \in Nat
    PROVE  Migrated(u, k) \in Invite
<1>1. invites[u] \in Invite
  BY DEF Present, Typed, RowsTyped, Rows, Row
<1>2. now + LegacyPeriod \in Nat
  BY PeriodAssumption DEF Typed, VisitorsTyped
<1> QED BY <1>1, <1>2 DEF Migrated, Invite, Deadlines

LEMMA CommitMigrationBatchTyped ==
    ASSUME Typed, NEW a \in Admins, NEW S \in SUBSET Uuids, CommitMigrationBatch(a, S)
    PROVE  Typed'
<1>1. Cardinality(S) \in Nat
  BY SetAssumption, FS_Subset, FS_CardinalityType
<1>2. PICK keyOf \in [S -> nextKey .. nextKey + Cardinality(S) - 1] : CommitMigration(keyOf)
  BY DEF CommitMigrationBatch
<1>3. nextKey \in Nat \ {0}
  BY DEF Typed, RowsTyped
<1>4. ASSUME NEW u \in S PROVE Migrated(u, keyOf[u]) \in Invite
  <2>1. Present(u)
    BY DEF CommitMigrationBatch
  <2>2. keyOf[u] \in Nat
    BY <1>1, <1>2, <1>3
  <2> QED BY <2>1, <2>2, MigratedTyped
<1>5. invites' \in Rows
  BY <1>2, <1>4 DEF CommitMigration, Typed, RowsTyped, Rows, Row
<1>6. nextKey' \in Nat \ {0}
  BY <1>1, <1>3 DEF CommitMigrationBatch
<1>7. RowsTyped'
  BY <1>2, <1>5, <1>6 DEF CommitMigrationBatch, CommitMigration, Typed, RowsTyped
<1> QED BY <1>7, EndsTyped, AdminOnlyTyped DEF CommitMigrationBatch, Typed

LEMMA SyncStartsTyped ==
    ASSUME Typed, NEW a \in Admins, SyncStarts(a)
    PROVE  Typed'
<1> DEFINE r == [Resting EXCEPT !.pc = "sync", !.op = "sync", !.rev = invRev]
<1>1. r \in AdminState
  BY OwnRequest, RestingTyped DEF SyncStarts, Starts, Request, AdminState
<1>2. r.pc = "sync"
  BY RestingTyped DEF Request, AdminState
<1>3. r \in Request
  BY <1>1, <1>2 DEF Holds, Request
<1> QED BY <1>3, AdminReadsTyped DEF SyncStarts

LEMMA SyncReadsTyped ==
    ASSUME Typed, NEW a \in Admins, NEW u \in Uuids, SyncReads(a, u)
    PROVE  Typed'
<1> DEFINE r == [admin[a] EXCEPT !.pc = "upsert", !.uuid = u, !.base = invites]
<1>1. r \in AdminState
  BY OwnRequest DEF AdminState, Rows, Row
<1>2. Holds(r)
  BY OwnRequest DEF SyncReads, Present, Holds, AdminState
<1>3. admin' = [admin EXCEPT ![a] = r]
  BY DEF SyncReads, Typed, AdminTyped
<1> QED BY <1>1, <1>2, <1>3, AdminReadsTyped DEF SyncReads, Request

(* A synchronisation between two invites. *)
LEMMA BetweenInvites ==
    ASSUME Typed, NEW a \in Admins, NEW rev \in Nat,
           admin' = [admin EXCEPT ![a].pc = "sync", ![a].rev = rev, ![a].base = Resting.base]
    PROVE  AdminTyped'
<1> DEFINE r == [admin[a] EXCEPT !.pc = "sync", !.rev = rev, !.base = Resting.base]
<1>1. r \in AdminState
  BY OwnRequest, RestingTyped DEF Request, AdminState
<1>2. r.pc = "sync"
  BY OwnRequest DEF AdminState
<1>3. r \in Request
  BY <1>1, <1>2 DEF Holds, Request
<1>4. admin' = [admin EXCEPT ![a] = r]
  BY DEF Typed, AdminTyped
<1> QED BY <1>3, <1>4 DEF Typed, AdminTyped

LEMMA SyncWritesTyped ==
    ASSUME Typed, NEW a \in Admins, NEW d \in Data, SyncWrites(a, d)
    PROVE  Typed'
<1> DEFINE old == admin[a].base[admin[a].uuid]
           next == [invites EXCEPT ![admin[a].uuid] = [old EXCEPT !.data = d]]
<1>1. old \in Invite
  BY OwnRequest DEF SyncWrites, Holds, AdminState
<1>2. [old EXCEPT !.data = d] \in Row
  BY <1>1 DEF Invite, Row
<1>3. next \in Rows
  BY <1>2, OwnRequest DEF Rows
<1>4. ReplaceInvites(next)
  BY DEF SyncWrites, UpsertInvite
<1>5. RowsTyped'
  BY <1>3, <1>4, ReplaceTyped DEF SyncWrites, Typed, RowsTyped
<1>6. admin[a].rev + 1 \in Nat
  BY OwnRequest DEF AdminState
<1>7. admin' = [admin EXCEPT ![a].pc = "sync", ![a].rev = admin[a].rev + 1, ![a].base = Resting.base]
  BY DEF SyncWrites, Typed, AdminTyped
<1>8. AdminTyped'
  BY <1>6, <1>7, BetweenInvites
<1> QED BY <1>5, <1>8, AdminOnlyTyped DEF SyncWrites, Typed

LEMMA SyncSkipsTyped ==
    ASSUME Typed, NEW a \in Admins, SyncSkips(a)
    PROVE  Typed'
<1> DEFINE r == [admin[a] EXCEPT !.pc = "sync", !.base = Resting.base]
<1>1. r \in AdminState
  BY OwnRequest, RestingTyped DEF Request, AdminState
<1>2. r.pc = "sync"
  BY OwnRequest DEF AdminState
<1>3. r \in Request
  BY <1>1, <1>2 DEF Holds, Request
<1>4. admin' = [admin EXCEPT ![a] = r]
  BY DEF SyncSkips, Typed, AdminTyped
<1> QED BY <1>3, <1>4, AdminReadsTyped DEF SyncSkips

LEMMA AdminStepTyped ==
    ASSUME Typed, NEW a \in Admins, AdminStep(a)
    PROVE  Typed'
<1>1. CASE \E u \in Uuids, op \in AdminOps : ReadInvites(a, op, u)
  BY <1>1, ReadInvitesTyped
<1>2. CASE \E d \in Data : SaveInvites(a, d)
  BY <1>2, SaveInvitesTyped
<1>3. CASE SaveInvitesConflict(a) \/ DeleteConflict(a) \/ RestoreConflict(a)
  BY <1>3, ConflictTyped DEF SaveInvitesConflict, DeleteConflict, RestoreConflict
<1>4. CASE ReconcileRead(a)
  BY <1>4, ReconcileReadTyped
<1>5. CASE \E d \in Data : ReconcileSave(a, d)
  BY <1>5, ReconcileSaveTyped
<1>6. CASE ReconcileConflict(a)
  BY <1>6, ReconcileConflictTyped
<1>7. CASE DeleteReadsTrash(a)
  BY <1>7, DeleteReadsTrashTyped
<1>8. CASE \E i \in Items : DeleteInvite(a, i)
  BY <1>8, DeleteInviteTyped
<1>9. CASE \E i \in Items, op \in AdminOps : ReadTrash(a, op, i)
  BY <1>9, ReadTrashTyped
<1>10. CASE RestoreReadsInvites(a)
  BY <1>10, RestoreReadsInvitesTyped
<1>11. CASE \E i \in Items : RestoreFromTrash(a, i)
  BY <1>11, RestoreFromTrashTyped
<1>12. CASE SaveTrash(a) \/ \E i \in Items : PurgeFromTrash(a, i)
  BY <1>12, TrashWritesTyped
<1>13. CASE TrashConflict(a) \/ MigrationConflict(a) \/ SyncEnds(a)
  BY <1>13, AdminRestsTyped DEF TrashConflict, MigrationConflict, SyncEnds
<1>14. CASE ReadMigrationBatch(a)
  BY <1>14, ReadMigrationBatchTyped
<1>15. CASE \E S \in SUBSET Uuids : CommitMigrationBatch(a, S)
  BY <1>15, CommitMigrationBatchTyped
<1>16. CASE SyncStarts(a)
  BY <1>16, SyncStartsTyped
<1>17. CASE \E u \in Uuids : SyncReads(a, u)
  BY <1>17, SyncReadsTyped
<1>18. CASE \E d \in Data : SyncWrites(a, d)
  BY <1>18, SyncWritesTyped
<1>19. CASE SyncSkips(a)
  BY <1>19, SyncSkipsTyped
<1> QED
  BY <1>1, <1>2, <1>3, <1>4, <1>5, <1>6, <1>7, <1>8, <1>9, <1>10, <1>11, <1>12,
     <1>13, <1>14, <1>15, <1>16, <1>17, <1>18, <1>19 DEF AdminStep

-----------------------------------------------------------------------------
(* Visitors. *)
LEMMA VisitorFrame ==
    ASSUME Typed, VisitorOnly, sessions' \in [Tokens -> Optional]
    PROVE  RowsTyped' /\ AdminTyped' /\ now' \in Nat /\ legacyOpen' \in BOOLEAN
BY DEF Typed, RowsTyped, AdminTyped, VisitorsTyped, VisitorOnly, stateVars

LEMMA PutTyped ==
    ASSUME Typed, NEW t \in Tokens, NEW s \in Session, PutPublicSession(t, s)
    PROVE  sessions' \in [Tokens -> Optional]
BY DEF PutPublicSession, Typed, RowsTyped, Optional

LEMMA SessionForTyped ==
    ASSUME Typed, NEW t \in Tokens, login[t] # NoLogin
    PROVE  SessionFor(login[t]) \in Session
<1> DEFINE l == login[t]
<1>1. l \in [uuid : Uuids, method : Methods, row : Invite, life : Nat] /\ now \in Nat
  BY DEF Typed, VisitorsTyped
<1>2. /\ l.uuid \in Uuids /\ l.method \in Methods /\ l.row \in Invite /\ l.life \in Nat
      /\ now + SessionTtl \in Nat
  BY <1>1, PeriodAssumption
<1>3. l.row.version \in Nat /\ l.row.key \in Nat
      /\ (l.row.deadline # NoDeadline => l.row.deadline \in Nat)
  BY <1>2 DEF Invite, Deadlines
<1>4. (IF l.method = "legacy_uuid" /\ l.row.deadline # NoDeadline
       THEN Earlier(now + SessionTtl, l.row.deadline) ELSE now + SessionTtl) \in Nat
  BY <1>2, <1>3 DEF Earlier
<1>5. (IF l.method = "access_key" THEN l.row.key ELSE 0) \in Nat
  BY <1>3
<1> QED BY <1>2, <1>3, <1>4, <1>5 DEF SessionFor, Session

LEMMA ImportExpiryTyped ==
    ASSUME Typed, NEW s \in Session, Present(s.uuid)
    PROVE  ImportExpiry(s) \in Session
<1>1. s.uuid \in Uuids
  BY DEF Session
<1>2. invites[s.uuid] \in Invite
  BY <1>1 DEF Typed, RowsTyped, Rows, Row, Present
<1>3. CASE s.method = "legacy_uuid" /\ invites[s.uuid].deadline # NoDeadline
  <2>1. Earlier(s.expiresAt, invites[s.uuid].deadline) \in Nat
    BY <1>2, <1>3 DEF Session, Invite, Deadlines, Earlier
  <2> QED BY <1>3, <2>1 DEF ImportExpiry, Session
<1> QED BY <1>3 DEF ImportExpiry

LEMMA VisitorStepTyped ==
    ASSUME Typed, NEW t \in Tokens, VisitorStep(t)
    PROVE  Typed'
<1>1. ASSUME NEW u \in Uuids, NEW m \in Methods, FindInvite(t, u, m) PROVE Typed'
  <2>1. invites[u] \in Invite /\ gen[u] \in Nat
    BY <1>1 DEF FindInvite, Present, Typed, RowsTyped, Rows, Row
  <2>2. [uuid |-> u, method |-> m, row |-> invites[u], life |-> gen[u]]
          \in [uuid : Uuids, method : Methods, row : Invite, life : Nat]
    BY <2>1
  <2>3. sessions' \in [Tokens -> Optional]
    BY <1>1 DEF FindInvite, Typed, RowsTyped
  <2>4. VisitorsTyped'
    BY <1>1, <2>2, <2>3, VisitorFrame DEF FindInvite, Typed, VisitorsTyped
  <2> QED BY <1>1, <2>3, <2>4, VisitorFrame DEF FindInvite, Typed
<1>2. CASE CreateSession(t)
  <2>1. sessions' \in [Tokens -> Optional]
    BY <1>2, PutTyped, SessionForTyped DEF CreateSession
  <2>2. VisitorsTyped'
    BY <1>2, <2>1, VisitorFrame DEF CreateSession, Typed, VisitorsTyped
  <2> QED BY <1>2, <2>1, <2>2, VisitorFrame DEF CreateSession, Typed
<1>3. CASE ReadSession(t)
  <2>1. sessions' \in [Tokens -> Optional]
    BY <1>3 DEF ReadSession, Typed, RowsTyped, Optional
  <2>2. reader' \in [Tokens -> Reading]
    <3> DEFINE r == [reader[t] EXCEPT !.pc = "kv"]
    <3>1. r \in Reading
      BY DEF Typed, VisitorsTyped, Reading
    <3> QED BY <1>3, <3>1 DEF ReadSession, Typed, VisitorsTyped
  <2>3. VisitorsTyped'
    BY <1>3, <2>1, <2>2, VisitorFrame DEF ReadSession, Typed, VisitorsTyped
  <2> QED BY <1>3, <2>1, <2>3, VisitorFrame DEF ReadSession, Typed
<1>4. CASE ReadLegacySession(t)
  <2>1. sessions' \in [Tokens -> Optional]
    BY <1>4 DEF ReadLegacySession, Typed, RowsTyped
  <2>2. reader' \in [Tokens -> Reading]
    BY <1>4 DEF ReadLegacySession, Typed, VisitorsTyped, Reading, Optional
  <2>3. VisitorsTyped'
    BY <1>4, <2>1, <2>2, VisitorFrame DEF ReadLegacySession, Typed, VisitorsTyped
  <2> QED BY <1>4, <2>1, <2>3, VisitorFrame DEF ReadLegacySession, Typed
<1>5. CASE ReadInviteForLegacy(t)
  <2> DEFINE s == reader[t].payload
  <2>1. sessions' \in [Tokens -> Optional]
    BY <1>5 DEF ReadInviteForLegacy, Typed, RowsTyped
  <2>2. s \in Session
    BY <1>5 DEF ReadInviteForLegacy, Typed, VisitorsTyped, Reading, Optional
  <2>3. Present(s.uuid) => ImportExpiry(s) \in Session
    BY <2>2, ImportExpiryTyped
  <2>4. reader' \in [Tokens -> Reading]
    BY <1>5, <2>2, <2>3 DEF ReadInviteForLegacy, Typed, VisitorsTyped, Reading, Optional
  <2>5. VisitorsTyped'
    BY <1>5, <2>1, <2>4, VisitorFrame DEF ReadInviteForLegacy, Typed, VisitorsTyped
  <2> QED BY <1>5, <2>1, <2>5, VisitorFrame DEF ReadInviteForLegacy, Typed
<1>6. CASE PutLegacySession(t)
  <2>1. reader[t].payload \in Session
    BY <1>6 DEF PutLegacySession, Typed, VisitorsTyped, Reading, Optional
  <2>2. sessions' \in [Tokens -> Optional]
    BY <1>6, <2>1, PutTyped DEF PutLegacySession
  <2>3. reader' \in [Tokens -> Reading]
    BY <1>6 DEF PutLegacySession, Typed, VisitorsTyped, Reading, Optional
  <2>4. VisitorsTyped'
    BY <1>6, <2>2, <2>3, VisitorFrame DEF PutLegacySession, Typed, VisitorsTyped
  <2> QED BY <1>6, <2>2, <2>4, VisitorFrame DEF PutLegacySession, Typed
<1>7. CASE LogoutKv(t)
  <2>1. sessions' \in [Tokens -> Optional]
    BY <1>7 DEF LogoutKv, Typed, RowsTyped
  <2>2. VisitorsTyped'
    BY <1>7, <2>1, VisitorFrame DEF LogoutKv, Typed, VisitorsTyped, Optional
  <2> QED BY <1>7, <2>1, <2>2, VisitorFrame DEF LogoutKv, Typed
<1>8. CASE LogoutObject(t)
  <2>1. sessions' \in [Tokens -> Optional]
    BY <1>8 DEF LogoutObject, DeleteSession, Typed, RowsTyped, Optional
  <2>2. VisitorsTyped'
    BY <1>8, <2>1, VisitorFrame DEF LogoutObject, Typed, VisitorsTyped
  <2> QED BY <1>8, <2>1, <2>2, VisitorFrame DEF LogoutObject, Typed
<1>9. CASE CleanupDeletesKey(t)
  <2>1. sessions' \in [Tokens -> Optional]
    BY <1>9 DEF CleanupDeletesKey, Typed, RowsTyped
  <2>2. VisitorsTyped'
    BY <1>9, <2>1, VisitorFrame DEF CleanupDeletesKey, Typed, VisitorsTyped, Optional
  <2> QED BY <1>9, <2>1, <2>2, VisitorFrame DEF CleanupDeletesKey, Typed
<1> QED
  BY <1>1, <1>2, <1>3, <1>4, <1>5, <1>6, <1>7, <1>8, <1>9 DEF VisitorStep

-----------------------------------------------------------------------------
LEMMA LegacySessionTyped ==
    ASSUME NEW u \in Uuids, NEW row \in Invite
    PROVE  LegacySession(u, row) \in Session
<1>1. /\ row.key \in Nat /\ row.version \in Nat
      /\ (row.deadline # NoDeadline => row.deadline \in Nat)
  BY DEF Invite, Deadlines
<1>2. SessionTtl \in Nat
  BY PeriodAssumption
<1>3. (IF row.deadline = NoDeadline THEN SessionTtl ELSE Earlier(SessionTtl, row.deadline)) \in Nat
  BY <1>1, <1>2 DEF Earlier
<1>4. (IF row.deadline = NoDeadline THEN row.key ELSE 0) \in Nat
  BY <1>1
<1> QED BY <1>1, <1>3, <1>4 DEF LegacySession, Session, Methods

LEMMA InitTyped ==
    ASSUME Init
    PROVE  Typed
<1>1. PICK n \in 0..MaxKeys, keyed \in SUBSET Uuids, plain \in SUBSET Uuids :
        \E keyOf \in [keyed -> 1..n], until \in [keyed -> {NoDeadline, LegacyPeriod}] :
          ImportedInvites(n, keyed, plain, keyOf, until)
  BY DEF Init
<1>2. PICK keyOf \in [keyed -> 1..n], until \in [keyed -> {NoDeadline, LegacyPeriod}] :
          ImportedInvites(n, keyed, plain, keyOf, until)
  BY <1>1
<1>3. ASSUME NEW k \in Nat, NEW deadline \in {NoDeadline, LegacyPeriod}
      PROVE  ImportedRow(k, deadline) \in Invite
  BY SetAssumption, PeriodAssumption DEF ImportedRow, Invite, Deadlines
<1>4. invites \in Rows
  <2>1. ASSUME NEW u \in Uuids PROVE invites[u] \in Row
    <3>1. u \in keyed => keyOf[u] \in Nat /\ until[u] \in {NoDeadline, LegacyPeriod}
      OBVIOUS
    <3> QED BY <1>2, <1>3, <3>1 DEF ImportedInvites, Row
  <2> QED BY <1>2, <2>1 DEF ImportedInvites, Rows
<1>5. nextKey \in Nat \ {0}
  <2>1. n \in Nat
    BY BoundAssumption
  <2> QED BY <1>2, <2>1 DEF ImportedInvites
<1>6. RowsTyped
  <2>1. trash \in [Items -> {NoItem}] /\ sessions \in [Tokens -> {NoSession}] /\ gen \in [Uuids -> {0}]
    BY DEF Init
  <2>2. invRev = 1 /\ trashRev = 0
    BY DEF Init
  <2> QED BY <1>4, <1>5, <2>1, <2>2 DEF RowsTyped, Optional
<1>7. AdminTyped
  BY RestingTyped DEF Init, AdminTyped
<1>8. kv \in [Tokens -> Optional]
  <2>1. kv \in [Tokens -> {LegacySession(u, invites[u]) : u \in {v \in Uuids : Present(v)}}
                          \cup {NoSession}]
    BY DEF Init
  <2>2. ASSUME NEW u \in Uuids, Present(u) PROVE LegacySession(u, invites[u]) \in Session
    BY <1>4, <2>2, LegacySessionTyped DEF Present, Rows, Row
  <2> QED BY <2>1, <2>2 DEF Optional
<1>9. /\ now \in Nat
      /\ legacyOpen \in BOOLEAN
      /\ login \in [Tokens -> {NoLogin}]
      /\ leaving \subseteq Tokens
      /\ born \subseteq Tokens
      /\ gone \subseteq Tokens
  BY TokenAssumption DEF Init
<1>10. reader \in [Tokens -> Reading]
  BY DEF Init, Reading, Optional
<1> QED BY <1>6, <1>7, <1>8, <1>9, <1>10 DEF Typed, VisitorsTyped

(* No step lets a row, a session or a request leave its shape. *)
LEMMA StepTyped ==
    ASSUME Typed, [Next]_vars
    PROVE  Typed'
<1>1. ASSUME NEW a \in Admins, AdminStep(a) PROVE Typed'
  BY <1>1, AdminStepTyped
<1>2. ASSUME NEW t \in Tokens, VisitorStep(t) PROVE Typed'
  BY <1>2, VisitorStepTyped
<1>3. CASE PurgeExpiredSessions
  <2>1. sessions' \in [Tokens -> Optional]
    BY <1>3 DEF PurgeExpiredSessions, Typed, RowsTyped, Optional
  <2>2. VisitorsTyped'
    BY <1>3, <2>1, VisitorFrame DEF PurgeExpiredSessions, Typed, VisitorsTyped, visitorVars
  <2> QED BY <1>3, <2>1, <2>2, VisitorFrame DEF PurgeExpiredSessions, Typed
<1>4. CASE CleanupCompletes
  BY <1>4 DEF CleanupCompletes, Typed, RowsTyped, AdminTyped, VisitorsTyped, stateVars, visitorVars
<1>5. CASE Tick
  BY <1>5 DEF Tick, Typed, RowsTyped, AdminTyped, VisitorsTyped, stateVars, visitorVars
<1>6. CASE UNCHANGED vars
  BY <1>6 DEF vars, Typed, RowsTyped, AdminTyped, VisitorsTyped, stateVars, visitorVars
<1> QED BY <1>1, <1>2, <1>3, <1>4, <1>5, <1>6 DEF Next

LEMMA AlwaysTyped == Spec => []Typed
<1> QED BY InitTyped, StepTyped, PTL DEF Spec

(* Every variable keeps the shape its rows and requests have in the code, for *)
(* any number of invites, browsers and overlapping requests.                 *)
THEOREM TypeCorrect == Spec => []TypeOK
BY AlwaysTyped, TypedIsTypeOK, PTL

-----------------------------------------------------------------------------
(* Sessions and the invites they stand on. *)
LEMMA UnchangedSupports ==
    ASSUME StoredSessionsSupported, UNCHANGED <<invites, sessions>>
    PROVE  StoredSessionsSupported'
BY DEF StoredSessionsSupported, SupportedSession, Present, AccessSessionValid

(* Sessions that were dropped or stay as they were, under the same invites. *)
LEMMA FewerSessionsSupports ==
    ASSUME StoredSessionsSupported, UNCHANGED invites,
           \A t \in Tokens : sessions'[t] \in {sessions[t], NoSession}
    PROVE  StoredSessionsSupported'
BY DEF StoredSessionsSupported, SupportedSession, Present, AccessSessionValid

LEMMA AcceptedIsSupported ==
    ASSUME NEW s \in Session, Accepts(s)
    PROVE  SupportedSession(s)
<1>1. s.method \in {"access_key", "legacy_uuid"}
  BY DEF Session, Methods
<1>2. CASE s.method = "access_key"
  BY <1>2 DEF Accepts, Acceptable, SupportedSession
<1>3. CASE s.method = "legacy_uuid"
  BY <1>3 DEF Accepts, Acceptable, LegacySessionValid, SupportedSession
<1> QED BY <1>1, <1>2, <1>3

LEMMA PutSupports ==
    ASSUME Typed, StoredSessionsSupported, NEW t \in Tokens, NEW s \in Session,
           PutPublicSession(t, s), UNCHANGED invites
    PROVE  StoredSessionsSupported'
<1>1. CASE Accepts(s)
  <2>1. SupportedSession(s)
    BY <1>1, AcceptedIsSupported
  <2>2. sessions' = [sessions EXCEPT ![t] = s]
    BY <1>1 DEF PutPublicSession
  <2>3. ASSUME NEW x \in Tokens, NEW r, r = sessions'[x], r # NoSession PROVE SupportedSession(r)'
    <3>1. SupportedSession(r)
      BY <2>1, <2>2, <2>3 DEF StoredSessionsSupported, Typed, RowsTyped
    <3> QED BY <3>1 DEF SupportedSession, Present, AccessSessionValid
  <2> QED BY <2>3 DEF StoredSessionsSupported
<1>2. CASE ~Accepts(s)
  BY <1>2, UnchangedSupports DEF PutPublicSession
<1> QED BY <1>1, <1>2

(* Reconciliation keeps only what the new row supports. *)
LEMMA ReconciledSupported ==
    ASSUME NEW next \in Rows, invites' = next, NEW s \in Session, NEW r,
           SupportedSession(s), r = RevokedFor(s, next), r # NoSession
    PROVE  SupportedSession(r)'
<1> DEFINE old == invites[s.uuid]
           new == next[s.uuid]
<1>1. Present(s.uuid)
  BY DEF SupportedSession
<1>2. s # NoSession
  BY DEF RevokedFor
<1>3. new # NoInvite /\ r = Reconciled(s, old, new)
  BY <1>1, <1>2 DEF RevokedFor
<1>4. CASE s.method = "access_key"
  <2>1. r = s /\ old.key = new.key /\ old.version = new.version
    BY <1>3, <1>4 DEF Reconciled, ReconciledAccess
  <2>2. old.key # 0 /\ s.version = old.version
    BY <1>4 DEF SupportedSession, AccessSessionValid
  <2>3. AccessSessionValid(r, new) /\ r.uuid = s.uuid /\ r.method = "access_key"
    BY <1>4, <2>1, <2>2 DEF AccessSessionValid
  <2> QED BY <1>3, <2>3 DEF SupportedSession, Present, AccessSessionValid
<1>5. CASE s.method = "legacy_uuid"
  <2>1. r = ReconciledLegacy(s, new)
    BY <1>3, <1>5 DEF Reconciled
  <2>2. new.deadline # NoDeadline \/ new.key = 0
    BY <2>1 DEF ReconciledLegacy
  <2>3. r.uuid = s.uuid /\ r.method = s.method
    <3>1. CASE r = s
      BY <3>1
    <3>2. CASE new.deadline # NoDeadline
      <4>1. r = [s EXCEPT !.expiresAt = Earlier(s.expiresAt, new.deadline)]
        BY <2>1, <3>2 DEF ReconciledLegacy, Clamped
      <4> QED BY <4>1 DEF Session
    <3> QED BY <2>1, <3>1, <3>2 DEF ReconciledLegacy
  <2> QED BY <1>3, <1>5, <2>2, <2>3 DEF SupportedSession, Present
<1> QED BY <1>4, <1>5 DEF Session, Methods

LEMMA ReplaceSupports ==
    ASSUME Typed, StoredSessionsSupported, NEW next \in Rows, ReplaceInvites(next)
    PROVE  StoredSessionsSupported'
<1>1. ASSUME NEW t \in Tokens, NEW r, r = sessions'[t], r # NoSession
      PROVE  SupportedSession(r)'
  <2>1. r = RevokedFor(sessions[t], next) /\ invites' = next
    BY <1>1 DEF ReplaceInvites
  <2>2. sessions[t] # NoSession
    BY <1>1, <2>1 DEF RevokedFor
  <2>3. sessions[t] \in Session /\ SupportedSession(sessions[t])
    BY <2>2 DEF Typed, RowsTyped, Optional, StoredSessionsSupported
  <2> QED BY <1>1, <2>1, <2>3, ReconciledSupported
<1> QED BY <1>1 DEF StoredSessionsSupported

LEMMA DeleteSupports ==
    ASSUME Typed, StoredSessionsSupported, NEW a \in Admins, NEW i \in Items, DeleteInvite(a, i)
    PROVE  StoredSessionsSupported'
<1> DEFINE u == admin[a].uuid
<1>1. /\ invites' = [invites EXCEPT ![u] = NoInvite]
      /\ sessions' = [t \in Tokens |-> IF t \in SessionsOf(u) THEN NoSession ELSE sessions[t]]
  BY DEF DeleteInvite, RemoveInvite
<1>2. ASSUME NEW t \in Tokens, NEW r, r = sessions'[t], r # NoSession
      PROVE  SupportedSession(r)'
  <2>1. r = sessions[t] /\ r.uuid # u
    BY <1>1, <1>2 DEF SessionsOf
  <2>2. SupportedSession(r) /\ r.uuid \in Uuids
    BY <1>2, <2>1 DEF StoredSessionsSupported, Typed, RowsTyped, Optional, Session
  <2>3. invites'[r.uuid] = invites[r.uuid]
    BY <1>1, <2>1, <2>2 DEF Typed, RowsTyped, Rows
  <2> QED BY <2>2, <2>3 DEF SupportedSession, Present, AccessSessionValid
<1> QED BY <1>2 DEF StoredSessionsSupported

LEMMA RestoreSupports ==
    ASSUME Typed, StoredSessionsSupported, NEW a \in Admins, NEW i \in Items, RestoreFromTrash(a, i)
    PROVE  StoredSessionsSupported'
<1> DEFINE u == admin[a].uuid
<1>1. /\ ~Present(u)
      /\ sessions' = sessions
      /\ \A v \in Uuids : v # u => invites'[v] = invites[v]
  BY DEF RestoreFromTrash, RestoreInvite, Typed, RowsTyped, Rows
<1>2. ASSUME NEW t \in Tokens, NEW r, r = sessions[t], r # NoSession
      PROVE  SupportedSession(r)'
  <2>1. SupportedSession(r) /\ r.uuid \in Uuids
    BY <1>2 DEF StoredSessionsSupported, Typed, RowsTyped, Optional, Session
  <2>2. r.uuid # u
    BY <1>1, <2>1 DEF SupportedSession
  <2>3. invites'[r.uuid] = invites[r.uuid]
    BY <1>1, <2>1, <2>2
  <2> QED BY <2>1, <2>3 DEF SupportedSession, Present, AccessSessionValid
<1> QED BY <1>1, <1>2 DEF StoredSessionsSupported

(* The migration batch leaves the sessions alone: its invites had no key, so  *)
(* they have legacy sessions only, and it gives them a deadline.             *)
LEMMA MigrationSupports ==
    ASSUME Typed, StoredSessionsSupported, NEW a \in Admins, NEW S \in SUBSET Uuids,
           CommitMigrationBatch(a, S)
    PROVE  StoredSessionsSupported'
<1>1. PICK keyOf \in [S -> nextKey .. nextKey + Cardinality(S) - 1] : CommitMigration(keyOf)
  BY DEF CommitMigrationBatch
<1>2. sessions' = sessions
  BY <1>1 DEF CommitMigration
<1>3. ASSUME NEW t \in Tokens, NEW r, r = sessions[t], r # NoSession
      PROVE  SupportedSession(r)'
  <2>1. SupportedSession(r) /\ r.uuid \in Uuids
    BY <1>3 DEF StoredSessionsSupported, Typed, RowsTyped, Optional, Session
  <2>2. CASE r.uuid \notin S
    <3>1. invites'[r.uuid] = invites[r.uuid]
      BY <1>1, <2>1, <2>2 DEF CommitMigration
    <3> QED BY <2>1, <3>1 DEF SupportedSession, Present, AccessSessionValid
  <2>3. CASE r.uuid \in S
    <3>1. invites[r.uuid].key = 0 /\ Present(r.uuid)
      BY <2>3 DEF CommitMigrationBatch
    <3>2. r.method # "access_key"
      BY <2>1, <3>1 DEF SupportedSession, AccessSessionValid
    <3>3. invites'[r.uuid] = Migrated(r.uuid, keyOf[r.uuid])
      BY <1>1, <2>1, <2>3 DEF CommitMigration
    <3>4. keyOf[r.uuid] \in Nat
      <4>1. Cardinality(S) \in Nat /\ nextKey \in Nat
        BY SetAssumption, FS_Subset, FS_CardinalityType DEF Typed, RowsTyped
      <4> QED BY <1>1, <2>3, <4>1
    <3>5. invites'[r.uuid] # NoInvite
      BY <2>1, <3>1, <3>3, <3>4, MigratedTyped, AbsenceAssumption
    <3>6. now + LegacyPeriod # NoDeadline
      <4>1. now + LegacyPeriod \in Nat
        BY PeriodAssumption DEF Typed, VisitorsTyped
      <4> QED BY <4>1, AbsenceAssumption
    <3>7. invites'[r.uuid].deadline # NoDeadline
      BY <3>3, <3>6 DEF Migrated
    <3> QED BY <3>2, <3>5, <3>7 DEF SupportedSession, Present
  <2> QED BY <2>2, <2>3
<1> QED BY <1>2, <1>3 DEF StoredSessionsSupported

LEMMA AdminStepSupports ==
    ASSUME Typed, StoredSessionsSupported, NEW a \in Admins, AdminStep(a)
    PROVE  StoredSessionsSupported'
<1>1. CASE ReadOnly
  BY <1>1, UnchangedSupports DEF ReadOnly, stateVars
<1>2. ASSUME NEW d \in Data, SaveInvites(a, d) PROVE StoredSessionsSupported'
  <2> DEFINE next == [admin[a].base EXCEPT ![admin[a].uuid] = Written(a, d)]
  <2>1. next \in Rows
    BY <1>2, WrittenTyped, OwnRequest DEF SaveInvites, AdminState, Rows, Row
  <2> QED BY <1>2, <2>1, ReplaceSupports DEF SaveInvites
<1>3. ASSUME NEW d \in Data, ReconcileSave(a, d) PROVE StoredSessionsSupported'
  <2> DEFINE old == admin[a].base[admin[a].uuid]
             next == [admin[a].base EXCEPT ![admin[a].uuid].data = d]
  <2>1. old \in Invite
    BY <1>3, OwnRequest DEF ReconcileSave, Holds, AdminState
  <2>2. [old EXCEPT !.data = d] \in Row
    BY <2>1 DEF Invite, Row
  <2>3. next \in Rows
    BY <2>2, OwnRequest DEF AdminState, Rows, Row
  <2> QED BY <1>3, <2>3, ReplaceSupports DEF ReconcileSave
<1>4. ASSUME NEW i \in Items, DeleteInvite(a, i) PROVE StoredSessionsSupported'
  BY <1>4, DeleteSupports
<1>5. ASSUME NEW i \in Items, RestoreFromTrash(a, i) PROVE StoredSessionsSupported'
  BY <1>5, RestoreSupports
<1>6. CASE SaveTrash(a) \/ \E i \in Items : PurgeFromTrash(a, i)
  BY <1>6, UnchangedSupports DEF SaveTrash, PurgeFromTrash, ReplaceTrash, PurgeTrash
<1>7. ASSUME NEW S \in SUBSET Uuids, CommitMigrationBatch(a, S) PROVE StoredSessionsSupported'
  BY <1>7, MigrationSupports
<1>8. ASSUME NEW d \in Data, SyncWrites(a, d) PROVE StoredSessionsSupported'
  <2> DEFINE old == admin[a].base[admin[a].uuid]
             next == [invites EXCEPT ![admin[a].uuid] = [old EXCEPT !.data = d]]
  <2>1. old \in Invite
    BY <1>8, OwnRequest DEF SyncWrites, Holds, AdminState
  <2>2. [old EXCEPT !.data = d] \in Row
    BY <2>1 DEF Invite, Row
  <2>3. next \in Rows
    BY <2>2, OwnRequest DEF Rows
  <2> QED BY <1>8, <2>3, ReplaceSupports DEF SyncWrites, UpsertInvite
<1> QED
  BY <1>1, <1>2, <1>3, <1>4, <1>5, <1>6, <1>7, <1>8 DEF AdminStep, ReadInvites,
     SaveInvitesConflict, ReconcileRead, ReconcileConflict, DeleteReadsTrash, DeleteConflict,
     ReadTrash, RestoreReadsInvites, RestoreConflict, TrashConflict, ReadMigrationBatch,
     MigrationConflict, SyncStarts, SyncReads, SyncSkips, SyncEnds

LEMMA VisitorStepSupports ==
    ASSUME Typed, StoredSessionsSupported, NEW t \in Tokens, VisitorStep(t)
    PROVE  StoredSessionsSupported'
<1>1. CASE \/ \E u \in Uuids, m \in Methods : FindInvite(t, u, m)
           \/ ReadLegacySession(t) \/ ReadInviteForLegacy(t)
           \/ LogoutKv(t) \/ CleanupDeletesKey(t)
  BY <1>1, UnchangedSupports DEF FindInvite, ReadLegacySession, ReadInviteForLegacy,
     LogoutKv, CleanupDeletesKey, VisitorOnly, stateVars
<1>2. CASE CreateSession(t)
  BY <1>2, SessionForTyped, PutSupports DEF CreateSession, VisitorOnly, stateVars
<1>3. CASE PutLegacySession(t)
  <2>1. reader[t].payload \in Session
    BY <1>3 DEF PutLegacySession, Typed, VisitorsTyped, Reading
  <2> QED BY <1>3, <2>1, PutSupports DEF PutLegacySession, VisitorOnly, stateVars
<1>4. CASE ReadSession(t) \/ LogoutObject(t)
  BY <1>4, FewerSessionsSupports
     DEF ReadSession, LogoutObject, DeleteSession, VisitorOnly, stateVars, Typed, RowsTyped
<1> QED BY <1>1, <1>2, <1>3, <1>4 DEF VisitorStep

(* No stored public session outlives what it stands on, whatever requests     *)
(* overlap: its invite exists, an access-key session carries its current      *)
(* credential version, a legacy session of a migrated invite has a deadline.  *)
THEOREM SessionsAlwaysSupported == Spec => []StoredSessionsSupported
<1>1. Init => StoredSessionsSupported
  BY DEF Init, StoredSessionsSupported
<1>2. Typed /\ StoredSessionsSupported /\ [Next]_vars => StoredSessionsSupported'
  <2> SUFFICES ASSUME Typed, StoredSessionsSupported, [Next]_vars
               PROVE  StoredSessionsSupported'
    OBVIOUS
  <2>1. CASE PurgeExpiredSessions
    BY <2>1, FewerSessionsSupports
       DEF PurgeExpiredSessions, VisitorOnly, stateVars, Typed, RowsTyped
  <2>2. CASE CleanupCompletes \/ Tick \/ UNCHANGED vars
    BY <2>2, UnchangedSupports DEF CleanupCompletes, Tick, vars, stateVars
  <2> QED BY <2>1, <2>2, AdminStepSupports, VisitorStepSupports DEF Next
<1> QED BY <1>1, <1>2, AlwaysTyped, PTL DEF Spec

-----------------------------------------------------------------------------
(* Admin requests work on copies.  What a request goes back to write with is  *)
(* what is stored, as long as the revision it holds has not moved on; and it  *)
(* looked, when it read, for what its kind of operation needs.               *)
WithInvites == {"save", "trash", "remove", "resave", "restore", "migrate", "upsert"}
WithTrash   == {"remove", "invites", "restore", "purge", "savetrash"}

Current(r) ==
    /\ r.rev <= invRev /\ r.trev <= trashRev
    /\ (r.pc \in WithInvites /\ r.rev = invRev) => r.base = invites
    /\ (r.pc \in WithTrash /\ r.trev = trashRev) => r.items = trash

Purposeful(r) ==
    /\ (r.pc = "save" /\ r.op = "create") => r.base[r.uuid] = NoInvite
    /\ r.pc \in {"trash", "remove"} => r.base[r.uuid] # NoInvite
    /\ r.pc = "purge" => r.op = "purge"

KeysIssued == \A u \in Uuids : Present(u) => invites[u].key < nextKey

CopiesSound == \A a \in Admins : Current(admin[a]) /\ Purposeful(admin[a])

-----------------------------------------------------------------------------
(* The revisions follow the collections.                                     *)
Moves ==
    /\ (invRev' = invRev /\ invites' = invites) \/ invRev' = invRev + 1
    /\ (trashRev' = trashRev /\ trash' = trash) \/ trashRev' = trashRev + 1

LEMMA OthersSound ==
    ASSUME Typed, CopiesSound, Moves, NEW a \in Admins, NEW b \in Admins, admin'[b] = admin[b]
    PROVE  (Current(admin[b]) /\ Purposeful(admin[b]))'
<1>1. admin[b].rev \in Nat /\ admin[b].trev \in Nat /\ invRev \in Nat /\ trashRev \in Nat
  BY OwnRequest DEF AdminState
<1>2. Current(admin[b])'
  BY <1>1 DEF CopiesSound, Current, Moves
<1>3. Purposeful(admin[b])'
  BY DEF CopiesSound, Purposeful
<1> QED BY <1>2, <1>3

LEMMA RestingSound ==
    ASSUME Typed, CopiesSound, Moves, NEW a \in Admins, Ends(a)
    PROVE  CopiesSound'
<1>1. admin'[a] = Resting /\ \A b \in Admins \ {a} : admin'[b] = admin[b]
  BY DEF Ends, Typed, AdminTyped
<1>2. invRev' \in Nat /\ trashRev' \in Nat
  BY OwnRequest DEF Moves
<1>3. Current(admin[a])'
  BY <1>1, <1>2 DEF Current, Resting, WithInvites, WithTrash
<1>4. Purposeful(admin[a])'
  BY <1>1 DEF Purposeful, Resting
<1> QED BY <1>1, <1>3, <1>4, OthersSound DEF CopiesSound

LEMMA ReadingSound ==
    ASSUME Typed, CopiesSound, ReadOnly, NEW a \in Admins, NEW r \in AdminState,
           admin' = [admin EXCEPT ![a] = r], Current(r), Purposeful(r)
    PROVE  CopiesSound'
<1>1. admin'[a] = r /\ \A b \in Admins \ {a} : admin'[b] = admin[b]
  BY DEF Typed, AdminTyped
<1>2. Moves
  BY DEF ReadOnly, stateVars, Moves
<1>3. Current(admin[a])'
  BY <1>1 DEF Current, ReadOnly, stateVars
<1>4. Purposeful(admin[a])'
  BY <1>1 DEF Purposeful
<1> QED BY <1>1, <1>2, <1>3, <1>4, OthersSound DEF CopiesSound

(* A request that is given up or gets a conflict rests or reads again.        *)
LEMMA ConflictSound ==
    ASSUME Typed, CopiesSound, ReadOnly, NEW a \in Admins, Conflicts(a)
    PROVE  CopiesSound'
<1> DEFINE r == IF admin[a].op = "rotate" THEN Resting
                ELSE [Resting EXCEPT !.pc = "reconcile", !.op = admin[a].op,
                                     !.uuid = admin[a].uuid, !.tries = FirstTry]
<1>1. admin' = [admin EXCEPT ![a] = r]
  BY DEF Conflicts, Typed, AdminTyped
<1>2. r \in AdminState
  BY <1>1, ConflictsTyped DEF Typed, AdminTyped, Request
<1>3. r.rev = 0 /\ r.trev = 0 /\ r.pc \in {"idle", "reconcile"}
  BY DEF Resting
<1>4. Current(r) /\ Purposeful(r)
  BY <1>3, OwnRequest DEF Current, Purposeful, WithInvites, WithTrash
<1> QED BY <1>1, <1>2, <1>4, ReadingSound

LEMMA ReadsSound ==
    ASSUME Typed, CopiesSound, ReadOnly, NEW a \in Admins,
           \/ \E u \in Uuids, op \in AdminOps : ReadInvites(a, op, u)
           \/ \E i \in Items, op \in AdminOps : ReadTrash(a, op, i)
           \/ ReadMigrationBatch(a) \/ SyncStarts(a)
    PROVE  CopiesSound'
<1>1. ASSUME NEW u \in Uuids, NEW op \in AdminOps, ReadInvites(a, op, u) PROVE CopiesSound'
  <2> DEFINE r == [Resting EXCEPT !.pc = NextStep(op), !.op = op,
                      !.uuid = u, !.base = invites, !.rev = invRev]
  <2>1. r \in AdminState
    BY <1>1, OwnRequest, RestingTyped DEF Request, AdminState, NextStep, Rows, Row
  <2>2. /\ r.pc = NextStep(op) /\ r.op = op /\ r.uuid = u /\ r.base = invites
        /\ r.rev = invRev /\ r.trev = 0
    BY DEF Resting
  <2>3. Current(r)
    BY <2>2, OwnRequest DEF Current, NextStep, WithTrash
  <2>5. admin' = [admin EXCEPT ![a] = r]
    BY <1>1 DEF ReadInvites
  <2>6. NextStep(op) \in {"save", "trash"} /\ (NextStep(op) = "trash" => op = "delete")
    BY DEF NextStep
  <2>7. op = "create" <=> invites[u] = NoInvite
    BY <1>1 DEF ReadInvites, Wanted, Present
  <2> HIDE DEF r
  <2>4. Purposeful(r)
    BY <2>2, <2>6, <2>7 DEF Purposeful
  <2> QED BY <2>1, <2>3, <2>4, <2>5, ReadingSound
<1>2. ASSUME NEW i \in Items, NEW op \in AdminOps, ReadTrash(a, op, i) PROVE CopiesSound'
  <2> DEFINE r == [Resting EXCEPT !.pc = TrashStep(op), !.op = op, !.items = trash,
                      !.trev = trashRev, !.uuid = IF op = "ip_group" THEN @ ELSE trash[i]]
  <2>1. r.pc = TrashStep(op) /\ r.op = op /\ r.items = trash /\ r.trev = trashRev /\ r.rev = 0
    BY DEF Resting
  <2>5. TrashStep(op) \in {"invites", "purge", "savetrash"} /\ (TrashStep(op) = "purge" => op = "purge")
    BY <1>2 DEF ReadTrash, TrashStep
  <2>2. Current(r) /\ Purposeful(r)
    BY <2>1, <2>5, OwnRequest DEF Current, Purposeful, WithInvites
  <2>3. admin' = [admin EXCEPT ![a] = r]
    BY <1>2 DEF ReadTrash
  <2>4. r \in AdminState
    BY <1>2, <2>3, ReadTrashTyped DEF Typed, AdminTyped, Request
  <2> QED BY <2>2, <2>3, <2>4, ReadingSound
<1>3. CASE ReadMigrationBatch(a)
  <2> DEFINE r == [Resting EXCEPT !.pc = "migrate", !.op = "migrate", !.base = invites, !.rev = invRev]
  <2>1. r.pc = "migrate" /\ r.base = invites /\ r.rev = invRev /\ r.trev = 0
    BY DEF Resting
  <2>2. Current(r) /\ Purposeful(r)
    BY <2>1, OwnRequest DEF Current, Purposeful, WithTrash
  <2>3. admin' = [admin EXCEPT ![a] = r]
    BY <1>3 DEF ReadMigrationBatch
  <2>4. r \in AdminState
    BY <1>3, <2>3, ReadMigrationBatchTyped DEF Typed, AdminTyped, Request
  <2> QED BY <2>2, <2>3, <2>4, ReadingSound
<1>4. CASE SyncStarts(a)
  <2> DEFINE r == [Resting EXCEPT !.pc = "sync", !.op = "sync", !.rev = invRev]
  <2>1. r.pc = "sync" /\ r.rev = invRev /\ r.trev = 0
    BY DEF Resting
  <2>2. Current(r) /\ Purposeful(r)
    BY <2>1, OwnRequest DEF Current, Purposeful, WithInvites, WithTrash
  <2>3. admin' = [admin EXCEPT ![a] = r]
    BY <1>4 DEF SyncStarts
  <2>4. r \in AdminState
    BY <1>4, <2>3, SyncStartsTyped DEF Typed, AdminTyped, Request
  <2> QED BY <2>2, <2>3, <2>4, ReadingSound
<1> QED BY <1>1, <1>2, <1>3, <1>4

(* Later reads of a request add a fresh copy to what it holds.               *)
LEMMA ReadsOnSound ==
    ASSUME Typed, CopiesSound, ReadOnly, NEW a \in Admins,
           \/ ReconcileRead(a) \/ ReconcileConflict(a) \/ DeleteReadsTrash(a)
           \/ RestoreReadsInvites(a) \/ SyncSkips(a) \/ \E u \in Uuids : SyncReads(a, u)
    PROVE  CopiesSound'
<1> USE DEF WithInvites, WithTrash
<1>1. admin[a] \in AdminState /\ Current(admin[a]) /\ Purposeful(admin[a])
  BY OwnRequest DEF CopiesSound
<1>2. Moves
  BY DEF ReadOnly, stateVars, Moves
<1>3. CASE Ends(a)
  BY <1>2, <1>3, RestingSound
<1>4. ASSUME ReconcileRead(a), ~Ends(a) PROVE CopiesSound'
  <2> DEFINE r == [admin[a] EXCEPT !.pc = "resave", !.base = invites, !.rev = invRev]
  <2>1. r \in AdminState /\ r.pc = "resave" /\ r.base = invites /\ r.rev = invRev /\ r.trev = admin[a].trev
    BY <1>1, OwnRequest DEF AdminState, Rows, Row
  <2>2. admin' = [admin EXCEPT ![a] = r]
    BY <1>4 DEF ReconcileRead, Typed, AdminTyped
  <2> HIDE DEF r
  <2>3. Current(r) /\ Purposeful(r)
    BY <1>1, <2>1, OwnRequest DEF Current, Purposeful
  <2> QED BY <2>1, <2>2, <2>3, ReadingSound
<1>5. ASSUME ReconcileConflict(a), ~Ends(a) PROVE CopiesSound'
  <2> DEFINE r == [admin[a] EXCEPT !.pc = "reconcile", !.tries = @ - 1]
  <2>1. admin' = [admin EXCEPT ![a] = r]
    BY <1>5 DEF ReconcileConflict, Typed, AdminTyped
  <2>2. r \in AdminState
    BY <1>5, <2>1, ReconcileConflictTyped DEF Typed, AdminTyped, Request
  <2>3. r.pc = "reconcile" /\ r.rev = admin[a].rev /\ r.trev = admin[a].trev
    BY <1>1 DEF AdminState
  <2> HIDE DEF r
  <2>4. Current(r) /\ Purposeful(r)
    BY <1>1, <2>3 DEF Current, Purposeful
  <2> QED BY <2>1, <2>2, <2>4, ReadingSound
<1>6. CASE DeleteReadsTrash(a)
  <2> DEFINE r == [admin[a] EXCEPT !.pc = "remove", !.items = trash, !.trev = trashRev]
  <2>1. admin' = [admin EXCEPT ![a] = r]
    BY <1>6 DEF DeleteReadsTrash, Typed, AdminTyped
  <2>2. r \in AdminState
    BY <1>6, <2>1, DeleteReadsTrashTyped DEF Typed, AdminTyped, Request
  <2>3. /\ r.pc = "remove" /\ r.items = trash /\ r.trev = trashRev
        /\ r.rev = admin[a].rev /\ r.base = admin[a].base /\ r.uuid = admin[a].uuid
    BY <1>1 DEF AdminState
  <2>4. admin[a].pc = "trash"
    BY <1>6 DEF DeleteReadsTrash
  <2> HIDE DEF r
  <2>5. Current(r) /\ Purposeful(r)
    BY <1>1, <2>3, <2>4, OwnRequest DEF Current, Purposeful
  <2> QED BY <2>1, <2>2, <2>5, ReadingSound
<1>7. ASSUME RestoreReadsInvites(a), ~Ends(a) PROVE CopiesSound'
  <2> DEFINE r == [admin[a] EXCEPT !.pc = "restore", !.base = invites, !.rev = invRev]
  <2>1. admin' = [admin EXCEPT ![a] = r]
    BY <1>7 DEF RestoreReadsInvites, Typed, AdminTyped
  <2>2. r \in AdminState
    BY <1>7, <2>1, RestoreReadsInvitesTyped DEF Typed, AdminTyped, Request
  <2>3. /\ r.pc = "restore" /\ r.base = invites /\ r.rev = invRev
        /\ r.trev = admin[a].trev /\ r.items = admin[a].items
    BY <1>1 DEF AdminState
  <2>4. admin[a].pc = "invites"
    BY <1>7 DEF RestoreReadsInvites
  <2> HIDE DEF r
  <2>5. Current(r) /\ Purposeful(r)
    BY <1>1, <2>3, <2>4, OwnRequest DEF Current, Purposeful
  <2> QED BY <2>1, <2>2, <2>5, ReadingSound
<1>8. ASSUME NEW u \in Uuids, SyncReads(a, u) PROVE CopiesSound'
  <2> DEFINE r == [admin[a] EXCEPT !.pc = "upsert", !.uuid = u, !.base = invites]
  <2>1. admin' = [admin EXCEPT ![a] = r]
    BY <1>8 DEF SyncReads, Typed, AdminTyped
  <2>2. r \in AdminState
    BY <1>8, <2>1, SyncReadsTyped DEF Typed, AdminTyped, Request
  <2>3. r.pc = "upsert" /\ r.base = invites /\ r.rev = admin[a].rev /\ r.trev = admin[a].trev
    BY <1>1 DEF AdminState
  <2> HIDE DEF r
  <2>4. Current(r) /\ Purposeful(r)
    BY <1>1, <2>3 DEF Current, Purposeful
  <2> QED BY <2>1, <2>2, <2>4, ReadingSound
<1>9. CASE SyncSkips(a)
  <2> DEFINE r == [admin[a] EXCEPT !.pc = "sync", !.base = Resting.base]
  <2>1. admin' = [admin EXCEPT ![a] = r]
    BY <1>9 DEF SyncSkips, Typed, AdminTyped
  <2>2. r \in AdminState
    BY <1>9, <2>1, SyncSkipsTyped DEF Typed, AdminTyped, Request
  <2>3. r.pc = "sync" /\ r.rev = admin[a].rev /\ r.trev = admin[a].trev
    BY <1>1 DEF AdminState
  <2> HIDE DEF r
  <2>4. Current(r) /\ Purposeful(r)
    BY <1>1, <2>3 DEF Current, Purposeful
  <2> QED BY <2>1, <2>2, <2>4, ReadingSound
<1> QED BY <1>3, <1>4, <1>5, <1>6, <1>7, <1>8, <1>9

(* A write moves the revision of what it writes.                             *)
LEMMA WritesMove ==
    ASSUME NEW a \in Admins,
           \/ \E d \in Data : SaveInvites(a, d) \/ ReconcileSave(a, d) \/ SyncWrites(a, d)
           \/ \E i \in Items : DeleteInvite(a, i) \/ RestoreFromTrash(a, i) \/ PurgeFromTrash(a, i)
           \/ SaveTrash(a)
           \/ \E S \in SUBSET Uuids : CommitMigrationBatch(a, S)
    PROVE  Moves
BY DEF Moves, SaveInvites, ReconcileSave, SyncWrites, UpsertInvite, ReplaceInvites, DeleteInvite,
       RemoveInvite, RestoreFromTrash, RestoreInvite, PurgeFromTrash, PurgeTrash, SaveTrash,
       ReplaceTrash, CommitMigrationBatch, CommitMigration

LEMMA AdminStepSound ==
    ASSUME Typed, CopiesSound, NEW a \in Admins, AdminStep(a)
    PROVE  CopiesSound'
<1>1. CASE \/ \E u \in Uuids, op \in AdminOps : ReadInvites(a, op, u)
           \/ \E i \in Items, op \in AdminOps : ReadTrash(a, op, i)
           \/ ReadMigrationBatch(a) \/ SyncStarts(a)
  BY <1>1, ReadsSound DEF ReadInvites, ReadTrash, ReadMigrationBatch, SyncStarts
<1>2. CASE \/ ReconcileRead(a) \/ ReconcileConflict(a) \/ DeleteReadsTrash(a)
           \/ RestoreReadsInvites(a) \/ SyncSkips(a) \/ \E u \in Uuids : SyncReads(a, u)
  BY <1>2, ReadsOnSound
     DEF ReconcileRead, ReconcileConflict, DeleteReadsTrash, RestoreReadsInvites, SyncSkips, SyncReads
<1>3. CASE SaveInvitesConflict(a) \/ DeleteConflict(a) \/ RestoreConflict(a)
  BY <1>3, ConflictSound DEF SaveInvitesConflict, DeleteConflict, RestoreConflict
<1>4. CASE TrashConflict(a) \/ MigrationConflict(a) \/ SyncEnds(a)
  <2>1. Moves /\ Ends(a)
    BY <1>4 DEF TrashConflict, MigrationConflict, SyncEnds, ReadOnly, stateVars, Moves
  <2> QED BY <2>1, RestingSound
<1>5. CASE \/ \E d \in Data : SaveInvites(a, d) \/ ReconcileSave(a, d)
           \/ \E i \in Items : DeleteInvite(a, i) \/ RestoreFromTrash(a, i) \/ PurgeFromTrash(a, i)
           \/ SaveTrash(a)
           \/ \E S \in SUBSET Uuids : CommitMigrationBatch(a, S)
  <2>1. Moves
    BY <1>5, WritesMove
  <2>2. Ends(a)
    BY <1>5 DEF SaveInvites, ReconcileSave, DeleteInvite, RestoreFromTrash, PurgeFromTrash,
                SaveTrash, CommitMigrationBatch
  <2> QED BY <2>1, <2>2, RestingSound
<1>6. ASSUME NEW d \in Data, SyncWrites(a, d) PROVE CopiesSound'
  <2>1. Moves
    BY <1>6, WritesMove
  <2>2. /\ admin'[a].pc = "sync" /\ admin'[a].rev = admin[a].rev + 1 /\ admin'[a].trev = admin[a].trev
        /\ \A b \in Admins \ {a} : admin'[b] = admin[b]
    BY <1>6, OwnRequest DEF SyncWrites, Typed, AdminTyped, AdminState
  <2>3. invRev' = invRev + 1 /\ trashRev' = trashRev /\ admin[a].rev = invRev
    BY <1>6 DEF SyncWrites, UpsertInvite, ReplaceInvites, InvitesAt
  <2>4. (Current(admin[a]) /\ Purposeful(admin[a]))'
    BY <2>2, <2>3, OwnRequest DEF CopiesSound, Current, Purposeful, WithInvites, WithTrash
  <2> QED BY <2>1, <2>2, <2>4, OthersSound DEF CopiesSound
<1> QED BY <1>1, <1>2, <1>3, <1>4, <1>5, <1>6 DEF AdminStep

-----------------------------------------------------------------------------
(* What one step does to a row: nothing; the invite is removed; it appears    *)
(* under a key just issued; or it is written, with the credential it has or   *)
(* with a new one of the next version.                                       *)
Fresh(u) == nextKey <= invites'[u].key /\ invites'[u].key < nextKey'

SameCredential(u) ==
    /\ invites'[u].key = invites[u].key
    /\ invites'[u].version = invites[u].version
    /\ invites'[u].deadline = invites[u].deadline

NextCredential(u) == Fresh(u) /\ invites'[u].version = invites[u].version + 1

RowStep(u) ==
    \/ invites'[u] = invites[u] /\ gen'[u] = gen[u]
    \/ Present(u) /\ ~Present(u)' /\ gen'[u] = gen[u] + 1
    \/ /\ Present(u)' /\ gen'[u] = gen[u]
       /\ IF Present(u) THEN SameCredential(u) \/ NextCredential(u) ELSE Fresh(u)

(* Several rows change in one step only where none of them had a key.         *)
OneRowOrKeyless ==
    \A u, v \in Uuids :
        (u # v /\ Changed(u) /\ Changed(v))
           => /\ Present(u) /\ invites[u].key = 0
              /\ Present(v) /\ invites[v].key = 0

RowsStep == (\A u \in Uuids : RowStep(u)) /\ OneRowOrKeyless /\ nextKey' >= nextKey

LEMMA UnchangedRows ==
    ASSUME Typed, UNCHANGED <<invites, gen, nextKey>>
    PROVE  RowsStep
BY OwnRequest DEF RowsStep, RowStep, OneRowOrKeyless, Changed, Typed, RowsTyped

(* One row is written, and the others stay.                                  *)
LEMMA OneRowStep ==
    ASSUME Typed, NEW u \in Uuids, NEW row \in Row, invites' = [invites EXCEPT ![u] = row],
           RowStep(u), \A v \in Uuids \ {u} : gen'[v] = gen[v], nextKey' >= nextKey
    PROVE  RowsStep
<1>1. \A v \in Uuids \ {u} : invites'[v] = invites[v]
  BY DEF Typed, RowsTyped, Rows
<1> QED BY <1>1 DEF RowsStep, RowStep, OneRowOrKeyless, Changed

(* The collection a request saves is the stored one with its row replaced.    *)
LEMMA OwnCopy ==
    ASSUME Typed, CopiesSound, NEW a \in Admins, admin[a].pc \in WithInvites, InvitesAt(admin[a].rev)
    PROVE  admin[a].base = invites /\ admin[a].uuid \in Uuids
BY OwnRequest DEF CopiesSound, Current, InvitesAt, AdminState

LEMMA WrittenIsPresent ==
    ASSUME NEW u \in Uuids, invites'[u] \in Invite
    PROVE  Present(u)'
BY AbsenceAssumption DEF Present

LEMMA StoredRow ==
    ASSUME Typed, NEW u \in Uuids, Present(u)
    PROVE  invites[u] \in Invite
BY DEF Typed, RowsTyped, Rows, Row, Present

LEMMA SaveInvitesRows ==
    ASSUME Typed, CopiesSound, NEW a \in Admins, NEW d \in Data, SaveInvites(a, d)
    PROVE  RowsStep
<1>0. admin[a].uuid \in Uuids /\ admin[a].base = invites
  BY OwnCopy DEF SaveInvites, WithInvites
<1> PICK u \in Uuids : u = admin[a].uuid
  BY <1>0
<1>1. u = admin[a].uuid /\ admin[a].base = invites
  BY <1>0
<1> DEFINE row == Written(a, d)
<1>2. invites' = [invites EXCEPT ![u] = row] /\ gen' = gen /\ nextKey' = Spent(a)
  BY <1>1 DEF SaveInvites, ReplaceInvites
<1>3. row \in Invite
  BY WrittenTyped DEF SaveInvites
<1>4. invites'[u] = row
  BY <1>1, <1>2 DEF Typed, RowsTyped, Rows
<1>5. nextKey \in Nat
  BY DEF Typed, RowsTyped
<1>6. admin[a].op \in {"create", "rotate", "update"}
  BY OwnRequest DEF SaveInvites, Holds
<1>7. Present(u)'
  BY <1>1, <1>3, <1>4, WrittenIsPresent
<1>8. RowStep(u)
  <2>1. CASE admin[a].op = "create"
    <3>1. ~Present(u)
      BY <1>1, <2>1 DEF SaveInvites, CopiesSound, Purposeful, Present
    <3>2. row.key = nextKey /\ nextKey' = nextKey + 1
      BY <1>2, <2>1 DEF Written, Issue, Spent
    <3> QED BY <1>2, <1>4, <1>5, <1>7, <3>1, <3>2 DEF RowStep, Fresh
  <2>2. ASSUME admin[a].op # "create" PROVE invites[u] \in Invite /\ Present(u)
    BY <1>1, <2>2, OwnRequest, StoredRow DEF SaveInvites, Holds, Present
  <2>3. CASE admin[a].op = "rotate"
    <3>1. row.key = nextKey /\ row.version = invites[u].version + 1 /\ nextKey' = nextKey + 1
      BY <1>1, <1>2, <2>3 DEF Written, Issue, Spent
    <3> QED BY <1>2, <1>4, <1>5, <1>7, <2>2, <2>3, <3>1 DEF RowStep, Fresh, NextCredential
  <2>4. CASE admin[a].op = "update"
    <3>1. row = [invites[u] EXCEPT !.data = d]
      BY <1>1, <2>4 DEF Written
    <3>2. row.key = invites[u].key /\ row.version = invites[u].version /\ row.deadline = invites[u].deadline
      BY <2>2, <2>4, <3>1 DEF Invite
    <3> QED BY <1>2, <1>4, <1>7, <2>2, <2>4, <3>2 DEF RowStep, SameCredential
  <2> QED BY <1>6, <2>1, <2>3, <2>4
<1>9. nextKey' >= nextKey
  BY <1>2, <1>5 DEF Spent
<1> QED BY <1>1, <1>2, <1>3, <1>8, <1>9, OneRowStep DEF Row

(* A row saved with new data keeps its credential.                           *)
LEMMA DataRows ==
    ASSUME Typed, NEW u \in Uuids, Present(u), NEW d \in Data,
           invites' = [invites EXCEPT ![u] = [invites[u] EXCEPT !.data = d]],
           UNCHANGED <<nextKey, gen>>
    PROVE  RowsStep
<1> DEFINE row == [invites[u] EXCEPT !.data = d]
<1>1. invites[u] \in Invite
  BY StoredRow
<1>2. row \in Invite /\ row.key = invites[u].key /\ row.version = invites[u].version
      /\ row.deadline = invites[u].deadline
  BY <1>1 DEF Invite
<1>3. invites'[u] = row
  BY DEF Typed, RowsTyped, Rows
<1>4. Present(u)'
  BY <1>2, <1>3, WrittenIsPresent
<1>5. RowStep(u)
  BY <1>2, <1>3, <1>4 DEF RowStep, SameCredential
<1>6. nextKey' >= nextKey
  BY DEF Typed, RowsTyped
<1> QED BY <1>2, <1>5, <1>6, OneRowStep DEF Row

LEMMA RewriteRows ==
    ASSUME Typed, CopiesSound, NEW a \in Admins, NEW d \in Data, ReconcileSave(a, d) \/ SyncWrites(a, d)
    PROVE  RowsStep
<1>1. admin[a].uuid \in Uuids /\ admin[a].base = invites
  BY OwnCopy DEF ReconcileSave, SyncWrites, WithInvites
<1> PICK u \in Uuids : u = admin[a].uuid
  BY <1>1
<1>2. Present(u)
  BY <1>1, OwnRequest DEF ReconcileSave, SyncWrites, Holds, Present
<1>3. invites' = [invites EXCEPT ![u] = [invites[u] EXCEPT !.data = d]]
  BY <1>1 DEF ReconcileSave, SyncWrites, UpsertInvite, ReplaceInvites, Typed, RowsTyped, Rows
<1>4. UNCHANGED <<nextKey, gen>>
  BY DEF ReconcileSave, SyncWrites
<1> QED BY <1>2, <1>3, <1>4, DataRows

LEMMA DeleteRows ==
    ASSUME Typed, CopiesSound, NEW a \in Admins, NEW i \in Items, DeleteInvite(a, i)
    PROVE  RowsStep
<1>1. admin[a].uuid \in Uuids /\ admin[a].base = invites
  BY OwnCopy DEF DeleteInvite, BothAt, WithInvites
<1> PICK u \in Uuids : u = admin[a].uuid
  BY <1>1
<1>2. Present(u)
  BY <1>1 DEF DeleteInvite, CopiesSound, Purposeful, Present
<1>3. /\ invites' = [invites EXCEPT ![u] = NoInvite]
      /\ gen' = [gen EXCEPT ![u] = @ + 1]
      /\ nextKey' = nextKey /\ nextKey \in Nat
  BY DEF DeleteInvite, RemoveInvite, Typed, RowsTyped
<1>4. invites'[u] = NoInvite /\ gen'[u] = gen[u] + 1 /\ \A v \in Uuids \ {u} : gen'[v] = gen[v]
  BY <1>3 DEF Typed, RowsTyped, Rows
<1>5. RowStep(u)
  BY <1>2, <1>4 DEF RowStep, Present
<1>6. NoInvite \in Row /\ nextKey' >= nextKey
  BY <1>3 DEF Row
<1> QED BY <1>3, <1>4, <1>5, <1>6, OneRowStep

LEMMA RestoreRows ==
    ASSUME Typed, CopiesSound, NEW a \in Admins, NEW i \in Items, RestoreFromTrash(a, i)
    PROVE  RowsStep
<1> PICK u \in Uuids : u = admin[a].uuid
  BY OwnRequest DEF AdminState
<1> DEFINE row == Issue(NewInvite(CHOOSE d \in Data : TRUE), NoDeadline)
<1>1. ~Present(u)
  BY DEF RestoreFromTrash
<1>2. row \in Invite
  BY SetAssumption, NewInviteTyped, IssueTyped DEF Deadlines, Typed
<1>3. /\ invites' = [invites EXCEPT ![u] = row] /\ gen' = gen
      /\ nextKey' = nextKey + 1 /\ nextKey \in Nat /\ row.key = nextKey
  BY DEF RestoreFromTrash, RestoreInvite, Issue, Typed, RowsTyped
<1>4. invites'[u] = row
  BY <1>3 DEF Typed, RowsTyped, Rows
<1>5. Present(u)'
  BY <1>2, <1>4, WrittenIsPresent
<1>6. RowStep(u)
  BY <1>1, <1>3, <1>4, <1>5 DEF RowStep, Fresh
<1> QED BY <1>2, <1>3, <1>6, OneRowStep DEF Row

LEMMA MigrationRows ==
    ASSUME Typed, CopiesSound, NEW a \in Admins, NEW S \in SUBSET Uuids, CommitMigrationBatch(a, S)
    PROVE  RowsStep
<1>1. nextKey \in Nat /\ Cardinality(S) \in Nat /\ nextKey' = nextKey + Cardinality(S) /\ gen' = gen
  BY SetAssumption, FS_Subset, FS_CardinalityType DEF CommitMigrationBatch, Typed, RowsTyped
<1>2. \A u \in S : Present(u) /\ invites[u].key = 0
  BY DEF CommitMigrationBatch
<1>3. PICK keyOf \in [S -> nextKey .. nextKey + Cardinality(S) - 1] : CommitMigration(keyOf)
  BY DEF CommitMigrationBatch
<1>4. \A u \in Uuids : invites'[u] = IF u \in S THEN Migrated(u, keyOf[u]) ELSE invites[u]
  BY <1>3 DEF CommitMigration
<1>5. ASSUME NEW u \in S
      PROVE  /\ Present(u)' /\ Fresh(u) /\ invites'[u].version = invites[u].version + 1
  <2>1. keyOf[u] \in Nat /\ nextKey <= keyOf[u] /\ keyOf[u] < nextKey'
    BY <1>1, <1>3
  <2>2. Migrated(u, keyOf[u]) \in Invite
    BY <1>2, <2>1, MigratedTyped
  <2>3. Present(u)'
    BY <1>4, <2>2, WrittenIsPresent
  <2>4. invites'[u] = Migrated(u, keyOf[u])
    BY <1>4
  <2>5. invites'[u].key = keyOf[u] /\ invites'[u].version = invites[u].version + 1
    BY <2>4 DEF Migrated
  <2> QED BY <2>1, <2>3, <2>5 DEF Fresh
<1>6. \A u \in Uuids : RowStep(u)
  BY <1>1, <1>2, <1>4, <1>5 DEF RowStep, NextCredential
<1>7. OneRowOrKeyless
  BY <1>2, <1>4 DEF OneRowOrKeyless, Changed
<1>8. nextKey' >= nextKey
  BY <1>1
<1> QED BY <1>6, <1>7, <1>8 DEF RowsStep

LEMMA AdminStepRows ==
    ASSUME Typed, CopiesSound, NEW a \in Admins, AdminStep(a)
    PROVE  RowsStep
<1>1. CASE ReadOnly
  BY <1>1, UnchangedRows DEF ReadOnly, stateVars
<1>2. CASE SaveTrash(a) \/ \E i \in Items : PurgeFromTrash(a, i)
  BY <1>2, UnchangedRows DEF SaveTrash, PurgeFromTrash, ReplaceTrash, PurgeTrash
<1> QED
  BY <1>1, <1>2, SaveInvitesRows, RewriteRows, DeleteRows, RestoreRows, MigrationRows DEF AdminStep,
     ReadInvites, SaveInvitesConflict, ReconcileRead, ReconcileConflict, DeleteReadsTrash,
     DeleteConflict, ReadTrash, RestoreReadsInvites, RestoreConflict, TrashConflict,
     ReadMigrationBatch, MigrationConflict, SyncStarts, SyncReads, SyncSkips, SyncEnds

(* Every step of the system is a step of the rows.                            *)
LEMMA StepRows ==
    ASSUME Typed, CopiesSound, [Next]_vars
    PROVE  RowsStep
<1>1. CASE UNCHANGED <<stateVars, nextKey, gen>>
  BY <1>1, UnchangedRows DEF stateVars
<1>2. ASSUME NEW t \in Tokens, VisitorStep(t) PROVE UNCHANGED <<stateVars, nextKey, gen>>
  BY <1>2 DEF VisitorStep, FindInvite, CreateSession, ReadSession, ReadLegacySession,
     ReadInviteForLegacy, PutLegacySession, LogoutKv, LogoutObject, CleanupDeletesKey, VisitorOnly
<1> QED
  BY <1>1, <1>2, AdminStepRows
  DEF Next, PurgeExpiredSessions, VisitorOnly, CleanupCompletes, Tick, vars

(* The two collections change together, or the trash by a purge.              *)
TrashKept ==
    /\ \A u \in Uuids : (Present(u) /\ ~Present(u)') =>
            \E i \in Items : trash[i] = NoItem /\ trash'[i] = u
    /\ \A i \in Items : (trash[i] = NoItem /\ trash'[i] # NoItem) =>
            invites[trash'[i]] # NoInvite /\ invites'[trash'[i]] = NoInvite
    /\ \A i \in Items : (trash[i] # NoItem /\ trash'[i] = NoItem) =>
            \/ invites[trash[i]] = NoInvite /\ invites'[trash[i]] # NoInvite
            \/ \E a \in Admins : admin[a].op = "purge" /\ admin[a].uuid = trash[i]

LEMMA NothingRemoved ==
    ASSUME Typed, RowsStep, gen' = gen
    PROVE  \A u \in Uuids : Present(u) => Present(u)'
<1>1. \A u \in Uuids : gen[u] \in Nat
  BY DEF Typed, RowsTyped
<1> QED BY <1>1 DEF RowsStep, RowStep, Present

LEMMA UnchangedTrash ==
    ASSUME Typed, RowsStep, gen' = gen, trash' = trash
    PROVE  TrashKept
BY NothingRemoved DEF TrashKept

LEMMA AdminStepTrash ==
    ASSUME Typed, CopiesSound, NEW a \in Admins, AdminStep(a)
    PROVE  TrashKept
<1>1. RowsStep
  BY AdminStepRows
<1>2. CASE trash' = trash /\ gen' = gen
  BY <1>1, <1>2, UnchangedTrash
<1>3. ASSUME NEW i \in Items, DeleteInvite(a, i) PROVE TrashKept
  <2>1. admin[a].uuid \in Uuids /\ admin[a].base = invites
    BY <1>3, OwnCopy DEF DeleteInvite, BothAt, WithInvites
  <2> PICK u \in Uuids : u = admin[a].uuid
    BY <2>1
  <2>2. invites[u] # NoInvite
    BY <1>3, <2>1 DEF DeleteInvite, CopiesSound, Purposeful
  <2>3. invites' = [invites EXCEPT ![u] = NoInvite] /\ trash' = [trash EXCEPT ![i] = u] /\ trash[i] = NoItem
    BY <1>3 DEF DeleteInvite, RemoveInvite
  <2> QED BY <2>2, <2>3 DEF TrashKept, Present, Typed, RowsTyped, Rows
<1>4. ASSUME NEW i \in Items, RestoreFromTrash(a, i) PROVE TrashKept
  <2>1. gen' = gen
    BY <1>4 DEF RestoreFromTrash
  <2>2. \A u \in Uuids : Present(u) => Present(u)'
    BY <1>1, <2>1, NothingRemoved
  <2>3. admin[a].items = trash
    BY <1>4 DEF RestoreFromTrash, BothAt, TrashAt, CopiesSound, Current, WithTrash
  <2> PICK u \in Uuids : u = admin[a].uuid
    BY OwnRequest DEF AdminState
  <2>4. trash[i] = u /\ invites[u] = NoInvite /\ \A j \in Items \ {i} : trash'[j] = trash[j]
    BY <1>4, <2>3 DEF RestoreFromTrash, RestoreInvite, Present, Typed, RowsTyped
  <2>5. invites'[u] # NoInvite
    <3>1. invites'[u] = Issue(NewInvite(CHOOSE d \in Data : TRUE), NoDeadline)
      BY <1>4 DEF RestoreFromTrash, RestoreInvite, Typed, RowsTyped, Rows
    <3>2. invites'[u] \in Invite
      BY <3>1, SetAssumption, NewInviteTyped, IssueTyped DEF Deadlines, Typed
    <3> QED BY <3>2, AbsenceAssumption
  <2>6. trash'[i] = NoItem
    BY <1>4 DEF RestoreFromTrash, RestoreInvite, Typed, RowsTyped
  <2> QED BY <2>2, <2>4, <2>5, <2>6 DEF TrashKept
<1>5. ASSUME NEW i \in Items, PurgeFromTrash(a, i) PROVE TrashKept
  <2>1. gen' = gen /\ invites' = invites /\ trash' = [trash EXCEPT ![i] = NoItem]
    BY <1>5 DEF PurgeFromTrash, PurgeTrash
  <2>2. admin[a].items = trash /\ admin[a].op = "purge" /\ admin[a].uuid = trash[i]
    BY <1>5 DEF PurgeFromTrash, TrashAt, CopiesSound, Current, Purposeful, WithTrash
  <2> QED BY <2>1, <2>2 DEF TrashKept, Present, Typed, RowsTyped
<1>6. CASE SaveTrash(a)
  <2>1. trash' = trash /\ gen' = gen
    BY <1>6 DEF SaveTrash, ReplaceTrash, TrashAt, CopiesSound, Current, WithTrash
  <2> QED BY <1>2, <2>1
<1> QED
  BY <1>2, <1>3, <1>4, <1>5, <1>6 DEF AdminStep, ReadOnly, stateVars,
     ReadInvites, SaveInvites, ReplaceInvites, SaveInvitesConflict, ReconcileRead, ReconcileSave,
     ReconcileConflict, DeleteReadsTrash, DeleteConflict, ReadTrash, RestoreReadsInvites,
     RestoreConflict, TrashConflict, ReadMigrationBatch, CommitMigrationBatch, CommitMigration,
     MigrationConflict, SyncStarts, SyncReads, SyncWrites, UpsertInvite, SyncSkips, SyncEnds

LEMMA StepTrash ==
    ASSUME Typed, CopiesSound, [Next]_vars
    PROVE  TrashKept
<1>1. RowsStep
  BY StepRows
<1>2. CASE UNCHANGED <<stateVars, gen>>
  BY <1>1, <1>2, UnchangedTrash DEF stateVars
<1>3. ASSUME NEW t \in Tokens, VisitorStep(t) PROVE UNCHANGED <<stateVars, gen>>
  BY <1>3 DEF VisitorStep, FindInvite, CreateSession, ReadSession, ReadLegacySession,
     ReadInviteForLegacy, PutLegacySession, LogoutKv, LogoutObject, CleanupDeletesKey, VisitorOnly
<1> QED
  BY <1>2, <1>3, AdminStepTrash
  DEF Next, PurgeExpiredSessions, VisitorOnly, CleanupCompletes, Tick, vars

LEMMA StepSound ==
    ASSUME Typed, CopiesSound, [Next]_vars
    PROVE  CopiesSound'
<1>1. CASE UNCHANGED <<stateVars, admin>>
  BY <1>1 DEF stateVars, CopiesSound, Current, Purposeful
<1>2. ASSUME NEW t \in Tokens, VisitorStep(t) PROVE UNCHANGED <<stateVars, admin>>
  BY <1>2 DEF VisitorStep, FindInvite, CreateSession, ReadSession, ReadLegacySession,
     ReadInviteForLegacy, PutLegacySession, LogoutKv, LogoutObject, CleanupDeletesKey, VisitorOnly
<1> QED
  BY <1>1, <1>2, AdminStepSound
  DEF Next, PurgeExpiredSessions, VisitorOnly, CleanupCompletes, Tick, vars

LEMMA StepIssues ==
    ASSUME Typed, RowsStep, Typed', KeysIssued
    PROVE  KeysIssued'
<1> SUFFICES ASSUME NEW u \in Uuids, Present(u)' PROVE invites'[u].key < nextKey'
  BY DEF KeysIssued
<1>1. nextKey \in Nat /\ nextKey' \in Nat /\ nextKey <= nextKey'
  BY DEF RowsStep, Typed, RowsTyped
<1>2. Present(u) => invites[u].key \in Nat /\ invites[u].key < nextKey
  BY StoredRow DEF Invite, KeysIssued
<1>3. RowStep(u)
  BY DEF RowsStep
<1> QED BY <1>1, <1>2, <1>3 DEF RowStep, Present, SameCredential, NextCredential, Fresh

(* The rows of the legacy collections have distinct keys below the next one.  *)
LEMMA InitIssues ==
    ASSUME Init
    PROVE  KeysIssued /\ CopiesSound
<1>1. PICK n \in 0..MaxKeys, keyed \in SUBSET Uuids, plain \in SUBSET Uuids :
        \E keyOf \in [keyed -> 1..n], until \in [keyed -> {NoDeadline, LegacyPeriod}] :
          ImportedInvites(n, keyed, plain, keyOf, until)
  BY DEF Init
<1>2. PICK keyOf \in [keyed -> 1..n], until \in [keyed -> {NoDeadline, LegacyPeriod}] :
          ImportedInvites(n, keyed, plain, keyOf, until)
  BY <1>1
<1>3. n \in Nat /\ nextKey = n + 1
  BY <1>2, BoundAssumption DEF ImportedInvites
<1>4. ASSUME NEW u \in Uuids, Present(u) PROVE invites[u].key < nextKey
  <2>1. CASE u \in keyed
    <3>1. keyOf[u] \in 1..n
      BY <1>2, <2>1
    <3> QED BY <1>2, <1>3, <2>1, <3>1 DEF ImportedInvites, ImportedRow
  <2>2. CASE u \in plain /\ u \notin keyed
    BY <1>2, <1>3, <2>2 DEF ImportedInvites, ImportedRow
  <2>3. CASE u \notin plain /\ u \notin keyed
    BY <1>2, <1>4, <2>3 DEF ImportedInvites, Present
  <2> QED BY <2>1, <2>2, <2>3
<1>5. CopiesSound
  BY DEF Init, CopiesSound, Current, Purposeful, Resting, WithInvites, WithTrash
<1> QED BY <1>4, <1>5 DEF KeysIssued

LEMMA AlwaysSound == Spec => [](Typed /\ CopiesSound /\ KeysIssued)
<1>1. Init => CopiesSound /\ KeysIssued
  BY InitIssues
<1>2. Typed /\ Typed' /\ (CopiesSound /\ KeysIssued) /\ [Next]_vars => (CopiesSound /\ KeysIssued)'
  BY StepSound, StepRows, StepIssues
<1> QED BY <1>1, <1>2, AlwaysTyped, PTL DEF Spec

(* Whatever admin requests, scheduled runs and migrations overlap: none       *)
(* writes back an invite that it is not about, no credential goes back, and   *)
(* the trash has what was removed until it is restored or purged              *)
(* (auth-state.js, authStateReplaceInvites, authStateRemoveInvite).           *)
THEOREM InvitesOnlyGoForward == Spec => InvitesGoForward
<1>1. Typed /\ CopiesSound /\ KeysIssued /\ [Next]_vars =>
        [\A u, v \in Uuids :
            (u # v /\ Changed(u) /\ Changed(v))
               => /\ Present(u) /\ invites[u].key = 0
                  /\ Present(v) /\ invites[v].key = 0]_vars
  BY StepRows DEF RowsStep, OneRowOrKeyless
<1>2. Typed /\ CopiesSound /\ KeysIssued /\ [Next]_vars =>
        [\A u \in Uuids :
            (Present(u) /\ Present(u)') =>
               \/ invites'[u].key = invites[u].key /\ invites'[u].version = invites[u].version
               \/ invites'[u].key > invites[u].key /\ invites'[u].version > invites[u].version]_vars
  <2> SUFFICES ASSUME Typed, CopiesSound, KeysIssued, [Next]_vars, NEW u \in Uuids, Present(u), Present(u)'
               PROVE  \/ invites'[u].key = invites[u].key /\ invites'[u].version = invites[u].version
                      \/ invites'[u].key > invites[u].key /\ invites'[u].version > invites[u].version
    OBVIOUS
  <2>1. RowStep(u) /\ Typed'
    BY StepRows, StepTyped DEF RowsStep
  <2>2. invites[u].key < nextKey /\ invites[u].key \in Nat /\ invites[u].version \in Nat
    BY StoredRow DEF KeysIssued, Invite
  <2>3. invites'[u].key \in Nat /\ nextKey \in Nat
    BY <2>1 DEF Typed, RowsTyped, Rows, Row, Invite, Present
  <2> QED BY <2>1, <2>2, <2>3 DEF RowStep, SameCredential, NextCredential, Fresh
<1>3. Typed /\ CopiesSound /\ KeysIssued /\ [Next]_vars =>
        [/\ \A u \in Uuids : (Present(u) /\ ~Present(u)') =>
                \E i \in Items : trash[i] = NoItem /\ trash'[i] = u
         /\ \A i \in Items : (trash[i] = NoItem /\ trash'[i] # NoItem) =>
                invites[trash'[i]] # NoInvite /\ invites'[trash'[i]] = NoInvite
         /\ \A i \in Items : (trash[i] # NoItem /\ trash'[i] = NoItem) =>
                \/ invites[trash[i]] = NoInvite /\ invites'[trash[i]] # NoInvite
                \/ \E a \in Admins : admin[a].op = "purge" /\ admin[a].uuid = trash[i]]_vars
  BY StepTrash DEF TrashKept
<1> QED
  BY AlwaysSound, <1>1, <1>2, <1>3, PTL
  DEF Spec, InvitesGoForward, NoLostInviteUpdate, CredentialMovesForward, RemovedInviteIsKept
-----------------------------------------------------------------------------
(* The visitors: whose credential the sessions that the object honours stand  *)
(* for, and what may end one.  Both rest on what a step does to a row         *)
(* (RowStep): an invite's version and key move forward together, and a        *)
(* removal starts a new life.                                                *)

(* What a visitor's session, pending sign-in or KV key says of its invite: it *)
(* is no newer than the invite, and where it has the invite's version it was  *)
(* given to who showed the invite's key.                                     *)
Stands(s) ==
    /\ s.incarnation <= gen[s.uuid]
    /\ s.incarnation = gen[s.uuid] =>
         /\ Present(s.uuid)
         /\ s.version <= invites[s.uuid].version
         /\ (s.method = "access_key" /\ s.version = invites[s.uuid].version)
              => s.authKey = invites[s.uuid].key

SessionsStand ==
    \A t \in Tokens :
        /\ sessions[t] # NoSession => Stands(sessions[t])
        /\ kv[t] # NoSession => Stands(kv[t])
        /\ reader[t].pc \in {"invite", "put"} => Stands(reader[t].payload)
        /\ login[t] # NoLogin => Stands(SessionFor(login[t]))

(* A token is handed out once, and only one that the import found in KV is    *)
(* ever read from there.                                                     *)
TokensInUse ==
    /\ \A t \in leaving \cup gone : t \in born /\ login[t] = NoLogin
    /\ \A t \in Tokens \ LegacyTokens : kv[t] = NoSession /\ reader[t].pc \in {"idle", "kv"}

HistoriesSound == SessionsStand /\ TokensInUse /\ NativeLogoutIsFinal

-----------------------------------------------------------------------------
(* Two records of one sign-in: at most the expiry differs. *)
SameHolder(s, r) ==
    /\ r.uuid = s.uuid
    /\ r.method = s.method
    /\ r.version = s.version
    /\ r.authKey = s.authKey
    /\ r.incarnation = s.incarnation

LEMMA SameHolderStands ==
    ASSUME NEW s, NEW r, SameHolder(s, r), Stands(s)
    PROVE  Stands(r)
BY DEF SameHolder, Stands

(* Whoever stood before a step stands after it: the invite's version and key  *)
(* moved on together, or its life ended.                                     *)
LEMMA StandsStays ==
    ASSUME Typed, Typed', RowsStep, NEW s \in Session, Stands(s)
    PROVE  Stands(s)'
<1> PICK u \in Uuids : u = s.uuid
  BY DEF Session
<1>1. s.version \in Nat /\ s.incarnation \in Nat
  BY DEF Session
<1>2. gen[u] \in Nat /\ gen'[u] \in Nat
  BY DEF Typed, RowsTyped
<1>3. RowStep(u)
  BY DEF RowsStep
<1>4. CASE invites'[u] = invites[u] /\ gen'[u] = gen[u]
  BY <1>4 DEF Stands, Present
<1>5. CASE gen'[u] = gen[u] + 1
  BY <1>1, <1>2, <1>5 DEF Stands
<1>6. CASE /\ Present(u)' /\ gen'[u] = gen[u]
           /\ IF Present(u) THEN SameCredential(u) \/ NextCredential(u) ELSE Fresh(u)
  <2>1. CASE s.incarnation # gen[u]
    BY <1>6, <2>1 DEF Stands
  <2>2. CASE s.incarnation = gen[u]
    <3>1. Present(u) /\ invites[u].version \in Nat
      BY <2>2, StoredRow DEF Stands, Invite
    <3>2. CASE SameCredential(u)
      BY <1>6, <2>2, <3>2 DEF Stands, SameCredential
    <3>3. CASE NextCredential(u)
      <4>1. invites'[u].version = invites[u].version + 1 /\ s.version <= invites[u].version
        BY <2>2, <3>3 DEF Stands, NextCredential
      <4>2. s.version <= invites'[u].version /\ s.version # invites'[u].version
        BY <1>1, <3>1, <4>1
      <4> QED BY <1>1, <1>2, <1>6, <4>2 DEF Stands
    <3> QED BY <1>6, <3>1, <3>2, <3>3
  <2> QED BY <2>1, <2>2
<1> QED BY <1>3, <1>4, <1>5, <1>6 DEF RowStep

(* A pending sign-in is the same whenever its session is made. *)
LEMMA PendingStays ==
    ASSUME Typed, Typed', RowsStep, NEW t \in Tokens, login[t] # NoLogin, Stands(SessionFor(login[t])),
           login'[t] = login[t]
    PROVE  Stands(SessionFor(login[t]))'
<1> DEFINE s == SessionFor(login[t])
<1>1. s \in Session
  BY SessionForTyped
<1> PICK p : p = s
  OBVIOUS
<1>2. Stands(p)'
  BY <1>1, StandsStays
<1>3. SameHolder(p, s')
  BY DEF SameHolder, SessionFor
<1>4. ASSUME NEW r, SameHolder(p, r) PROVE Stands(r)'
  BY <1>2, <1>4 DEF SameHolder, Stands
<1> QED BY <1>3, <1>4

-----------------------------------------------------------------------------
(* No request or purge makes a session: it shortens, keeps or drops those     *)
(* that are stored.                                                          *)
SessionsFollow ==
    \A t \in Tokens :
        sessions'[t] # NoSession => sessions[t] # NoSession /\ SameHolder(sessions[t], sessions'[t])

LEMMA ReconciledFollows ==
    ASSUME NEW s \in Optional, NEW next, NEW r, r = RevokedFor(s, next), r # NoSession
    PROVE  s # NoSession /\ SameHolder(s, r)
<1>1. s # NoSession /\ s \in Session
  BY DEF RevokedFor, Optional
<1>2. CASE r = s
  BY <1>1, <1>2 DEF SameHolder
<1>3. CASE r # s
  <2> PICK e : r = [s EXCEPT !.expiresAt = e]
    BY <1>3 DEF RevokedFor, Reconciled, ReconciledAccess, ReconciledLegacy, Clamped
  <2> QED BY <1>1 DEF SameHolder, Session
<1> QED BY <1>2, <1>3

LEMMA ReplaceFollows ==
    ASSUME Typed, NEW next, ReplaceInvites(next)
    PROVE  SessionsFollow
<1> SUFFICES ASSUME NEW t \in Tokens, NEW s, s = sessions[t], NEW r, r = sessions'[t], r # NoSession
             PROVE  s # NoSession /\ SameHolder(s, r)
  BY DEF SessionsFollow
<1>1. r = RevokedFor(s, next)
  BY DEF ReplaceInvites
<1>2. s \in Optional
  BY DEF Typed, RowsTyped
<1> QED BY <1>1, <1>2, ReconciledFollows

LEMMA FewerFollow ==
    ASSUME \A t \in Tokens : sessions'[t] \in {sessions[t], NoSession}
    PROVE  SessionsFollow
BY DEF SessionsFollow, SameHolder

LEMMA AdminStepFollows ==
    ASSUME Typed, NEW a \in Admins, AdminStep(a)
    PROVE  SessionsFollow
<1>1. CASE sessions' = sessions
  BY <1>1, FewerFollow
<1>2. CASE \E next : ReplaceInvites(next)
  BY <1>2, ReplaceFollows
<1>3. ASSUME NEW i \in Items, DeleteInvite(a, i) PROVE SessionsFollow
  BY <1>3, FewerFollow DEF DeleteInvite, RemoveInvite
<1>4. CASE \E d \in Data : SaveInvites(a, d) \/ ReconcileSave(a, d) \/ SyncWrites(a, d)
  BY <1>2, <1>4 DEF SaveInvites, ReconcileSave, SyncWrites, UpsertInvite
<1> QED
  BY <1>1, <1>3, <1>4 DEF AdminStep, ReadOnly, ReadInvites, SaveInvitesConflict, ReconcileRead,
     ReconcileConflict, DeleteReadsTrash, DeleteConflict, ReadTrash, RestoreReadsInvites,
     RestoreFromTrash, RestoreInvite, RestoreConflict, PurgeFromTrash, PurgeTrash, SaveTrash,
     ReplaceTrash, TrashConflict, ReadMigrationBatch, CommitMigrationBatch, CommitMigration,
     MigrationConflict, SyncStarts, SyncReads, SyncSkips, SyncEnds

(* What the object stores, reads from KV or is about to store keeps standing  *)
(* through a step that makes no session.                                     *)
LEMMA FollowersStand ==
    ASSUME Typed, Typed', RowsStep, SessionsStand, SessionsFollow, UNCHANGED <<kv, reader, login>>
    PROVE  SessionsStand'
<1> SUFFICES ASSUME NEW t \in Tokens
             PROVE  /\ sessions'[t] # NoSession => Stands(sessions[t])'
                    /\ kv[t] # NoSession => Stands(kv[t])'
                    /\ reader[t].pc \in {"invite", "put"} => Stands(reader[t].payload)'
                    /\ login[t] # NoLogin => Stands(SessionFor(login[t]))'
  BY DEF SessionsStand
<1>1. ASSUME sessions'[t] # NoSession PROVE Stands(sessions[t])'
  <2> PICK s : s = sessions[t]
    OBVIOUS
  <2> PICK r : r = sessions'[t]
    OBVIOUS
  <2>1. s \in Session /\ Stands(s) /\ SameHolder(s, r)
    BY <1>1 DEF SessionsFollow, SessionsStand, Typed, RowsTyped, Optional
  <2>2. Stands(s)'
    BY <2>1, StandsStays
  <2>3. Stands(r)'
    BY <2>1, <2>2 DEF SameHolder, Stands
  <2> QED BY <2>3
<1>2. ASSUME kv[t] # NoSession PROVE Stands(kv[t])'
  <2> PICK s : s = kv[t]
    OBVIOUS
  <2>1. s \in Session /\ Stands(s)
    BY <1>2 DEF SessionsStand, Typed, VisitorsTyped, Optional
  <2>2. Stands(s)'
    BY <2>1, StandsStays
  <2>3. s = kv'[t]
    OBVIOUS
  <2> QED BY <2>2, <2>3
<1>3. ASSUME reader[t].pc \in {"invite", "put"} PROVE Stands(reader[t].payload)'
  <2> PICK s : s = reader[t].payload
    OBVIOUS
  <2>1. s \in Session /\ Stands(s)
    BY <1>3 DEF SessionsStand, Typed, VisitorsTyped, Reading
  <2>2. Stands(s)'
    BY <2>1, StandsStays
  <2>3. s = reader'[t].payload
    OBVIOUS
  <2> QED BY <2>2, <2>3
<1>4. ASSUME login[t] # NoLogin PROVE Stands(SessionFor(login[t]))'
  BY <1>4, PendingStays DEF SessionsStand
<1> QED BY <1>1, <1>2, <1>3, <1>4

-----------------------------------------------------------------------------
(* Visitors.  They change no invite, so whoever stood stands; what they put   *)
(* anew is the invite they found, or a copy of what stood.                   *)
LEMMA VisitorFrameStands ==
    ASSUME VisitorOnly, NEW s, Stands(s)
    PROVE  Stands(s)'
BY DEF VisitorOnly, stateVars, Stands, Present

LEMMA PendingFrame ==
    ASSUME VisitorOnly, NEW t \in Tokens, Stands(SessionFor(login[t])), login'[t] = login[t]
    PROVE  Stands(SessionFor(login[t]))'
<1>1. SessionFor(login[t])' = SessionFor(login[t])
  BY DEF VisitorOnly, SessionFor
<1>2. Stands(SessionFor(login[t]))' <=> Stands(SessionFor(login[t]))
  BY <1>1 DEF VisitorOnly, stateVars, Stands, Present
<1> QED BY <1>2

(* A record that stands, or a copy of it, wherever a visitor's step puts it.  *)
Stored(s) == s = NoSession \/ Stands(s)

LEMMA LoginsStand ==
    ASSUME VisitorOnly, SessionsStand, \A t \in Tokens : login'[t] \in {login[t], NoLogin}
    PROVE  \A t \in Tokens : login'[t] # NoLogin => Stands(SessionFor(login[t]))'
<1> SUFFICES ASSUME NEW t \in Tokens, login'[t] # NoLogin PROVE Stands(SessionFor(login[t]))'
  OBVIOUS
<1>1. login'[t] = login[t] /\ Stands(SessionFor(login[t]))
  BY DEF SessionsStand
<1> QED BY <1>1, PendingFrame

LEMMA StoresStand ==
    ASSUME VisitorOnly, SessionsStand,
           \A t \in Tokens : Stored(sessions'[t]) /\ Stored(kv'[t]),
           \A t \in Tokens : reader'[t].pc \in {"invite", "put"} => Stands(reader'[t].payload),
           \A t \in Tokens : login'[t] # NoLogin => Stands(SessionFor(login[t]))'
    PROVE  SessionsStand'
<1> SUFFICES ASSUME NEW t \in Tokens
             PROVE  /\ sessions'[t] # NoSession => Stands(sessions[t])'
                    /\ kv[t]' # NoSession => Stands(kv[t])'
                    /\ reader[t].pc' \in {"invite", "put"} => Stands(reader[t].payload)'
                    /\ login[t]' # NoLogin => Stands(SessionFor(login[t]))'
  BY DEF SessionsStand
<1>1. ASSUME sessions'[t] # NoSession PROVE Stands(sessions[t])'
  <2> PICK s : s = sessions'[t]
    OBVIOUS
  <2>1. Stands(s)
    BY <1>1 DEF Stored
  <2> QED BY <2>1, VisitorFrameStands
<1>2. ASSUME kv'[t] # NoSession PROVE Stands(kv[t])'
  <2> PICK s : s = kv'[t]
    OBVIOUS
  <2>1. Stands(s)
    BY <1>2 DEF Stored
  <2> QED BY <2>1, VisitorFrameStands
<1>3. ASSUME reader'[t].pc \in {"invite", "put"} PROVE Stands(reader[t].payload)'
  <2> PICK s : s = reader'[t].payload
    OBVIOUS
  <2>1. Stands(s)
    BY <1>3
  <2> QED BY <2>1, VisitorFrameStands
<1>4. ASSUME login'[t] # NoLogin PROVE Stands(SessionFor(login[t]))'
  BY <1>4
<1> QED BY <1>1, <1>2, <1>3, <1>4

LEMMA FoundStands ==
    ASSUME Typed, NEW t \in Tokens, NEW u \in Uuids, NEW m \in Methods, FindInvite(t, u, m)
    PROVE  Stands(SessionFor(login[t]))'
<1>1. login'[t] = [uuid |-> u, method |-> m, row |-> invites[u], life |-> gen[u]]
  BY DEF FindInvite, Typed, VisitorsTyped
<1> PICK r : r = SessionFor(login[t])'
  OBVIOUS
<1>2. /\ r.uuid = u /\ r.version = invites[u].version /\ r.incarnation = gen[u]
      /\ r.method = "access_key" => r.authKey = invites[u].key
  BY <1>1 DEF SessionFor
<1>3. invites[u].version \in Nat /\ gen[u] \in Nat /\ Present(u)
  BY StoredRow DEF FindInvite, Invite, Typed, RowsTyped
<1>4. Stands(r)
  BY <1>2, <1>3 DEF Stands
<1>5. VisitorOnly
  BY DEF FindInvite
<1> QED BY <1>4, <1>5, VisitorFrameStands

LEMMA PutStores ==
    ASSUME Typed, SessionsStand, NEW t \in Tokens, NEW s, Stands(s), PutPublicSession(t, s)
    PROVE  \A x \in Tokens : Stored(sessions'[x])
BY DEF PutPublicSession, Stored, SessionsStand, Typed, RowsTyped

LEMMA VisitorStepStands ==
    ASSUME Typed, SessionsStand, NEW t \in Tokens, VisitorStep(t)
    PROVE  SessionsStand'
<1>1. VisitorOnly
  BY DEF VisitorStep, FindInvite, CreateSession, ReadSession, ReadLegacySession,
     ReadInviteForLegacy, PutLegacySession, LogoutKv, LogoutObject, CleanupDeletesKey
<1> DEFINE Sessions == \A x \in Tokens : Stored(sessions'[x])
           Keys     == \A x \in Tokens : Stored(kv'[x])
           Readers  == \A x \in Tokens : reader'[x].pc \in {"invite", "put"} => Stands(reader'[x].payload)
           Logins   == \A x \in Tokens : login'[x] # NoLogin => Stands(SessionFor(login[x]))'
<1>2. sessions' = sessions => Sessions
  BY DEF SessionsStand, Stored
<1>3. kv' = kv => Keys
  BY DEF SessionsStand, Stored
<1>4. reader' = reader => Readers
  BY DEF SessionsStand
<1>5. (\A x \in Tokens : login'[x] \in {login[x], NoLogin}) => Logins
  BY <1>1, LoginsStand
<1>6. ASSUME NEW p, p.pc \in {"invite", "put"} => Stands(p.payload), reader' = [reader EXCEPT ![t] = p]
      PROVE  Readers
  BY <1>6 DEF SessionsStand, Typed, VisitorsTyped
<1>7. Sessions /\ Keys /\ Readers /\ Logins => SessionsStand'
  BY <1>1, StoresStand
<1> HIDE DEF Sessions, Keys, Readers, Logins
<1>8. ASSUME NEW u \in Uuids, NEW m \in Methods, FindInvite(t, u, m) PROVE SessionsStand'
  <2>1. Stands(SessionFor(login[t]))'
    BY <1>8, FoundStands
  <2>2. ASSUME NEW x \in Tokens, login'[x] # NoLogin PROVE Stands(SessionFor(login[x]))'
    <3>1. CASE x = t
      BY <2>1, <3>1
    <3>2. CASE x # t
      <4>1. login'[x] = login[x] /\ Stands(SessionFor(login[x]))
        BY <1>8, <2>2, <3>2 DEF FindInvite, SessionsStand, Typed, VisitorsTyped
      <4> QED BY <1>1, <4>1, PendingFrame
    <3> QED BY <3>1, <3>2
  <2>3. Logins
    BY <2>2 DEF Logins
  <2> QED BY <1>2, <1>3, <1>4, <1>7, <1>8, <2>3 DEF FindInvite
<1>9. CASE CreateSession(t)
  <2>1. Stands(SessionFor(login[t])) /\ PutPublicSession(t, SessionFor(login[t]))
    BY <1>9 DEF CreateSession, SessionsStand
  <2>2. Sessions
    BY <2>1, PutStores DEF Sessions
  <2>3. Logins
    BY <1>5, <1>9 DEF CreateSession, Typed, VisitorsTyped
  <2> QED BY <1>3, <1>4, <1>7, <1>9, <2>2, <2>3 DEF CreateSession
<1>10. CASE ReadSession(t)
  <2>1. Sessions
    BY <1>10 DEF ReadSession, SessionsStand, Stored, Typed, RowsTyped, Sessions
  <2>2. Readers
    BY <1>10 DEF ReadSession, SessionsStand, Typed, VisitorsTyped, Readers, Reading
  <2>3. Logins
    BY <1>5, <1>10 DEF ReadSession
  <2> QED BY <1>3, <1>7, <1>10, <2>1, <2>2, <2>3 DEF ReadSession
<1>11. CASE ReadLegacySession(t)
  <2>1. Readers
    <3>1. CASE kv[t] # NoSession /\ kv[t].expiresAt > now
      <4>1. reader' = [reader EXCEPT ![t] = [pc |-> "invite", payload |-> kv[t]]] /\ Stands(kv[t])
        BY <1>11, <3>1 DEF ReadLegacySession, SessionsStand
      <4> QED BY <1>6, <4>1
    <3>2. CASE ~(kv[t] # NoSession /\ kv[t].expiresAt > now)
      BY <1>6, <1>11, <3>2 DEF ReadLegacySession
    <3> QED BY <3>1, <3>2
  <2>2. Logins
    BY <1>5, <1>11 DEF ReadLegacySession
  <2> QED BY <1>2, <1>3, <1>7, <1>11, <2>1, <2>2 DEF ReadLegacySession
<1>12. CASE ReadInviteForLegacy(t)
  <2> DEFINE s == reader[t].payload
  <2>1. Stands(s) /\ s \in Session
    BY <1>12 DEF ReadInviteForLegacy, SessionsStand, Typed, VisitorsTyped, Reading
  <2>2. Stands(ImportExpiry(s))
    <3>1. SameHolder(s, ImportExpiry(s))
      BY <2>1 DEF SameHolder, ImportExpiry, Session
    <3> QED BY <2>1, <3>1, SameHolderStands
  <2>3. Readers
    <3>1. CASE Present(s.uuid) /\ Accepts(ImportExpiry(s))
      <4>1. reader' = [reader EXCEPT ![t] = [pc |-> "put", payload |-> ImportExpiry(s)]]
        BY <1>12, <3>1 DEF ReadInviteForLegacy
      <4> QED BY <1>6, <2>2, <4>1
    <3>2. CASE ~(Present(s.uuid) /\ Accepts(ImportExpiry(s)))
      BY <1>6, <1>12, <3>2 DEF ReadInviteForLegacy
    <3> QED BY <3>1, <3>2
  <2>4. Logins
    BY <1>5, <1>12 DEF ReadInviteForLegacy
  <2> QED BY <1>2, <1>3, <1>7, <1>12, <2>3, <2>4 DEF ReadInviteForLegacy
<1>13. CASE PutLegacySession(t)
  <2>1. Stands(reader[t].payload)
    BY <1>13 DEF PutLegacySession, SessionsStand
  <2>2. Sessions
    BY <1>13, <2>1, PutStores DEF PutLegacySession, Sessions
  <2>3. Readers
    BY <1>6, <1>13 DEF PutLegacySession
  <2>4. Logins
    BY <1>5, <1>13 DEF PutLegacySession
  <2> QED BY <1>3, <1>7, <1>13, <2>2, <2>3, <2>4 DEF PutLegacySession
<1>14. CASE LogoutKv(t) \/ CleanupDeletesKey(t)
  <2>1. Keys
    BY <1>14 DEF LogoutKv, CleanupDeletesKey, SessionsStand, Stored, Typed, VisitorsTyped, Keys
  <2>2. Logins
    BY <1>5, <1>14 DEF LogoutKv, CleanupDeletesKey
  <2> QED BY <1>2, <1>4, <1>7, <1>14, <2>1, <2>2 DEF LogoutKv, CleanupDeletesKey
<1>15. CASE LogoutObject(t)
  <2>1. Sessions
    BY <1>15 DEF LogoutObject, DeleteSession, SessionsStand, Stored, Typed, RowsTyped, Sessions
  <2>2. Logins
    BY <1>5, <1>15 DEF LogoutObject
  <2> QED BY <1>3, <1>4, <1>7, <1>15, <2>1, <2>2 DEF LogoutObject
<1> QED BY <1>8, <1>9, <1>10, <1>11, <1>12, <1>13, <1>14, <1>15 DEF VisitorStep

-----------------------------------------------------------------------------
(* A logout is final for a token that never had a KV key: nothing is left     *)
(* that could store a session for it again.                                  *)
LEMMA VisitorStepInUse ==
    ASSUME Typed, TokensInUse, NEW t \in Tokens, VisitorStep(t)
    PROVE  TokensInUse'
<1>1. ASSUME NEW u \in Uuids, NEW m \in Methods, FindInvite(t, u, m) PROVE TokensInUse'
  BY <1>1 DEF FindInvite, TokensInUse, Typed, VisitorsTyped
<1>2. CASE CreateSession(t)
  BY <1>2 DEF CreateSession, TokensInUse, Typed, VisitorsTyped
<1>3. CASE ReadSession(t)
  BY <1>3 DEF ReadSession, TokensInUse, Typed, VisitorsTyped, Reading
<1>4. CASE ReadLegacySession(t)
  BY <1>4 DEF ReadLegacySession, TokensInUse, Typed, VisitorsTyped
<1>5. CASE ReadInviteForLegacy(t) \/ PutLegacySession(t)
  BY <1>5 DEF ReadInviteForLegacy, PutLegacySession, TokensInUse, Typed, VisitorsTyped
<1>6. CASE LogoutKv(t)
  BY <1>6 DEF LogoutKv, TokensInUse, Typed, VisitorsTyped
<1>7. CASE LogoutObject(t)
  BY <1>7 DEF LogoutObject, TokensInUse
<1>8. CASE CleanupDeletesKey(t)
  BY <1>8 DEF CleanupDeletesKey, TokensInUse, Typed, VisitorsTyped
<1> QED BY <1>1, <1>2, <1>3, <1>4, <1>5, <1>6, <1>7, <1>8 DEF VisitorStep

LEMMA VisitorStepLogout ==
    ASSUME Typed, TokensInUse, NativeLogoutIsFinal, NEW t \in Tokens, VisitorStep(t)
    PROVE  NativeLogoutIsFinal'
<1>1. CASE UNCHANGED <<sessions, gone>>
  BY <1>1 DEF NativeLogoutIsFinal
<1>2. CASE CreateSession(t)
  <2>1. t \notin gone /\ gone' = gone
    BY <1>2 DEF CreateSession, TokensInUse
  <2>2. \A x \in Tokens \ {t} : sessions'[x] = sessions[x]
    BY <1>2 DEF CreateSession, PutPublicSession, Typed, RowsTyped
  <2> QED BY <2>1, <2>2 DEF NativeLogoutIsFinal, Typed, VisitorsTyped
<1>3. CASE PutLegacySession(t)
  <2>1. t \in LegacyTokens /\ gone' = gone
    BY <1>3 DEF PutLegacySession, TokensInUse
  <2>2. \A x \in Tokens \ {t} : sessions'[x] = sessions[x]
    BY <1>3 DEF PutLegacySession, PutPublicSession, Typed, RowsTyped
  <2> QED BY <2>1, <2>2 DEF NativeLogoutIsFinal, Typed, VisitorsTyped
<1>4. CASE ReadSession(t) \/ LogoutObject(t)
  BY <1>4 DEF ReadSession, LogoutObject, DeleteSession, NativeLogoutIsFinal, Typed, RowsTyped, VisitorsTyped
<1> QED
  BY <1>1, <1>2, <1>3, <1>4 DEF VisitorStep, FindInvite, ReadLegacySession, ReadInviteForLegacy,
     LogoutKv, CleanupDeletesKey

(* Requests and purges only drop or shorten sessions. *)
LEMMA FollowersLogout ==
    ASSUME Typed, TokensInUse, NativeLogoutIsFinal, SessionsFollow, UNCHANGED visitorVars
    PROVE  TokensInUse' /\ NativeLogoutIsFinal'
BY DEF TokensInUse, NativeLogoutIsFinal, SessionsFollow, visitorVars, Typed, VisitorsTyped

LEMMA StepHistories ==
    ASSUME Typed, Typed', CopiesSound, HistoriesSound, [Next]_vars
    PROVE  HistoriesSound'
<1>1. RowsStep
  BY StepRows
<1>2. CASE SessionsFollow /\ UNCHANGED visitorVars
  <2>1. TokensInUse' /\ NativeLogoutIsFinal'
    BY <1>2, FollowersLogout DEF HistoriesSound
  <2>2. SessionsStand'
    BY <1>1, <1>2, FollowersStand DEF HistoriesSound, visitorVars
  <2> QED BY <2>1, <2>2 DEF HistoriesSound
<1>3. ASSUME NEW a \in Admins, AdminStep(a) PROVE SessionsFollow /\ UNCHANGED visitorVars
  <2>1. SessionsFollow
    BY <1>3, AdminStepFollows
  <2>2. UNCHANGED visitorVars
    BY <1>3 DEF AdminStep, AdminOnly, ReadOnly, ReadInvites, SaveInvites, SaveInvitesConflict,
       ReconcileRead, ReconcileSave, ReconcileConflict, DeleteReadsTrash, DeleteInvite, DeleteConflict,
       ReadTrash, RestoreReadsInvites, RestoreFromTrash, RestoreConflict, PurgeFromTrash, SaveTrash,
       TrashConflict, ReadMigrationBatch, CommitMigrationBatch, MigrationConflict, SyncStarts,
       SyncReads, SyncWrites, SyncSkips, SyncEnds
  <2> QED BY <2>1, <2>2
<1>4. CASE PurgeExpiredSessions
  <2>1. SessionsFollow
    BY <1>4, FewerFollow DEF PurgeExpiredSessions
  <2> QED BY <1>2, <1>4, <2>1 DEF PurgeExpiredSessions
<1>5. CASE CleanupCompletes \/ Tick \/ UNCHANGED vars
  BY <1>2, <1>5, FewerFollow DEF CleanupCompletes, Tick, vars
<1>6. ASSUME NEW t \in Tokens, VisitorStep(t) PROVE HistoriesSound'
  BY <1>6, VisitorStepStands, VisitorStepInUse, VisitorStepLogout DEF HistoriesSound
<1> QED BY <1>2, <1>3, <1>4, <1>5, <1>6 DEF Next

(* The sessions the import leaves in KV were given for the rows it brings.    *)
LEMMA InitHistories ==
    ASSUME Init
    PROVE  HistoriesSound
<1>1. Typed
  BY InitTyped
<1>2. ASSUME NEW t \in Tokens, kv[t] # NoSession PROVE Stands(kv[t])
  <2>1. PICK u \in Uuids : Present(u) /\ kv[t] = LegacySession(u, invites[u])
    <3>1. kv \in [Tokens -> {LegacySession(u, invites[u]) : u \in {v \in Uuids : Present(v)}}
                              \cup {NoSession}]
      BY DEF Init
    <3> QED BY <1>2, <3>1
  <2>2. gen[u] = 0 /\ invites[u].version \in Nat
    BY <1>1, <2>1, StoredRow DEF Init, Invite
  <2> QED BY <2>1, <2>2 DEF Stands, LegacySession
<1>3. SessionsStand
  BY <1>2 DEF Init, SessionsStand
<1>4. TokensInUse
  BY DEF Init, TokensInUse
<1>5. NativeLogoutIsFinal
  BY DEF Init, NativeLogoutIsFinal
<1> QED BY <1>3, <1>4, <1>5 DEF HistoriesSound

LEMMA AlwaysHistories == Spec => []HistoriesSound
<1>1. Typed /\ Typed' /\ CopiesSound /\ HistoriesSound /\ [Next]_vars => HistoriesSound'
  BY StepHistories
<1> QED BY <1>1, InitHistories, AlwaysTyped, AlwaysSound, PTL DEF Spec

(* A session the object honours stands for the invite's present key, and a    *)
(* browser that logged out stays logged out, whatever requests, sign-ins and  *)
(* look-ups overlap (assertPublicSessionAgainstInvite compares versions only). *)
THEOREM HonouredAlwaysCurrent == Spec => []HonouredIsCurrent
<1>1. Typed /\ HistoriesSound => HonouredIsCurrent
  <2> SUFFICES ASSUME Typed, HistoriesSound, NEW t \in Tokens, Honoured(t),
                      sessions[t].method = "access_key",
                      sessions[t].incarnation = gen[sessions[t].uuid]
               PROVE  sessions[t].authKey = invites[sessions[t].uuid].key
    BY DEF HistoriesSound, HonouredIsCurrent, HonouredKeyIsCurrent
  <2>1. Stands(sessions[t])
    BY DEF Honoured, HistoriesSound, SessionsStand
  <2>2. sessions[t].version = invites[sessions[t].uuid].version
    BY DEF Honoured, Accepts, Acceptable, AccessSessionValid
  <2> QED BY <2>1, <2>2 DEF Stands
<1> QED BY <1>1, AlwaysTyped, AlwaysHistories, PTL

-----------------------------------------------------------------------------
(* What may end a session.  While the invite keeps its key its whole          *)
(* credential stays, and reconciling an honoured session with it changes      *)
(* nothing: nothing another invite's write does can log its visitor out.      *)
LEMMA SameKeySameCredential ==
    ASSUME Typed, Typed', RowsStep, KeysIssued, NEW u \in Uuids, Present(u), ~CredentialChanged(u)
    PROVE  SameCredential(u) /\ Present(u)'
<1>1. RowStep(u) /\ invites[u].key < nextKey /\ Present(u)'
  BY DEF RowsStep, KeysIssued, CredentialChanged, Present
<1>2. invites[u].key \in Nat /\ nextKey \in Nat /\ invites'[u].key = invites[u].key
  BY StoredRow DEF Invite, Typed, RowsTyped, CredentialChanged
<1>3. ~Fresh(u)
  BY <1>1, <1>2 DEF Fresh
<1>4. CASE invites'[u] = invites[u]
  BY <1>1, <1>4 DEF SameCredential
<1> QED BY <1>1, <1>3, <1>4 DEF RowStep, NextCredential

LEMMA ReconciledIsKept ==
    ASSUME Typed, NEW s \in Session, Accepts(s), NEW next, next[s.uuid] # NoInvite,
           next[s.uuid].key = invites[s.uuid].key,
           next[s.uuid].version = invites[s.uuid].version,
           next[s.uuid].deadline = invites[s.uuid].deadline
    PROVE  RevokedFor(s, next) = s
<1> DEFINE old == invites[s.uuid]
           new == next[s.uuid]
<1>1. s # NoSession => RevokedFor(s, next) = Reconciled(s, old, new)
  BY DEF Accepts, RevokedFor
<1>2. CASE s.method = "access_key"
  BY <1>1, <1>2 DEF RevokedFor, Reconciled, ReconciledAccess
<1>3. CASE s.method = "legacy_uuid"
  <2>1. s.expiresAt > now /\ LegacySessionValid(s, old)
    BY <1>3 DEF Accepts, Acceptable
  <2>2. CASE new.deadline = NoDeadline
    <3>1. new.key = 0
      BY <2>1, <2>2 DEF LegacySessionValid
    <3> QED BY <1>1, <1>3, <2>2, <3>1 DEF RevokedFor, Reconciled, ReconciledLegacy
  <2>3. CASE new.deadline # NoDeadline
    <3>1. s.expiresAt <= new.deadline
      BY <2>1, <2>3 DEF LegacySessionValid
    <3>2. Earlier(s.expiresAt, new.deadline) = s.expiresAt
      BY <3>1 DEF Earlier
    <3>3. s.expiresAt \in Nat /\ now \in Nat
      BY DEF Session, Typed, VisitorsTyped
    <3>4. ~(s.expiresAt <= now)
      BY <2>1, <3>3
    <3>5. [s EXCEPT !.expiresAt = s.expiresAt] = s
      BY DEF Session
    <3>6. Clamped(s, new.deadline) = s
      BY <3>2, <3>4, <3>5 DEF Clamped
    <3> QED BY <1>1, <1>3, <2>3, <3>6 DEF RevokedFor, Reconciled, ReconciledLegacy
  <2> QED BY <2>2, <2>3
<1> QED BY <1>2, <1>3 DEF Session, Methods

(* A session kept as it is, under the same credential and at the same time,   *)
(* is still honoured.                                                        *)
LEMMA KeptIsHonoured ==
    ASSUME Typed, NEW t \in Tokens, Honoured(t), now' = now, sessions'[t] = sessions[t],
           NEW u, u = sessions[t].uuid, SameCredential(u), Present(u)'
    PROVE  Honoured(t)'
<1> PICK s : s = sessions[t]
  OBVIOUS
<1>1. s \in Session /\ s # NoSession /\ Accepts(s)
  BY DEF Honoured, Typed, RowsTyped, Optional
<1>2. s.method \in {"access_key", "legacy_uuid"} /\ u = s.uuid
  BY <1>1 DEF Session, Methods
<1>3. Acceptable(s, invites[s.uuid])
  BY <1>1 DEF Accepts
<1>4. Acceptable(s, invites[s.uuid])'
  <2>1. CASE s.method = "access_key"
    BY <1>2, <1>3, <2>1 DEF Acceptable, AccessSessionValid, SameCredential
  <2>2. CASE s.method = "legacy_uuid"
    BY <1>2, <1>3, <2>2 DEF Acceptable, LegacySessionValid, SameCredential
  <2> QED BY <1>2, <2>1, <2>2
<1>5. Accepts(s)'
  BY <1>1, <1>2, <1>4 DEF Accepts, Present
<1>6. s = sessions'[t]
  OBVIOUS
<1> QED BY <1>1, <1>5, <1>6 DEF Honoured

(* A stored session that is written over is written over by an honoured one.  *)
LEMMA PutIsHonoured ==
    ASSUME Typed, VisitorOnly, NEW t \in Tokens, NEW x \in Tokens, NEW s \in Session,
           PutPublicSession(x, s), sessions'[t] # sessions[t]
    PROVE  Honoured(t)'
<1>1. Accepts(s) /\ sessions'[t] = s
  BY DEF PutPublicSession, Typed, RowsTyped
<1>2. Accepts(s)'
  <2>1. UNCHANGED <<now, invites>>
    BY DEF VisitorOnly, stateVars
  <2> QED BY <1>1, <2>1 DEF Accepts, Present, Acceptable, AccessSessionValid, LegacySessionValid
<1> QED BY <1>1, <1>2, AbsenceAssumption DEF Honoured

LEMMA ReplaceKeeps ==
    ASSUME Typed, NEW t \in Tokens, Honoured(t), NEW u, u = sessions[t].uuid,
           SameCredential(u), Present(u)', NEW next, ReplaceInvites(next)
    PROVE  sessions'[t] = sessions[t]
<1>1. sessions[t] \in Session /\ Accepts(sessions[t])
  BY DEF Honoured, Typed, RowsTyped, Optional
<1>2. invites' = next /\ sessions'[t] = RevokedFor(sessions[t], next)
  BY DEF ReplaceInvites
<1> QED BY <1>1, <1>2, ReconciledIsKept DEF SameCredential, Present

(* A session that stays honoured or goes for its own cause, step by step.     *)
OwnCause(t) ==
    \/ now' # now
    \/ t \in gone'
    \/ CredentialChanged(sessions[t].uuid)

LEMMA AdminStepKeeps ==
    ASSUME Typed, NEW t \in Tokens, Honoured(t), NEW u, u = sessions[t].uuid,
           SameCredential(u), Present(u)', NEW a \in Admins, AdminStep(a)
    PROVE  sessions'[t] = sessions[t]
<1>1. CASE \E next : ReplaceInvites(next)
  BY <1>1, ReplaceKeeps
<1>2. CASE \E d \in Data : SaveInvites(a, d) \/ ReconcileSave(a, d) \/ SyncWrites(a, d)
  BY <1>1, <1>2 DEF SaveInvites, ReconcileSave, SyncWrites, UpsertInvite
<1>3. ASSUME NEW i \in Items, DeleteInvite(a, i) PROVE sessions'[t] = sessions[t]
  <2>1. u \in Uuids
    BY DEF Honoured, Typed, RowsTyped, Optional, Session
  <2>2. u # admin[a].uuid
    BY <1>3, <2>1 DEF DeleteInvite, RemoveInvite, Present, Typed, RowsTyped, Rows
  <2> QED BY <1>3, <2>2 DEF DeleteInvite, RemoveInvite, SessionsOf
<1> QED
  BY <1>2, <1>3 DEF AdminStep, ReadOnly, ReadInvites, SaveInvitesConflict, ReconcileRead,
     ReconcileConflict, DeleteReadsTrash, DeleteConflict, ReadTrash, RestoreReadsInvites,
     RestoreFromTrash, RestoreInvite, RestoreConflict, PurgeFromTrash, PurgeTrash, SaveTrash,
     ReplaceTrash, TrashConflict, ReadMigrationBatch, CommitMigrationBatch, CommitMigration,
     MigrationConflict, SyncStarts, SyncReads, SyncSkips, SyncEnds

LEMMA VisitorStepKeeps ==
    ASSUME Typed, NEW t \in Tokens, Honoured(t), NEW x \in Tokens, VisitorStep(x)
    PROVE  \/ sessions'[t] = sessions[t]
           \/ Honoured(t)'
           \/ t \in gone'
<1>1. CASE UNCHANGED sessions
  BY <1>1
<1>2. CASE CreateSession(x)
  <2>1. SessionFor(login[x]) \in Session
    BY <1>2, SessionForTyped DEF CreateSession
  <2> QED BY <1>2, <2>1, PutIsHonoured DEF CreateSession
<1>3. CASE PutLegacySession(x)
  <2>1. reader[x].payload \in Session
    BY <1>3 DEF PutLegacySession, Typed, VisitorsTyped, Reading
  <2> QED BY <1>3, <2>1, PutIsHonoured DEF PutLegacySession
<1>4. CASE ReadSession(x) \/ LogoutObject(x)
  BY <1>4 DEF ReadSession, LogoutObject, DeleteSession, Typed, RowsTyped
<1> QED
  BY <1>1, <1>2, <1>3, <1>4 DEF VisitorStep, FindInvite, ReadLegacySession, ReadInviteForLegacy,
     LogoutKv, CleanupDeletesKey

LEMMA EndsForOwnCause ==
    ASSUME Typed, Typed', CopiesSound, KeysIssued, [Next]_vars,
           NEW t \in Tokens, Honoured(t), ~Honoured(t)'
    PROVE  OwnCause(t)
<1> SUFFICES ASSUME now' = now, t \notin gone', ~CredentialChanged(sessions[t].uuid)
             PROVE  FALSE
  BY DEF OwnCause
<1> PICK u : u = sessions[t].uuid
  OBVIOUS
<1>1. u \in Uuids /\ Present(u)
  BY DEF Honoured, Accepts, Typed, RowsTyped, Optional, Session
<1>2. SameCredential(u) /\ Present(u)'
  BY <1>1, StepRows, SameKeySameCredential
<1>3. sessions'[t] # sessions[t]
  BY <1>2, KeptIsHonoured
<1>4. ASSUME NEW a \in Admins, AdminStep(a) PROVE FALSE
  BY <1>2, <1>3, <1>4, AdminStepKeeps
<1>5. ASSUME NEW x \in Tokens, VisitorStep(x) PROVE FALSE
  BY <1>3, <1>5, VisitorStepKeeps
<1>6. CASE PurgeExpiredSessions
  <2>1. sessions[t].expiresAt > now /\ sessions[t].expiresAt \in Nat /\ now \in Nat
    BY DEF Honoured, Accepts, Typed, RowsTyped, VisitorsTyped, Optional, Session
  <2> QED BY <1>3, <1>6, <2>1 DEF PurgeExpiredSessions
<1>7. CASE CleanupCompletes \/ Tick \/ UNCHANGED vars
  BY <1>3, <1>7 DEF CleanupCompletes, Tick, vars
<1> QED BY <1>4, <1>5, <1>6, <1>7 DEF Next

(* A visitor's session ends by its own logout, by time, or by a change of its *)
(* own invite's credential: writing back the whole collection logs nobody     *)
(* else out (reconcilePublicSessionsForInvite).                              *)
THEOREM SessionsEndForOwnCause == Spec => SessionEndsForOwnCause
<1>1. Typed /\ Typed' /\ CopiesSound /\ KeysIssued /\ [Next]_vars =>
        [\A t \in Tokens :
            (Honoured(t) /\ ~Honoured(t)') =>
               \/ now' # now
               \/ t \in gone'
               \/ CredentialChanged(sessions[t].uuid)]_vars
  BY EndsForOwnCause DEF OwnCause
<1> QED BY <1>1, AlwaysTyped, AlwaysSound, PTL DEF Spec, SessionEndsForOwnCause
=============================================================================
