----------------------------- MODULE AuthState -----------------------------
(***************************************************************************)
(* The AuthState Durable Object (worker-allow-ip/src/auth-state.js) and    *)
(* the requests that use it: admin operations that read the invites and    *)
(* the trash, work, and write them back with a revision compare-and-swap   *)
(* (admin.js); the scheduled key synchronisation; and visitors' sign-in,   *)
(* session look-up and logout (index.js), whose look-up falls back to the  *)
(* session keys the legacy deployment left in Workers KV until the legacy  *)
(* cleanup is complete.                                                    *)
(*                                                                         *)
(* The object runs one call at a time, each in one SQLite transaction, so  *)
(* an action is one call; a request is several actions, interleaved with   *)
(* the others at every await.                                              *)
(*                                                                         *)
(* Data.  An access key is the number of its issue (0: the empty hash of   *)
(* an invite not yet migrated); in the code credentialVersion >= 2 exactly *)
(* when accessKeyHmac is not empty, so it has no field of its own.  The    *)
(* rest of an invite is one value of Data.  Fields marked "history" are    *)
(* not in the code.                                                        *)
(***************************************************************************)
EXTENDS Integers, FiniteSets

CONSTANTS
    Uuids,          \* invites
    Tokens,         \* public session tokens
    LegacyTokens,   \* those with a `uuid-session:` key in KV at the import
    Admins,         \* concurrent admin requests and scheduled runs
    Items,          \* trash ids
    Data,           \* names, API configurations, sync metadata of an invite
    BatchLimit,     \* MAX_INVITE_CREDENTIAL_MIGRATION_BATCH
    Attempts,       \* AUTH_STATE_RECONCILE_ATTEMPTS
    LegacyPeriod,   \* the seven days a legacy UUID still signs in
    SessionTtl,     \* UUID_SESSION_TTL_SECONDS
    AdminOps,       \* the admin operations of this instance
    MaxTime,        \* bound on the clock
    MaxKeys,        \* bound on the access keys issued
    MaxRevision,    \* bound on the revisions at which a request starts
    NoInvite, NoSession, NoDeadline, NoItem, NoLogin

ASSUME PeriodAssumption == LegacyPeriod \in Nat \ {0} /\ SessionTtl \in Nat \ {0}
ASSUME BoundAssumption  == BatchLimit \in Nat \ {0} /\ Attempts \in Nat \ {0}
                           /\ MaxTime \in Nat /\ MaxKeys \in Nat /\ MaxRevision \in Nat
ASSUME TokenAssumption  == LegacyTokens \subseteq Tokens
ASSUME SetAssumption    == Uuids # {} /\ IsFiniteSet(Uuids) /\ Data # {} /\ "none" \notin AdminOps

VARIABLES
    now,
    invites,        \* Uuids -> invite row or NoInvite
    trash,          \* Items -> the uuid of the removed invite, or NoItem
    invRev,         \* auth_meta invites_revision
    trashRev,       \* auth_meta trash_revision
    sessions,       \* the object's public sessions
    kv,             \* the legacy `uuid-session:` keys of Workers KV
    legacyOpen,     \* legacyCleanupComplete === false
    admin,          \* what each admin request holds between its calls
    login,          \* a sign-in between findInvite and createPublicSession
    reader,         \* a session look-up between its calls
    leaving,        \* logouts between the KV delete and the object's delete
    nextKey,        \* the next access key to be issued
    born,           \* history: tokens already handed out
    gone,           \* history: tokens whose logout was answered
    gen             \* history: how often each uuid was removed

stateVars   == <<invites, trash, invRev, trashRev>>
visitorVars == <<kv, login, reader, leaving, born, gone>>
vars == <<now, stateVars, sessions, legacyOpen, admin, nextKey, gen, visitorVars>>

-----------------------------------------------------------------------------
Methods   == {"access_key", "legacy_uuid"}
Deadlines == Nat \cup {NoDeadline}

(* `authKey` and `incarnation` are history: the key the visitor proved to    *)
(* hold, and the life of the invite it belonged to.                          *)
Invite  == [key : Nat, version : Nat, deadline : Deadlines, data : Data]
Session == [uuid : Uuids, method : Methods, version : Nat, expiresAt : Nat,
            authKey : Nat, incarnation : Nat, origin : {"login", "kv"}]

ASSUME AbsenceAssumption == NoInvite \notin Invite /\ NoDeadline \notin Nat /\ NoSession \notin Session

Earlier(a, b) == IF a <= b THEN a ELSE b

Present(u)  == invites[u] # NoInvite
Unmigrated  == {u \in Uuids : Present(u) /\ invites[u].key = 0}

(* issueInviteAccessCredential: a fresh random key and the next version.     *)
MutantIssueKeepsVersion(invite, until) ==
    [key |-> nextKey, version |-> invite.version, deadline |-> until, data |-> invite.data]

Issue(invite, until) ==
    [key |-> nextKey, version |-> invite.version + 1, deadline |-> until, data |-> invite.data]

NewInvite(d) == [key |-> 0, version |-> 0, deadline |-> NoDeadline, data |-> d]

(***************************************************************************)
(* assertPublicSessionAgainstInvite, with normalizePublicSession's demand  *)
(* that the expiry lie in the future.                                      *)
(***************************************************************************)
AccessSessionValid(s, invite) == invite.key # 0 /\ s.version = invite.version

LegacySessionValid(s, invite) ==
    /\ invite.key # 0 => (invite.deadline # NoDeadline /\ now <= invite.deadline)
    /\ invite.deadline # NoDeadline => s.expiresAt <= invite.deadline

Acceptable(s, invite) ==
    CASE s.method = "access_key"  -> AccessSessionValid(s, invite)
      [] s.method = "legacy_uuid" -> LegacySessionValid(s, invite)

Accepts(s) ==
    /\ Present(s.uuid)
    /\ s.expiresAt > now
    /\ Acceptable(s, invites[s.uuid])

(* What authStateGetPublicSession would answer for a token. *)
Honoured(t) == sessions[t] # NoSession /\ Accepts(sessions[t])

(***************************************************************************)
(* reconcilePublicSessionsForInvite: what becomes of a stored session when *)
(* its invite changes from old to new.                                     *)
(***************************************************************************)
Clamped(s, deadline) ==
    LET e == Earlier(s.expiresAt, deadline) IN
    IF e <= now THEN NoSession ELSE [s EXCEPT !.expiresAt = e]

ReconciledAccess(s, old, new) ==
    IF old.key = new.key /\ old.version = new.version THEN s ELSE NoSession

ReconciledLegacy(s, new) ==
    IF new.deadline # NoDeadline THEN Clamped(s, new.deadline)
    ELSE IF new.key # 0 THEN NoSession ELSE s

Reconciled(s, old, new) ==
    IF s.method = "access_key" THEN ReconciledAccess(s, old, new)
                               ELSE ReconciledLegacy(s, new)

(* The sessions after the invites rows became next, row by row. *)
RevokedFor(s, next) ==
    IF s = NoSession \/ ~Present(s.uuid) THEN s
    ELSE IF next[s.uuid] = NoInvite THEN NoSession
    ELSE Reconciled(s, invites[s.uuid], next[s.uuid])

SessionsOf(u) == {t \in Tokens : sessions[t] # NoSession /\ sessions[t].uuid = u}

-----------------------------------------------------------------------------
(***************************************************************************)
(* The object's transactions on invites and trash.  Each is the success    *)
(* case; Conflict is the answer when a revision has moved on, which writes *)
(* nothing.                                                                *)
(***************************************************************************)
MutantNoRevisionCheck(rev) == TRUE

InvitesAt(rev) == invRev = rev

TrashAt(rev) == trashRev = rev

(* authStateReplaceInvites: the whole collection, and in the same            *)
(* transaction every public session the new rows no longer support.          *)
MutantReplaceLogsAllOut(next) ==
    /\ invites' = next
    /\ sessions' = [t \in Tokens |-> NoSession]
    /\ invRev' = invRev + 1
    /\ UNCHANGED <<trash, trashRev>>

ReplaceInvites(next) ==
    /\ invites' = next
    /\ sessions' = [t \in Tokens |-> RevokedFor(sessions[t], next)]
    /\ invRev' = invRev + 1
    /\ UNCHANGED <<trash, trashRev>>

(* authStateUpsertInvite: the same for one row. *)
UpsertInvite(u, invite) == ReplaceInvites([invites EXCEPT ![u] = invite])

(* authStateCommitCredentialMigrationBatch: keys for a batch of invites that  *)
(* have none.  Sessions are left as they are.                                *)
Migrated(u, k) ==
    [key |-> k, version |-> invites[u].version + 1, deadline |-> now + LegacyPeriod,
     data |-> invites[u].data]

CommitMigration(keyOf) ==
    /\ invites' = [u \in Uuids |->
                     IF u \in DOMAIN keyOf THEN Migrated(u, keyOf[u]) ELSE invites[u]]
    /\ invRev' = invRev + 1
    /\ UNCHANGED <<trash, trashRev, sessions>>

(* authStateRemoveInvite: both revisions, the trash item, the row and its    *)
(* public sessions at once.                                                  *)
MutantRemoveKeepsSessions(u, i) ==
    /\ invites' = [invites EXCEPT ![u] = NoInvite]
    /\ trash' = [trash EXCEPT ![i] = u]
    /\ invRev' = invRev + 1
    /\ trashRev' = trashRev + 1
    /\ gen' = [gen EXCEPT ![u] = @ + 1]
    /\ UNCHANGED sessions

RemoveInvite(u, i) ==
    /\ invites' = [invites EXCEPT ![u] = NoInvite]
    /\ trash' = [trash EXCEPT ![i] = u]
    /\ sessions' = [t \in Tokens |-> IF t \in SessionsOf(u) THEN NoSession ELSE sessions[t]]
    /\ invRev' = invRev + 1
    /\ trashRev' = trashRev + 1
    /\ gen' = [gen EXCEPT ![u] = @ + 1]

(* authStateRestoreInvite: the row comes back under a new key, from a trash   *)
(* item that kept neither key nor version.                                   *)
RestoreInvite(u, i) ==
    /\ invites' = [invites EXCEPT ![u] = Issue(NewInvite(CHOOSE d \in Data : TRUE), NoDeadline)]
    /\ trash' = [trash EXCEPT ![i] = NoItem]
    /\ invRev' = invRev + 1
    /\ trashRev' = trashRev + 1
    /\ UNCHANGED sessions

(* authStatePurgeTrash. *)
PurgeTrash(i) ==
    /\ trash' = [trash EXCEPT ![i] = NoItem]
    /\ trashRev' = trashRev + 1
    /\ UNCHANGED <<invites, invRev, sessions>>

(* authStateReplaceTrash.  IP-group items are not distinguished from one      *)
(* another here, so deleting a group only moves the revision.                *)
ReplaceTrash(next) ==
    /\ trash' = next
    /\ trashRev' = trashRev + 1
    /\ UNCHANGED <<invites, invRev, sessions>>

-----------------------------------------------------------------------------
(***************************************************************************)
(* Admin requests.  `base` and `items` are the collections a request read, *)
(* `rev` and `trev` the revisions they carried.                            *)
(***************************************************************************)
Resting == [pc |-> "idle", op |-> "none", uuid |-> CHOOSE u \in Uuids : TRUE,
            base |-> [u \in Uuids |-> NoInvite], rev |-> 0,
            items |-> [i \in Items |-> NoItem], trev |-> 0, tries |-> 0]

Ends(a) == admin' = [admin EXCEPT ![a] = Resting]

Starts(a, op) == /\ op \in AdminOps
                 /\ admin[a].pc = "idle"
                 /\ invRev < MaxRevision
                 /\ trashRev < MaxRevision

AdminOnly == UNCHANGED <<now, legacyOpen, visitorVars>>
ReadOnly  == AdminOnly /\ UNCHANGED <<stateVars, sessions, nextKey, gen>>

(* readInvites at the head of createInvite, rotateInviteAccessKey,           *)
(* updateInvite and deleteInvite, with their tests on the invite they want.  *)
Wanted(op, u) == IF op = "create" THEN ~Present(u) ELSE Present(u)

NextStep(op) == IF op = "delete" THEN "trash" ELSE "save"

ReadInvites(a, op, u) ==
    /\ op \in {"create", "rotate", "update", "delete"}
    /\ Starts(a, op)
    /\ Wanted(op, u)
    /\ admin' = [admin EXCEPT ![a] = [Resting EXCEPT !.pc = NextStep(op), !.op = op,
                    !.uuid = u, !.base = invites, !.rev = invRev]]
    /\ ReadOnly

MutantOneTryMore == Attempts + 1

FirstTry == Attempts

(* saveInvites lost the race.  createInvite and updateInvite have changed the *)
(* external user by then and reconcile it with the authoritative row.        *)
Conflicts(a) ==
    admin' = [admin EXCEPT ![a] =
        IF @.op = "rotate" THEN Resting
        ELSE [Resting EXCEPT !.pc = "reconcile", !.op = admin[a].op,
                             !.uuid = admin[a].uuid, !.tries = FirstTry]]

(* The row a request wants to write in place of the one it read. *)
Written(a, d) ==
    LET old == admin[a].base[admin[a].uuid] IN
    CASE admin[a].op = "create" -> Issue(NewInvite(d), NoDeadline)
      [] admin[a].op = "rotate" -> Issue(old, NoDeadline)
      [] admin[a].op = "update" -> [old EXCEPT !.data = d]

Spent(a) == IF admin[a].op = "update" THEN nextKey ELSE nextKey + 1

(* saveInvites: the collection it read, with one row changed. *)
SaveInvites(a, d) ==
    /\ admin[a].pc = "save"
    /\ Spent(a) <= MaxKeys + 1
    /\ InvitesAt(admin[a].rev)
    /\ ReplaceInvites([admin[a].base EXCEPT ![admin[a].uuid] = Written(a, d)])
    /\ nextKey' = Spent(a)
    /\ Ends(a)
    /\ UNCHANGED gen
    /\ AdminOnly

SaveInvitesConflict(a) ==
    /\ admin[a].pc = "save"
    /\ ~InvitesAt(admin[a].rev)
    /\ Conflicts(a)
    /\ ReadOnly

(* reconcileAuthoritativeInviteAfterConflict: read again, re-provision, save  *)
(* the row with fresh metadata; at most Attempts times.                      *)
ReconcileRead(a) ==
    /\ admin[a].pc = "reconcile"
    /\ IF Present(admin[a].uuid)
       THEN admin' = [admin EXCEPT ![a].pc = "resave", ![a].base = invites, ![a].rev = invRev]
       ELSE Ends(a)
    /\ ReadOnly

ReconcileSave(a, d) ==
    /\ admin[a].pc = "resave"
    /\ InvitesAt(admin[a].rev)
    /\ ReplaceInvites([admin[a].base EXCEPT ![admin[a].uuid].data = d])
    /\ Ends(a)
    /\ UNCHANGED <<nextKey, gen>>
    /\ AdminOnly

ReconcileConflict(a) ==
    /\ admin[a].pc = "resave"
    /\ ~InvitesAt(admin[a].rev)
    /\ IF admin[a].tries > 1
       THEN admin' = [admin EXCEPT ![a].pc = "reconcile", ![a].tries = @ - 1]
       ELSE Ends(a)
    /\ ReadOnly

(* deleteInvite reads the trash, later and separately, then removes under     *)
(* both revisions.                                                           *)
DeleteReadsTrash(a) ==
    /\ admin[a].pc = "trash"
    /\ admin' = [admin EXCEPT ![a].pc = "remove", ![a].items = trash, ![a].trev = trashRev]
    /\ ReadOnly

BothAt(a) == InvitesAt(admin[a].rev) /\ TrashAt(admin[a].trev)

DeleteInvite(a, i) ==
    /\ admin[a].pc = "remove"
    /\ BothAt(a)
    /\ trash[i] = NoItem
    /\ RemoveInvite(admin[a].uuid, i)
    /\ Ends(a)
    /\ UNCHANGED nextKey
    /\ AdminOnly

DeleteConflict(a) ==
    /\ admin[a].pc = "remove"
    /\ ~BothAt(a)
    /\ Conflicts(a)
    /\ ReadOnly

(* restoreInviteFromTrash, purgeInviteTrash and the IP-group operations read  *)
(* the trash first.                                                          *)
TrashStep(op) == CASE op = "restore"  -> "invites"
                   [] op = "purge"    -> "purge"
                   [] op = "ip_group" -> "savetrash"

ReadTrash(a, op, i) ==
    /\ op \in {"restore", "purge", "ip_group"}
    /\ Starts(a, op)
    /\ (op # "ip_group") => (trash[i] # NoItem)
    /\ admin' = [admin EXCEPT ![a] = [Resting EXCEPT !.pc = TrashStep(op), !.op = op,
                    !.items = trash, !.trev = trashRev,
                    !.uuid = IF op = "ip_group" THEN @ ELSE trash[i]]]
    /\ ReadOnly

RestoreReadsInvites(a) ==
    /\ admin[a].pc = "invites"
    /\ IF Present(admin[a].uuid)
       THEN Ends(a)
       ELSE admin' = [admin EXCEPT ![a].pc = "restore", ![a].base = invites, ![a].rev = invRev]
    /\ ReadOnly

RestoreFromTrash(a, i) ==
    /\ admin[a].pc = "restore"
    /\ admin[a].items[i] = admin[a].uuid
    /\ BothAt(a)
    /\ ~Present(admin[a].uuid)
    /\ nextKey <= MaxKeys
    /\ RestoreInvite(admin[a].uuid, i)
    /\ nextKey' = nextKey + 1
    /\ Ends(a)
    /\ UNCHANGED gen
    /\ AdminOnly

(* On a conflict the restore gives up or, when another request brought the   *)
(* invite back, reconciles the external user with it.                        *)
RestoreConflict(a) ==
    /\ admin[a].pc = "restore"
    /\ ~BothAt(a)
    /\ Conflicts(a)
    /\ ReadOnly

PurgeFromTrash(a, i) ==
    /\ admin[a].pc = "purge"
    /\ admin[a].items[i] = admin[a].uuid
    /\ TrashAt(admin[a].trev)
    /\ PurgeTrash(i)
    /\ Ends(a)
    /\ UNCHANGED <<nextKey, gen>>
    /\ AdminOnly

SaveTrash(a) ==
    /\ admin[a].pc = "savetrash"
    /\ TrashAt(admin[a].trev)
    /\ ReplaceTrash(admin[a].items)
    /\ Ends(a)
    /\ UNCHANGED <<nextKey, gen>>
    /\ AdminOnly

TrashConflict(a) ==
    /\ admin[a].pc \in {"purge", "savetrash"}
    /\ ~TrashAt(admin[a].trev)
    /\ Ends(a)
    /\ ReadOnly

(* migrateInviteCredentials: read a batch of invites without a key ...       *)
ReadMigrationBatch(a) ==
    /\ Starts(a, "migrate")
    /\ Unmigrated # {}
    /\ admin' = [admin EXCEPT ![a] = [Resting EXCEPT !.pc = "migrate", !.op = "migrate",
                    !.base = invites, !.rev = invRev]]
    /\ ReadOnly

(* ... and commit it, every row still being the one that was read.           *)
BatchOf(base, S) ==
    LET keyless == {u \in Uuids : base[u] # NoInvite /\ base[u].key = 0} IN
    /\ S \subseteq keyless
    /\ Cardinality(S) = Earlier(Cardinality(keyless), BatchLimit)

CommitMigrationBatch(a, S) ==
    /\ admin[a].pc = "migrate"
    /\ BatchOf(admin[a].base, S)
    /\ nextKey + Cardinality(S) <= MaxKeys + 1
    /\ InvitesAt(admin[a].rev)
    /\ \A u \in S : Present(u) /\ invites[u].key = 0 /\ invites[u].version = admin[a].base[u].version
    /\ \E keyOf \in [S -> nextKey .. nextKey + Cardinality(S) - 1] :
          /\ \A u, v \in S : keyOf[u] = keyOf[v] => u = v
          /\ CommitMigration(keyOf)
    /\ nextKey' = nextKey + Cardinality(S)
    /\ Ends(a)
    /\ UNCHANGED gen
    /\ AdminOnly

MigrationConflict(a) ==
    /\ admin[a].pc = "migrate"
    /\ ~InvitesAt(admin[a].rev)
    /\ Ends(a)
    /\ ReadOnly

(* syncAvailableSub2ApiKeys: take the revision, then per invite read the row, *)
(* pull the external keys and upsert under the revision of the last write.   *)
SyncStarts(a) ==
    /\ Starts(a, "sync")
    /\ admin' = [admin EXCEPT ![a] = [Resting EXCEPT !.pc = "sync", !.op = "sync", !.rev = invRev]]
    /\ ReadOnly

SyncReads(a, u) ==
    /\ admin[a].pc = "sync"
    /\ Present(u)
    /\ invRev < MaxRevision
    /\ admin' = [admin EXCEPT ![a].pc = "upsert", ![a].uuid = u, ![a].base = invites]
    /\ ReadOnly

SyncWrites(a, d) ==
    /\ admin[a].pc = "upsert"
    /\ InvitesAt(admin[a].rev)
    /\ UpsertInvite(admin[a].uuid, [admin[a].base[admin[a].uuid] EXCEPT !.data = d])
    /\ admin' = [admin EXCEPT ![a].pc = "sync", ![a].rev = @ + 1, ![a].base = Resting.base]
    /\ UNCHANGED <<nextKey, gen>>
    /\ AdminOnly

(* The external service failed: the next invite is tried.                    *)
SyncSkips(a) ==
    /\ admin[a].pc = "upsert"
    /\ admin' = [admin EXCEPT ![a].pc = "sync", ![a].base = Resting.base]
    /\ ReadOnly

SyncEnds(a) ==
    /\ \/ admin[a].pc = "sync"
       \/ admin[a].pc = "upsert" /\ ~InvitesAt(admin[a].rev)
    /\ Ends(a)
    /\ ReadOnly

-----------------------------------------------------------------------------
(***************************************************************************)
(* Visitors.                                                               *)
(***************************************************************************)
VisitorOnly == UNCHANGED <<now, stateVars, legacyOpen, admin, nextKey, gen>>

LegacyLoginOpen(u) ==
    /\ Present(u)
    /\ IF invites[u].key = 0 THEN TRUE
       ELSE invites[u].deadline # NoDeadline /\ now <= invites[u].deadline

(* findInvite and matchesInviteAccess: the visitor shows the access key, or   *)
(* the UUID while that still signs in.  The invite row is kept for later.    *)
FindInvite(t, u, m) ==
    /\ t \notin born
    /\ login[t] = NoLogin
    /\ Present(u)
    /\ IF m = "access_key" THEN invites[u].key # 0 ELSE LegacyLoginOpen(u)
    /\ login' = [login EXCEPT ![t] = [uuid |-> u, method |-> m, row |-> invites[u], life |-> gen[u]]]
    /\ born' = born \cup {t}
    /\ UNCHANGED <<sessions, kv, reader, leaving, gone>>
    /\ VisitorOnly

(* createUuidSession: the lifetime is cut at the deadline of the row that was *)
(* read before the allowlist was updated.                                    *)
SessionFor(l) ==
    [uuid |-> l.uuid, method |-> l.method, version |-> l.row.version,
     expiresAt |-> IF l.method = "legacy_uuid" /\ l.row.deadline # NoDeadline
                   THEN Earlier(now + SessionTtl, l.row.deadline) ELSE now + SessionTtl,
     authKey |-> IF l.method = "access_key" THEN l.row.key ELSE 0,
     incarnation |-> l.life, origin |-> "login"]

(* authStatePutPublicSession: refused unless the invite, as it is now,        *)
(* accepts the session; a refused sign-in is an error page.                  *)
PutPublicSession(t, s) ==
    sessions' = IF Accepts(s) THEN [sessions EXCEPT ![t] = s] ELSE sessions

CreateSession(t) ==
    /\ login[t] # NoLogin
    /\ PutPublicSession(t, SessionFor(login[t]))
    /\ login' = [login EXCEPT ![t] = NoLogin]
    /\ UNCHANGED <<kv, reader, leaving, born, gone>>
    /\ VisitorOnly

(* getPublicSession: the object deletes a session it does not honour; without *)
(* one, and before the legacy cleanup is complete, the look-up goes on to KV. *)
(* The status is read a call earlier; KV is empty when it turns complete, so  *)
(* a look-up that still goes there finds nothing.                            *)
ReadSession(t) ==
    /\ t \in born
    /\ reader[t].pc = "idle"
    /\ ~Honoured(t)
    /\ sessions' = [sessions EXCEPT ![t] = NoSession]
    /\ reader' = IF legacyOpen THEN [reader EXCEPT ![t].pc = "kv"] ELSE reader
    /\ UNCHANGED <<kv, login, leaving, born, gone>>
    /\ VisitorOnly

(* readLegacySession. *)
ReadLegacySession(t) ==
    /\ reader[t].pc = "kv"
    /\ reader' = [reader EXCEPT ![t] =
                    IF kv[t] # NoSession /\ kv[t].expiresAt > now
                    THEN [pc |-> "invite", payload |-> kv[t]]
                    ELSE [pc |-> "idle", payload |-> NoSession]]
    /\ UNCHANGED <<sessions, kv, login, leaving, born, gone>>
    /\ VisitorOnly

(* reconcileImportedPublicSession, on the invite as it is at that moment.     *)
ImportExpiry(s) ==
    IF s.method = "legacy_uuid" /\ invites[s.uuid].deadline # NoDeadline
    THEN [s EXCEPT !.expiresAt = Earlier(@, invites[s.uuid].deadline)] ELSE s

ReadInviteForLegacy(t) ==
    /\ reader[t].pc = "invite"
    /\ LET s == reader[t].payload IN
       reader' = [reader EXCEPT ![t] =
                    IF Present(s.uuid) /\ Accepts(ImportExpiry(s))
                    THEN [pc |-> "put", payload |-> ImportExpiry(s)]
                    ELSE [pc |-> "idle", payload |-> NoSession]]
    /\ UNCHANGED <<sessions, kv, login, leaving, born, gone>>
    /\ VisitorOnly

(* The session found in KV is stored in the object, which then answers from   *)
(* its own table.                                                            *)
PutLegacySession(t) ==
    /\ reader[t].pc = "put"
    /\ PutPublicSession(t, reader[t].payload)
    /\ reader' = [reader EXCEPT ![t] = [pc |-> "idle", payload |-> NoSession]]
    /\ UNCHANGED <<kv, login, leaving, born, gone>>
    /\ VisitorOnly

(* deletePublicSession: first the KV key, then the object's row.             *)
LogoutKv(t) ==
    /\ t \in born
    /\ login[t] = NoLogin
    /\ t \notin leaving \cup gone
    /\ kv' = [kv EXCEPT ![t] = NoSession]
    /\ leaving' = leaving \cup {t}
    /\ UNCHANGED <<sessions, login, reader, born, gone>>
    /\ VisitorOnly

DeleteSession(t) == sessions' = [sessions EXCEPT ![t] = NoSession]

LogoutObject(t) ==
    /\ t \in leaving
    /\ DeleteSession(t)
    /\ leaving' = leaving \ {t}
    /\ gone' = gone \cup {t}
    /\ UNCHANGED <<kv, login, reader, born>>
    /\ VisitorOnly

(* authStatePurgeExpiredSessions, from the scheduled handler.                *)
PurgeExpiredSessions ==
    /\ \E t \in Tokens : sessions[t] # NoSession /\ sessions[t].expiresAt <= now
    /\ sessions' = [t \in Tokens |->
                      IF sessions[t] # NoSession /\ sessions[t].expiresAt <= now
                      THEN NoSession ELSE sessions[t]]
    /\ UNCHANGED visitorVars
    /\ VisitorOnly

(* The legacy cleanup (module LegacyCleanup), allowed once every invite has a *)
(* key and every legacy deadline has passed, deletes the KV keys one by one   *)
(* and is complete when none is left.                                        *)
CleanupEligible ==
    \A u \in Uuids : Present(u) =>
        /\ invites[u].key # 0
        /\ invites[u].deadline # NoDeadline => invites[u].deadline <= now

CleanupDeletesKey(t) ==
    /\ CleanupEligible
    /\ kv[t] # NoSession
    /\ kv' = [kv EXCEPT ![t] = NoSession]
    /\ UNCHANGED <<sessions, login, reader, leaving, born, gone>>
    /\ VisitorOnly

CleanupCompletes ==
    /\ legacyOpen
    /\ CleanupEligible
    /\ \A t \in Tokens : kv[t] = NoSession
    /\ legacyOpen' = FALSE
    /\ UNCHANGED <<now, stateVars, sessions, admin, nextKey, gen, visitorVars>>

Tick ==
    /\ now < MaxTime
    /\ now' = now + 1
    /\ UNCHANGED <<stateVars, sessions, legacyOpen, admin, nextKey, gen, visitorVars>>

-----------------------------------------------------------------------------
(***************************************************************************)
(* What authStateImportLegacy leaves: the rows of the legacy collections,  *)
(* some with an access key (with or without a running UUID deadline), some *)
(* without, no session; the session keys stay in KV.                       *)
(***************************************************************************)
ImportedRow(k, deadline) ==
    [key |-> k, version |-> IF k = 0 THEN 0 ELSE 1, deadline |-> deadline,
     data |-> CHOOSE d \in Data : TRUE]

ImportedInvites(n, keyed, plain, keyOf, until) ==
    /\ n = Cardinality(keyed)
    /\ \A u, v \in keyed : keyOf[u] = keyOf[v] => u = v
    /\ keyed \cap plain = {}
    /\ keyed \cup plain # {}
    /\ invites = [u \in Uuids |-> IF u \in keyed THEN ImportedRow(keyOf[u], until[u])
                                  ELSE IF u \in plain THEN ImportedRow(0, NoDeadline)
                                  ELSE NoInvite]
    /\ nextKey = n + 1

LegacySession(u, row) ==
    [uuid |-> u, method |-> IF row.key # 0 /\ row.deadline = NoDeadline
                            THEN "access_key" ELSE "legacy_uuid",
     version |-> row.version,
     expiresAt |-> IF row.deadline = NoDeadline THEN SessionTtl
                                                ELSE Earlier(SessionTtl, row.deadline),
     authKey |-> IF row.deadline = NoDeadline THEN row.key ELSE 0,
     incarnation |-> 0, origin |-> "kv"]

Init ==
    /\ now = 0
    /\ \E n \in 0..MaxKeys, keyed, plain \in SUBSET Uuids :
       \E keyOf \in [keyed -> 1..n], until \in [keyed -> {NoDeadline, LegacyPeriod}] :
          ImportedInvites(n, keyed, plain, keyOf, until)
    /\ trash = [i \in Items |-> NoItem]
    /\ invRev = 1
    /\ trashRev = 0
    /\ sessions = [t \in Tokens |-> NoSession]
    /\ kv \in {f \in [Tokens -> {LegacySession(u, invites[u]) : u \in {v \in Uuids : Present(v)}}
                                  \cup {NoSession}] :
                 \A t \in Tokens : f[t] # NoSession <=> t \in LegacyTokens}
    /\ legacyOpen = TRUE
    /\ admin = [a \in Admins |-> Resting]
    /\ login = [t \in Tokens |-> NoLogin]
    /\ reader = [t \in Tokens |-> [pc |-> "idle", payload |-> NoSession]]
    /\ leaving = {}
    /\ born = LegacyTokens
    /\ gone = {}
    /\ gen = [u \in Uuids |-> 0]

AdminStep(a) ==
    \/ \E u \in Uuids, op \in AdminOps : ReadInvites(a, op, u)
    \/ \E d \in Data : SaveInvites(a, d)
    \/ SaveInvitesConflict(a)
    \/ ReconcileRead(a)
    \/ \E d \in Data : ReconcileSave(a, d)
    \/ ReconcileConflict(a)
    \/ DeleteReadsTrash(a)
    \/ \E i \in Items : DeleteInvite(a, i)
    \/ DeleteConflict(a)
    \/ \E i \in Items, op \in AdminOps : ReadTrash(a, op, i)
    \/ RestoreReadsInvites(a)
    \/ \E i \in Items : RestoreFromTrash(a, i)
    \/ RestoreConflict(a)
    \/ \E i \in Items : PurgeFromTrash(a, i)
    \/ SaveTrash(a)
    \/ TrashConflict(a)
    \/ ReadMigrationBatch(a)
    \/ \E S \in SUBSET Uuids : CommitMigrationBatch(a, S)
    \/ MigrationConflict(a)
    \/ SyncStarts(a)
    \/ \E u \in Uuids : SyncReads(a, u)
    \/ \E d \in Data : SyncWrites(a, d)
    \/ SyncSkips(a)
    \/ SyncEnds(a)

VisitorStep(t) ==
    \/ \E u \in Uuids, m \in Methods : FindInvite(t, u, m)
    \/ CreateSession(t)
    \/ ReadSession(t)
    \/ ReadLegacySession(t)
    \/ ReadInviteForLegacy(t)
    \/ PutLegacySession(t)
    \/ LogoutKv(t)
    \/ LogoutObject(t)
    \/ CleanupDeletesKey(t)

Next ==
    \/ \E a \in Admins : AdminStep(a)
    \/ \E t \in Tokens : VisitorStep(t)
    \/ PurgeExpiredSessions
    \/ CleanupCompletes
    \/ Tick

Spec == Init /\ [][Next]_vars

-----------------------------------------------------------------------------
AdminState ==
    [pc : {"idle", "save", "trash", "remove", "reconcile", "resave", "invites", "restore",
           "purge", "savetrash", "migrate", "sync", "upsert"},
     op : AdminOps \cup {"none"}, uuid : Uuids, base : [Uuids -> Invite \cup {NoInvite}],
     rev : Nat, items : [Items -> Uuids \cup {NoItem}], trev : Nat, tries : 0..Attempts]

(* Every variable keeps the shape its rows and requests have in the code.     *)
TypeOK ==
    /\ now \in Nat
    /\ invites \in [Uuids -> Invite \cup {NoInvite}]
    /\ trash \in [Items -> Uuids \cup {NoItem}]
    /\ invRev \in Nat
    /\ trashRev \in Nat
    /\ sessions \in [Tokens -> Session \cup {NoSession}]
    /\ kv \in [Tokens -> Session \cup {NoSession}]
    /\ legacyOpen \in BOOLEAN
    /\ admin \in [Admins -> AdminState]
    /\ login \in [Tokens -> [uuid : Uuids, method : Methods, row : Invite, life : Nat] \cup {NoLogin}]
    /\ reader \in [Tokens -> [pc : {"idle", "kv", "invite", "put"}, payload : Session \cup {NoSession}]]
    /\ leaving \subseteq Tokens
    /\ nextKey \in Nat \ {0}
    /\ born \subseteq Tokens
    /\ gone \subseteq Tokens
    /\ gen \in [Uuids -> Nat]

(* No stored session outlives what it stands on, whatever requests overlap:   *)
(* its invite exists; an access-key session carries the invite's current      *)
(* credential version; a legacy session of a migrated invite has a deadline.  *)
(* This is what replaceInvites, upsertInvite and removeInvite revoke in their *)
(* own transaction and putPublicSession checks on the current row.            *)
SupportedSession(s) ==
    /\ Present(s.uuid)
    /\ s.method = "access_key" => AccessSessionValid(s, invites[s.uuid])
    /\ (s.method = "legacy_uuid" /\ invites[s.uuid].key # 0) => invites[s.uuid].deadline # NoDeadline

StoredSessionsSupported ==
    \A t \in Tokens : sessions[t] # NoSession => SupportedSession(sessions[t])

(* The visitor behind an access-key session the object honours showed the key *)
(* the invite has now, as long as the invite was not removed in between: the  *)
(* version comparison of assertPublicSessionAgainstInvite stands for the key. *)
HonouredKeyIsCurrent ==
    \A t \in Tokens :
        (/\ Honoured(t)
         /\ sessions[t].method = "access_key"
         /\ sessions[t].incarnation = gen[sessions[t].uuid])
            => sessions[t].authKey = invites[sessions[t].uuid].key

(* A logged-out token that never had a KV key stays logged out, although a    *)
(* look-up or a sign-in of the same browser may still be running.            *)
NativeLogoutIsFinal ==
    \A t \in gone \ LegacyTokens : sessions[t] = NoSession

(* A session the object honours stands for the present key and for a browser  *)
(* that did not log out.                                                     *)
HonouredIsCurrent == HonouredKeyIsCurrent /\ NativeLogoutIsFinal

(* saveInvites writes back the whole collection a request read, yet a step    *)
(* changes no invite but the one the request is about; only the migration     *)
(* batch changes several, all of them without a key.                         *)
Changed(u) == invites'[u] # invites[u]

NoLostInviteUpdate ==
    [][\A u, v \in Uuids :
         (u # v /\ Changed(u) /\ Changed(v))
            => /\ Present(u) /\ invites[u].key = 0
               /\ Present(v) /\ invites[v].key = 0]_vars

(* While an invite exists its credential only moves forward: the version      *)
(* grows exactly when the key changes, so no request restores an old key      *)
(* from the row it read.                                                      *)
CredentialMovesForward ==
    [][\A u \in Uuids :
         (Present(u) /\ Present(u)') =>
            \/ invites'[u].key = invites[u].key /\ invites'[u].version = invites[u].version
            \/ invites'[u].key > invites[u].key /\ invites'[u].version > invites[u].version]_vars

(* A removed invite is in the trash until it is restored or purged by a       *)
(* request for it: the two collections change together or not at all, and no  *)
(* stale trash write drops or revives an item.                                *)
RemovedInviteIsKept ==
    [][/\ \A u \in Uuids : (Present(u) /\ ~Present(u)') =>
                \E i \in Items : trash[i] = NoItem /\ trash'[i] = u
       /\ \A i \in Items : (trash[i] = NoItem /\ trash'[i] # NoItem) =>
                invites[trash'[i]] # NoInvite /\ invites'[trash'[i]] = NoInvite
       /\ \A i \in Items : (trash[i] # NoItem /\ trash'[i] = NoItem) =>
                \/ invites[trash[i]] = NoInvite /\ invites'[trash[i]] # NoInvite
                \/ \E a \in Admins : admin[a].op = "purge" /\ admin[a].uuid = trash[i]]_vars

(* No step of a request that works on old copies takes anything back: not the *)
(* invites it is not about, not a credential, not what the trash has.        *)
InvitesGoForward == NoLostInviteUpdate /\ CredentialMovesForward /\ RemovedInviteIsKept

(* A visitor's session ends by its own logout, by time, or by a change of its *)
(* own invite's credential: writing back the whole collection logs nobody     *)
(* else out.                                                                  *)
CredentialChanged(u) ==
    invites'[u] = NoInvite \/ invites'[u].key # invites[u].key

SessionEndsForOwnCause ==
    [][\A t \in Tokens :
         (Honoured(t) /\ ~Honoured(t)') =>
            \/ now' # now
            \/ t \in gone'
            \/ CredentialChanged(sessions[t].uuid)]_vars

-----------------------------------------------------------------------------
(* Claims of the documentation and the tests that the code does not keep.     *)

(* "explicit logout revoke[s] sessions immediately": no session is left for a *)
(* token once its logout was answered.                                       *)
LogoutIsFinal == \A t \in gone : sessions[t] = NoSession
=============================================================================
