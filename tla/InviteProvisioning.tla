------------------------- MODULE InviteProvisioning -------------------------
(***************************************************************************)
(* One invite of the admin panel (worker-allow-ip/src/admin.js) and its    *)
(* account in Sub2API's database, which the provisioning sync service      *)
(* (sub2api-sync/sub2api_sync.py) writes on the Worker's signed calls.     *)
(*                                                                         *)
(* An administrator's request reads the stored collections with their      *)
(* revisions, calls the service, and saves with a compare and swap; when   *)
(* the save does not succeed it makes the account follow whatever is       *)
(* stored, or removes it.  A call of the service is one transaction on     *)
(* the row it locks, so it is one step here; a call that times out may     *)
(* still take effect later.  A revision is read as the set of collections  *)
(* written since: a save is refused when it needs one of those.            *)
(*                                                                         *)
(* A password is a number, 0 when the Worker does not know it; the         *)
(* fingerprint of a password hash is the password it was made from.        *)
(***************************************************************************)
EXTENDS Naturals, FiniteSets

CONSTANTS
    Actors,         \* requests that may run at once
    Keys,           \* managed API keys
    MaxStarts,      \* bound on requests
    MaxTrouble,     \* bound on failed calls and requests that are cut off
    MaxOutside,     \* bound on changes made in Sub2API itself
    MaxOthers,      \* bound on saves made for other invites
    NoInvite, NoUser, NoItem, Free

ASSUME BoundAssumption ==
    /\ {MaxStarts, MaxTrouble, MaxOutside, MaxOthers} \subseteq Nat
    /\ IsFiniteSet(Actors)
    /\ Free \notin Actors

(* A stored invite, a row of users with its active keys, a trash item.        *)
Invite == [user : Nat \ {0}, pw : Nat, fp : Nat, keys : SUBSET Keys, by : Actors \cup {Free}]
Row    == [id : Nat \ {0}, up : BOOLEAN, pw : Nat, keys : SUBSET Keys]
Item   == [id : Nat, user : Nat \ {0}]

ASSUME NoneAssumption == NoInvite \notin Invite /\ NoUser \notin Row /\ NoItem \notin Item

VARIABLES
    inv,            \* the stored invite
    trash,          \* the trash items of its UUID
    db,             \* its row in users, with its active API keys
    req,            \* the requests
    stale,          \* per request: collections written since it read them
    lease,          \* holder of the invite's record lease
    late,           \* calls given up by the Worker that may still be served
    broken,         \* history: what happened that no compensation covers
    reused,         \* history: created again while the trash held its UUID
    trouble, starts, outside, others

past   == <<broken, reused>>
bounds == <<trouble, starts, outside, others>>
vars   == <<inv, trash, db, req, stale, lease, late, past, bounds>>

Attempts == 3                       \* AUTH_STATE_RECONCILE_ATTEMPTS

Saving   == {"create", "update", "reset", "restore"}
Pulling  == {"refresh"}            \* by an administrator or by the cron trigger
Leased   == {"delete", "restore", "purge"}
Kinds    == Saving \cup Pulling \cup Leased

Blank == [kind |-> "none", pc |-> "idle", keys |-> {}, seen |-> NoInvite,
          item |-> NoItem, mine |-> NoInvite, tries |-> 0]

(* What is referred to anywhere is not given out again. *)
Copies      == {inv} \cup {req[a].seen : a \in Actors} \cup {req[a].mine : a \in Actors}
LiveInvites == Copies \ {NoInvite}
Rows        == {db} \ {NoUser}
UsedIds     == {i.user : i \in LiveInvites} \cup {t.user : t \in trash} \cup {r.id : r \in Rows}
                 \cup {m.user : m \in late} \cup {req[a].item.user : a \in {b \in Actors : req[b].item # NoItem}}
UsedPws     == {i.pw : i \in LiveInvites} \cup {i.fp : i \in LiveInvites} \cup {r.pw : r \in Rows}
                 \cup {m.pw : m \in late}

Fresh(used) == CHOOSE n \in 1..(Cardinality(used) + 1) : n \notin used

NewId == Fresh(UsedIds)
NewPw == Fresh(UsedPws)

-----------------------------------------------------------------------------
(* The sync service. *)
Call(act, user, pw, reset, keys) == [act |-> act, user |-> user, pw |-> pw, reset |-> reset, keys |-> keys]

(* resolve_invite_user: an identifier names the row of this invite, deleted   *)
(* rows included for provision and purge.                                    *)
Resolves(m) ==
    \/ m.user = 0
    \/ db # NoUser /\ db.id = m.user /\ (m.act \in {"status", "deprovision"} => db.up)

KeepsPassword(m) == db # NoUser /\ ~m.reset /\ m.pw # 0

Provisioned(m) ==
    [id   |-> IF db = NoUser THEN NewId ELSE db.id,
     up   |-> TRUE,
     pw   |-> CASE KeepsPassword(m) -> db.pw [] ~KeepsPassword(m) /\ m.pw # 0 -> m.pw [] OTHER -> NewPw,
     keys |-> m.keys]

Served(m) ==
    CASE m.act = "provision"   -> Provisioned(m)
      [] m.act = "status"      -> db
      [] m.act = "deprovision" -> [db EXCEPT !.up = FALSE, !.keys = {}]
      [] m.act = "purge"       -> NoUser

(* loginPassword is the one that was submitted, or the one just generated;    *)
(* the fingerprint is that of the row.                                       *)
Told(m) == IF m.pw # 0 THEN m.pw ELSE Served(m).pw

-----------------------------------------------------------------------------
(* The Worker. *)
Finish(a) ==
    /\ req' = [req EXCEPT ![a] = Blank]
    /\ stale' = [stale EXCEPT ![a] = {}]
    /\ lease' = IF lease = a THEN Free ELSE lease

Breaks(what, yes) == broken' = IF yes THEN broken \cup {what} ELSE broken

(* A request that leaves nothing half done when it ends early.               *)
Harmless(r) == r.kind \in Pulling \cup {"purge"}

Goes(a, r) ==
    /\ req' = [req EXCEPT ![a] = r]
    /\ UNCHANGED <<stale, lease>>

To(a, p) == [req[a] EXCEPT !.pc = p]

MutantUnleased(r) == TRUE

CanClaim(r) == r.kind \in Leased => lease = Free

(* What a kind of request asks of what it reads before it goes on.            *)
Admitted(r) ==
    CASE r.kind = "create"  -> inv = NoInvite
      [] r.kind = "restore" -> inv = NoInvite /\ r.item \in trash
      [] r.kind = "purge"   -> r.item \in trash
      [] OTHER              -> inv # NoInvite

(* A request starts with its lease, if its kind has one, and with what it      *)
(* reads; one that is not admitted leaves no trace.                           *)
Begins(a, r) ==
    /\ req[a].pc = "idle"
    /\ CanClaim(r)
    /\ Admitted(r)
    /\ req' = [req EXCEPT ![a] = [r EXCEPT !.pc = "call", !.seen = inv]]
    /\ stale' = [stale EXCEPT ![a] = {}]
    /\ lease' = IF r.kind \in Leased THEN a ELSE lease
    /\ UNCHANGED <<inv, trash, db, late, past>>

Asked(r) ==
    CASE r.kind = "create"  -> Call("provision", 0, 0, FALSE, r.keys)
      [] r.kind = "update"  -> Call("provision", r.seen.user, r.seen.pw, FALSE, r.keys)
      [] r.kind = "reset"   -> Call("provision", r.seen.user, 0, TRUE, r.seen.keys)
      [] r.kind = "restore" -> Call("provision", r.item.user, 0, FALSE, {})
      [] r.kind \in Pulling -> Call("status", r.seen.user, 0, FALSE, {})
      [] r.kind = "delete"  -> Call("deprovision", r.seen.user, 0, FALSE, {})
      [] r.kind = "purge"   -> Call("purge", r.item.user, 0, FALSE, {})

(* reconcileAuthoritativeInviteAfterConflict.                                *)
Reapplied(i) == Call("provision", i.user, i.pw, i.pw # 0, i.keys)

Provisional(m, by) ==
    [user |-> Served(m).id, pw |-> Told(m), fp |-> Served(m).pw, keys |-> Served(m).keys, by |-> by]

(* pullInviteFromSub2Api.                                                    *)
Pulled(i) == [i EXCEPT !.fp = db.pw, !.pw = IF i.fp # db.pw THEN 0 ELSE @, !.keys = db.keys]

Built(a, m) ==
    CASE req[a].kind \in {"create", "restore"} -> Provisional(m, a)
      [] req[a].kind \in {"update", "reset"}   -> Provisional(m, req[a].seen.by)
      [] req[a].kind \in Pulling               -> Pulled(req[a].seen)
      [] OTHER                                 -> NoInvite


Calls(a) ==
    /\ req[a].pc = "call"
    /\ LET m == Asked(req[a])
       IN  IF Resolves(m)
           THEN /\ Goes(a, [To(a, IF req[a].kind = "delete" THEN "trash" ELSE "save") EXCEPT !.mine = Built(a, m)])
                /\ db' = Served(m)
                /\ reused' = (reused \/ (req[a].kind = "create" /\ trash # {}))
           ELSE /\ Finish(a)
                /\ UNCHANGED <<db, reused>>
    /\ UNCHANGED <<inv, trash, late, broken, bounds>>

(* deleteInviteWithLease reads the trash only now.                           *)
ReadsTrash(a) ==
    /\ req[a].pc = "trash"
    /\ req' = [req EXCEPT ![a].pc = "save"]
    /\ stale' = [stale EXCEPT ![a] = @ \ {"trash"}]
    /\ UNCHANGED <<inv, trash, db, lease, late, past, bounds>>

-----------------------------------------------------------------------------
(* Saving. *)
Needs(r) ==
    CASE r.pc = "rsave"                       -> {"invites"}
      [] r.kind \in {"delete", "restore"}     -> {"invites", "trash"}
      [] r.kind = "purge"                     -> {"trash"}
      [] OTHER                                -> {"invites"}

Current(a) == stale[a] \cap Needs(req[a]) = {}

Writes(a) ==
    /\ inv' = CASE req[a].kind = "delete" /\ req[a].pc = "save" -> NoInvite
                [] req[a].kind = "purge"                        -> inv
                [] OTHER                                        -> req[a].mine
    /\ trash' = CASE req[a].kind = "delete" /\ req[a].pc = "save" ->
                        trash \cup {[id |-> Fresh({t.id : t \in trash}), user |-> req[a].seen.user]}
                  [] req[a].kind \in {"purge", "restore"} /\ req[a].pc = "save" -> trash \ {req[a].item}
                  [] OTHER -> trash

(* The running requests other than a have read what is now out of date.       *)
Outdated(a, what) ==
    [b \in Actors |-> IF b = a \/ req[b].pc = "idle" THEN {} ELSE stale[b] \cup what]

Written(a) == Outdated(a, Needs(req[a]))

Saves(a) ==
    /\ req[a].pc \in {"save", "rsave"}
    /\ Current(a)
    /\ Writes(a)
    /\ req' = [req EXCEPT ![a] = Blank]
    /\ stale' = Written(a)
    /\ lease' = IF lease = a THEN Free ELSE lease
    /\ UNCHANGED <<db, late, past, bounds>>

MutantNoCompensation(kind) == "done"

(* Where a save that was refused leads to.                                   *)
AfterConflict(kind) == IF kind \in Saving \cup {"delete"} THEN "rread" ELSE "done"

Conflicts(a) ==
    /\ req[a].pc = "save"
    /\ ~Current(a)
    /\ IF AfterConflict(req[a].kind) = "done" THEN Finish(a) ELSE Goes(a, To(a, "rread"))
    /\ UNCHANGED <<inv, trash, db, late, past, bounds>>

-----------------------------------------------------------------------------
(* Following the stored invite. *)

(* The loop of reconcileAuthoritativeInviteAfterConflict ends without an      *)
(* answer: a restore still removes the account, the others give up.          *)
GivesUp(a) ==
    /\ IF req[a].kind = "restore" THEN Goes(a, To(a, "undo")) ELSE Finish(a)
    /\ Breaks("given up", TRUE)

ReadsAgain(a) ==
    /\ req[a].pc = "rread"
    /\ CASE inv # NoInvite ->
                /\ req' = [req EXCEPT ![a] = [To(a, "rcall") EXCEPT !.seen = inv, !.tries = @ + 1]]
                /\ stale' = [stale EXCEPT ![a] = {}]
                /\ UNCHANGED lease
         [] inv = NoInvite /\ req[a].kind = "delete" -> Finish(a)
         [] OTHER -> Goes(a, To(a, "undo"))
    /\ UNCHANGED <<inv, trash, db, late, past, bounds>>

Reapplies(a) ==
    /\ req[a].pc = "rcall"
    /\ LET m == Reapplied(req[a].seen)
       IN  IF Resolves(m)
           THEN /\ Goes(a, [To(a, "rsave") EXCEPT !.mine = Provisional(m, req[a].seen.by)])
                /\ db' = Served(m)
                /\ UNCHANGED broken
           ELSE GivesUp(a) /\ UNCHANGED db
    /\ UNCHANGED <<inv, trash, late, reused, bounds>>

ConflictsAgain(a) ==
    /\ req[a].pc = "rsave"
    /\ ~Current(a)
    /\ IF req[a].tries < Attempts
       THEN Goes(a, To(a, "rread")) /\ UNCHANGED broken
       ELSE GivesUp(a)
    /\ UNCHANGED <<inv, trash, db, late, reused, bounds>>

(* The account is one that another request has provisioned too, and has       *)
(* stored by now or is about to store.                                       *)
Crosses(a) ==
    \/ inv # NoInvite
    \/ \E b \in Actors \ {a} : req[b].kind \in Saving /\ req[b].mine # NoInvite

(* deprovisionSub2ApiUser of the provisional invite: nothing tells it that     *)
(* the account is someone else's as well.                                    *)
Undoes(a) ==
    /\ req[a].pc = "undo"
    /\ LET m == Call("deprovision", req[a].mine.user, 0, FALSE, {})
       IN  db' = IF Resolves(m) THEN Served(m) ELSE db
    /\ Finish(a)
    /\ Breaks("undone", Crosses(a))
    /\ UNCHANGED <<inv, trash, late, reused, bounds>>

(* restoreInviteFromTrash looks whether its own save went through after all.  *)
Checks(a) ==
    /\ req[a].pc = "check"
    /\ IF inv # NoInvite /\ inv.by = a THEN Finish(a) ELSE Goes(a, To(a, "rread"))
    /\ UNCHANGED <<inv, trash, db, late, past, bounds>>

-----------------------------------------------------------------------------
(* Trouble. *)
Trouble == trouble < MaxTrouble /\ trouble' = trouble + 1 /\ UNCHANGED <<starts, outside, others>>

Message(r) ==
    CASE r.pc = "call"  -> Asked(r)
      [] r.pc = "rcall" -> Reapplied(r.seen)
      [] r.pc = "undo"  -> Call("deprovision", r.mine.user, 0, FALSE, {})

(* A call times out or loses its reply.                                      *)
CallFails(a) ==
    /\ Trouble
    /\ req[a].pc \in {"call", "rcall", "undo"}
    /\ late' = late \cup {Message(req[a])}
    /\ IF req[a].pc = "rcall" /\ req[a].kind = "restore" THEN Goes(a, To(a, "undo")) ELSE Finish(a)
    /\ Breaks("call", Message(req[a]).act # "status")
    /\ UNCHANGED <<inv, trash, db, reused>>

(* The save reports an error, whether or not it was done.                     *)
SaveFails(a) ==
    /\ Trouble
    /\ req[a].pc \in {"save", "rsave"} /\ Current(a)
    /\ \/ Writes(a) /\ stale' = Written(a)
       \/ UNCHANGED <<inv, trash, stale>>
    /\ LET next == CASE req[a].kind = "restore" /\ req[a].pc = "save"  -> "check"
                     [] req[a].kind = "restore" /\ req[a].pc = "rsave" -> "undo"
                     [] req[a].kind \in Saving /\ req[a].pc = "save"   -> "rread"
                     [] OTHER                                          -> "done"
       IN  /\ req' = [req EXCEPT ![a] = IF next = "done" THEN Blank ELSE To(a, next)]
           /\ lease' = IF next = "done" /\ lease = a THEN Free ELSE lease
           /\ Breaks("save", next = "undo" \/ (next = "done" /\ ~Harmless(req[a])))
    /\ UNCHANGED <<db, late, reused>>

ReadFails(a) ==
    /\ Trouble
    /\ \/ req[a].pc = "rread" /\ GivesUp(a)
       \/ req[a].pc = "check" /\ Goes(a, To(a, "rread")) /\ UNCHANGED broken
    /\ UNCHANGED <<inv, trash, db, late, reused>>

(* The Worker is cut off; its lease runs out.                                *)
Dies(a) ==
    /\ Trouble
    /\ req[a].pc # "idle"
    /\ Finish(a)
    /\ Breaks("cut off", ~Harmless(req[a]))
    /\ UNCHANGED <<inv, trash, db, late, reused>>

LateCallEnds ==
    /\ \E m \in late :
          /\ late' = late \ {m}
          /\ db' \in {db, IF Resolves(m) THEN Served(m) ELSE db}
    /\ UNCHANGED <<inv, trash, req, stale, lease, past, bounds>>

-----------------------------------------------------------------------------
(* The environment. *)
Idle == {a \in Actors : req[a].pc = "idle"}

Starts(kind) ==
    /\ starts < MaxStarts /\ starts' = starts + 1
    /\ Idle # {}
    /\ \E keys \in IF kind \in {"create", "update"} THEN SUBSET Keys ELSE {{}} :
       \E item \in IF kind \in {"restore", "purge"} THEN trash ELSE {NoItem} :
          Begins(CHOOSE a \in Idle : TRUE, [Blank EXCEPT !.kind = kind, !.keys = keys, !.item = item])
    /\ UNCHANGED <<trouble, outside, others>>

ChangesOutside ==
    /\ outside < MaxOutside /\ outside' = outside + 1
    /\ db # NoUser /\ db.up
    /\ \/ db' = [db EXCEPT !.pw = NewPw]
       \/ \E keys \in SUBSET Keys : db' = [db EXCEPT !.keys = keys]
    /\ UNCHANGED <<inv, trash, req, stale, lease, late, past, trouble, starts, others>>

(* Another invite is saved, or a key of this one rotated by someone else.      *)
OthersSave ==
    /\ others < MaxOthers /\ others' = others + 1
    /\ stale' = Outdated(Free, {"invites", "trash"})
    /\ UNCHANGED <<inv, trash, db, req, lease, late, past, trouble, starts, outside>>

Stored == [user |-> 1, pw |-> 1, fp |-> 1, keys |-> Keys, by |-> Free]

Init ==
    /\ \/ inv = NoInvite /\ db = NoUser
       \/ inv = Stored /\ db = [id |-> 1, up |-> TRUE, pw |-> 1, keys |-> Keys]
    /\ trash = {}
    /\ req = [a \in Actors |-> Blank]
    /\ stale = [a \in Actors |-> {}]
    /\ lease = Free
    /\ late = {}
    /\ broken = {} /\ reused = FALSE
    /\ trouble = 0 /\ starts = 0 /\ outside = 0 /\ others = 0

Step(a) ==
    \/ Calls(a) \/ ReadsTrash(a) \/ Saves(a) \/ Conflicts(a)
    \/ ReadsAgain(a) \/ Reapplies(a) \/ ConflictsAgain(a) \/ Undoes(a) \/ Checks(a)

GoesWrong(a) == CallFails(a) \/ SaveFails(a) \/ ReadFails(a) \/ Dies(a)

Next ==
    \/ \E a \in Actors : Step(a) \/ GoesWrong(a)
    \/ \E kind \in Kinds : Starts(kind)
    \/ LateCallEnds \/ ChangesOutside \/ OthersSave

Spec == Init /\ [][Next]_vars

-----------------------------------------------------------------------------
Quiet == (\A a \in Actors : req[a].pc = "idle") /\ broken = {} /\ ~reused /\ outside = 0

(* When no request runs, the account is active with exactly the stored keys   *)
(* if the invite is stored, and not active otherwise: however the requests    *)
(* overlapped, whoever lost a compare and swap, and whatever save failed.     *)
QuietAgreement ==
    Quiet => IF inv = NoInvite
             THEN db = NoUser \/ ~db.up
             ELSE db # NoUser /\ db.up /\ db.id = inv.user /\ db.keys = inv.keys

(* ... and the stored login password is the account's.                       *)
QuietPassword == (Quiet /\ inv # NoInvite) => (db # NoUser /\ inv.pw = db.pw)

(* The stored invite and the account agree whenever no request runs.          *)
QuietIsAgreed == QuietAgreement /\ QuietPassword

(* No request deletes the account of a stored invite, unless the invite was    *)
(* created again while the trash held its UUID; a purge that was given up can, *)
(* when it lands after a restore.                                            *)
PurgeSparesLive ==
    [][(db # NoUser /\ db' = NoUser /\ late' = late) => (inv = NoInvite \/ reused)]_vars
=============================================================================
