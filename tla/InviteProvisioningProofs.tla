---------------------- MODULE InviteProvisioningProofs ----------------------
(* Theorems about InviteProvisioning, for any requests, keys and bounds.      *)
(* The invariant says of every request what of its copies still holds, and    *)
(* who answers for an account that is not as the stored invite says.          *)
EXTENDS InviteProvisioning, FiniteSetTheorems, TLAPS

Places  == {"idle", "call", "trash", "save", "rread", "rcall", "rsave", "undo", "check"}

Request == [kind : Kinds \cup {"none"}, pc : Places, keys : SUBSET Keys,
            seen : Invite \cup {NoInvite}, item : Item \cup {NoItem},
            mine : Invite \cup {NoInvite}, tries : Nat]

CallMessage == [act : {"provision", "status", "deprovision", "purge"}, user : Nat, pw : Nat,
                reset : BOOLEAN, keys : SUBSET Keys]

Typed ==
    /\ inv \in Invite \cup {NoInvite}
    /\ trash \in SUBSET Item /\ IsFiniteSet(trash)
    /\ db \in Row \cup {NoUser}
    /\ req \in [Actors -> Request]
    /\ stale \in [Actors -> SUBSET {"invites", "trash"}]
    /\ late \in SUBSET CallMessage /\ IsFiniteSet(late)
    /\ \A m \in late : m.act # "provision" => m.user # 0
    /\ reused \in BOOLEAN
    /\ outside \in Nat

-----------------------------------------------------------------------------
(* What holds of each request, whatever happened.                            *)
Active(a) == req[a].pc # "idle"

(* Nobody has written over the invite since it was read. *)
Latest(a) == "invites" \notin stale[a]

(* Where a request can be, and what it has read and built by then.           *)
Placed(a) ==
    LET r == req[a]
    IN  /\ r.pc = "idle" => r = Blank
        /\ r.pc # "idle" => r.kind \in Kinds
        /\ r.kind \in {"update", "reset", "refresh", "delete"} => r.seen # NoInvite
        /\ r.kind \in {"create", "restore"} /\ r.pc \in {"call", "save"} => r.seen = NoInvite
        /\ r.kind \in {"restore", "purge"} => r.item # NoItem
        /\ r.pc \in {"rcall", "rsave"} => r.seen # NoInvite
        /\ r.kind \in Saving \cup Pulling /\ r.pc \notin {"idle", "call"} => r.mine # NoInvite
        /\ r.pc = "rsave" => r.mine # NoInvite
        /\ r.pc = "trash" => r.kind = "delete"
        /\ r.pc = "check" => r.kind = "restore"
        /\ r.pc = "undo" => r.kind \in Saving
        /\ r.pc \in {"rread", "rcall", "rsave"} => r.kind \in Saving \cup {"delete"}

(* Who a copy says created the invite. *)
Authored(a) ==
    req[a].kind \in Saving \cup Pulling /\ req[a].pc \in {"save", "rsave"} =>
        req[a].mine.by = IF req[a].pc = "save" /\ req[a].kind \in {"create", "restore"}
                         THEN a ELSE req[a].seen.by

Leasing(a)  == Active(a) /\ req[a].kind \in Leased => lease = a

Reading(a)  == req[a].pc \in {"call", "trash", "save", "rcall", "rsave"} /\ Latest(a) => req[a].seen = inv

Deleting(a) == Active(a) /\ req[a].kind = "delete" => inv # NoInvite

Keeping(a)  == req[a].pc \in {"call", "save"} /\ req[a].kind \in {"restore", "purge"} => req[a].item \in trash

Local(a) == Placed(a) /\ Authored(a) /\ Leasing(a) /\ Reading(a) /\ Deleting(a) /\ Keeping(a)

(* The UUID has a trash item only while no invite has it.                     *)
Creating(a) == req[a].kind = "create" /\ req[a].pc = "save" /\ Latest(a) => trash = {}

Bins ==
    /\ trash # {} => inv = NoInvite
    /\ \A t, u \in trash : t = u
    /\ \A a \in Actors : Creating(a)

-----------------------------------------------------------------------------
(* Who answers for the account. *)
Good == broken = {} /\ ~reused /\ outside = 0

Off(d) == d = NoUser \/ ~d.up

Matches(d, i) ==
    IF i = NoInvite
    THEN Off(d)
    ELSE d # NoUser /\ d.up /\ d.id = i.user /\ d.keys = i.keys /\ d.pw = i.pw /\ d.pw = i.fp

Restored(a) == req[a].pc = "check" /\ inv # NoInvite /\ inv.by = a

(* A request that has changed the account and still has to save, or to make    *)
(* the account follow what is stored.                                        *)
Dirty(a) ==
    /\ req[a].kind \in Saving \cup {"delete"}
    /\ req[a].pc \in Places \ {"idle", "call"}
    /\ ~Restored(a)

Storing(a) == req[a].pc = "rsave" \/ (req[a].pc = "save" /\ req[a].kind \in Saving \cup Pulling)

Leaving(a) == req[a].kind = "delete" /\ req[a].pc \in {"trash", "save"} /\ Latest(a)

Provisioning(a) == Dirty(a) /\ req[a].kind \in Saving /\ db.id = req[a].mine.user

Settled == (\A a \in Actors : ~Dirty(a)) => Matches(db, inv)

CopyMatches(a) ==
    Storing(a) /\ Latest(a) /\ (\A b \in Actors \ {a} : ~Dirty(b)) => Matches(db, req[a].mine)

UpHasCause ==
    ~Off(db) /\ (inv = NoInvite \/ \E a \in Actors : Leaving(a)) => \E a \in Actors : Provisioning(a)

Owned ==
    /\ \A m \in late : m.act = "status"
    /\ Settled
    /\ \A a \in Actors : CopyMatches(a)
    /\ UpHasCause

IInv ==
    /\ Typed
    /\ \A a \in Actors : Local(a)
    /\ ~reused => Bins
    /\ Good => Owned

-----------------------------------------------------------------------------
(* The records of requests. *)
SeenAgain(r, i) == [r EXCEPT !.seen = i, !.tries = @ + 1]
WithMine(r, i)  == [r EXCEPT !.mine = i]
Begun(r, i)     == [r EXCEPT !.pc = "call", !.seen = i]

LEMMA SeenAgainIsRequest ==
    ASSUME NEW r \in Request, NEW i \in Invite \cup {NoInvite}
    PROVE  /\ SeenAgain(r, i) \in Request
           /\ SeenAgain(r, i).kind = r.kind /\ SeenAgain(r, i).pc = r.pc /\ SeenAgain(r, i).seen = i
           /\ SeenAgain(r, i).mine = r.mine /\ SeenAgain(r, i).item = r.item
<1>1. PICK n \in Nat : n = r.tries + 1
  BY DEF Request
<1>2. SeenAgain(r, i) = [r EXCEPT !.seen = i, !.tries = n]
  BY <1>1, Zenon DEF SeenAgain
<1> QED
  BY <1>2 DEF Request

LEMMA WithMineIsRequest ==
    ASSUME NEW r \in Request, NEW i \in Invite \cup {NoInvite}
    PROVE  /\ WithMine(r, i) \in Request
           /\ WithMine(r, i).kind = r.kind /\ WithMine(r, i).pc = r.pc /\ WithMine(r, i).seen = r.seen
           /\ WithMine(r, i).mine = i /\ WithMine(r, i).item = r.item
BY DEF Request, WithMine

LEMMA BegunIsRequest ==
    ASSUME NEW r \in Request, NEW i \in Invite \cup {NoInvite}
    PROVE  /\ Begun(r, i) \in Request
           /\ Begun(r, i).kind = r.kind /\ Begun(r, i).pc = "call" /\ Begun(r, i).seen = i
           /\ Begun(r, i).mine = r.mine /\ Begun(r, i).item = r.item
BY DEF Request, Begun, Places

LEMMA ToIsRequest ==
    ASSUME req \in [Actors -> Request], NEW a \in Actors, NEW p \in Places
    PROVE  /\ To(a, p) \in Request
           /\ To(a, p).kind = req[a].kind /\ To(a, p).pc = p /\ To(a, p).seen = req[a].seen
           /\ To(a, p).mine = req[a].mine /\ To(a, p).item = req[a].item
<1>1. PICK r \in Request : r = req[a]
  OBVIOUS
<1>2. To(a, p) = [r EXCEPT !.pc = p]
  BY <1>1 DEF To
<1> QED
  BY <1>1, <1>2 DEF Request

-----------------------------------------------------------------------------
(* Identifiers that are given out. *)

(* A finite set of numbers leaves one of the first ones free. *)
LEMMA FreshIsNew ==
    ASSUME NEW used, IsFiniteSet(used)
    PROVE  Fresh(used) \in Nat \ {0} /\ Fresh(used) \notin used
<1> DEFINE n == Cardinality(used)
<1>1. n \in Nat
  BY FS_CardinalityType
<1>2. IsFiniteSet(1..(n + 1)) /\ Cardinality(1..(n + 1)) = n + 1
  BY <1>1, FS_Interval
<1>3. \E k \in 1..(n + 1) : k \notin used
  <2> SUFFICES ASSUME 1..(n + 1) \in SUBSET used
               PROVE  FALSE
    OBVIOUS
  <2>1. Cardinality(1..(n + 1)) <= n
    BY FS_Subset
  <2> QED
    BY <1>1, <1>2, <2>1
<1> QED
  BY <1>1, <1>3 DEF Fresh

(* The values of a function on a finite set are finitely many. *)
LEMMA FiniteRange ==
    ASSUME NEW S, IsFiniteSet(S), NEW f, f = [x \in S |-> f[x]]
    PROVE  IsFiniteSet({f[x] : x \in S})
<1> DEFINE T == {f[x] : x \in S}
<1>1. f \in [S -> T]
  OBVIOUS
<1>2. f \in Surjection(S, T)
  BY <1>1 DEF Surjection
<1> QED
  BY <1>2, FS_Surjection

LEMMA CopiesFinite ==
    ASSUME Typed
    PROVE  IsFiniteSet(LiveInvites) /\ LiveInvites \subseteq Invite
<1> DEFINE f == [a \in Actors |-> req[a].seen]
           g == [a \in Actors |-> req[a].mine]
<1>1. IsFiniteSet({f[a] : a \in Actors}) /\ IsFiniteSet({g[a] : a \in Actors})
  BY BoundAssumption, FiniteRange
<1>2. {f[a] : a \in Actors} = {req[a].seen : a \in Actors} /\ {g[a] : a \in Actors} = {req[a].mine : a \in Actors}
  OBVIOUS
<1>3. IsFiniteSet(Copies)
  BY <1>1, <1>2, FS_Singleton, FS_Union DEF Copies
<1>4. IsFiniteSet(LiveInvites)
  BY <1>3, FS_RemoveElement DEF LiveInvites
<1>5. LiveInvites \subseteq Invite
  BY DEF LiveInvites, Copies, Typed, Request
<1> QED
  BY <1>4, <1>5

LEMMA RowsFinite ==
    IsFiniteSet(Rows)
BY FS_Singleton, FS_RemoveElement DEF Rows

(* The identifier and the password given out next are numbers. *)
LEMMA NewIsNew ==
    ASSUME Typed
    PROVE  NewId \in Nat \ {0} /\ NewPw \in Nat \ {0}
<1> DEFINE L == LiveInvites
           B == {b \in Actors : req[b].item # NoItem}
           f1 == [i \in L |-> i.user]
           f2 == [t \in trash |-> t.user]
           f3 == [r \in Rows |-> r.id]
           f4 == [m \in late |-> m.user]
           f5 == [a \in B |-> req[a].item.user]
           g1 == [i \in L |-> i.pw]
           g2 == [i \in L |-> i.fp]
           g3 == [r \in Rows |-> r.pw]
           g4 == [m \in late |-> m.pw]
<1>1. IsFiniteSet(L) /\ IsFiniteSet(trash) /\ IsFiniteSet(Rows) /\ IsFiniteSet(late) /\ IsFiniteSet(B)
  BY CopiesFinite, RowsFinite, BoundAssumption, FS_Subset DEF Typed
<1>2. IsFiniteSet({f1[x] : x \in L}) /\ IsFiniteSet({f2[x] : x \in trash}) /\ IsFiniteSet({f3[x] : x \in Rows})
  BY <1>1, FiniteRange
<1>3. IsFiniteSet({f4[x] : x \in late})
  BY <1>1, FiniteRange
<1>4. IsFiniteSet({f5[x] : x \in B})
  <2>1. f5 = [x \in B |-> f5[x]]
    OBVIOUS
  <2> HIDE DEF f5, B
  <2> QED
    BY <1>1, <2>1, FiniteRange
<1>5. IsFiniteSet({g1[x] : x \in L}) /\ IsFiniteSet({g2[x] : x \in L}) /\ IsFiniteSet({g3[x] : x \in Rows})
  BY <1>1, FiniteRange
<1>6. IsFiniteSet({g4[x] : x \in late})
  BY <1>1, FiniteRange
<1>7. UsedIds = (((({f1[x] : x \in L} \cup {f2[x] : x \in trash}) \cup {f3[x] : x \in Rows})
                   \cup {f4[x] : x \in late}) \cup {f5[x] : x \in B})
  BY DEF UsedIds
<1>8. UsedPws = ((({g1[x] : x \in L} \cup {g2[x] : x \in L}) \cup {g3[x] : x \in Rows})
                   \cup {g4[x] : x \in late})
  BY DEF UsedPws
<1>9. IsFiniteSet(UsedIds)
  <2> HIDE DEF f1, f2, f3, f4, f5
  <2> QED
    BY <1>2, <1>3, <1>4, <1>7, FS_Union
<1>10. IsFiniteSet(UsedPws)
  <2> HIDE DEF g1, g2, g3, g4
  <2> QED
    BY <1>5, <1>6, <1>8, FS_Union
<1> QED
  BY <1>9, <1>10, FreshIsNew DEF NewId, NewPw

-----------------------------------------------------------------------------
(* The sync service. *)
LEMMA ServedIsRow ==
    ASSUME Typed, NEW m \in CallMessage, m.act # "provision" => m.user # 0, Resolves(m)
    PROVE  /\ Served(m) \in Row \cup {NoUser}
           /\ m.act = "provision" => Served(m) \in Row /\ Served(m) = Provisioned(m)
           /\ m.act = "status" => Served(m) = db /\ db \in Row
           /\ m.act = "deprovision" => Served(m) \in Row /\ ~Served(m).up
           /\ m.act = "purge" => Served(m) = NoUser
<1>1. CASE m.act = "provision"
  <2>1. Served(m) = Provisioned(m)
    BY <1>1 DEF Served
  <2>2. db # NoUser => db \in Row
    BY DEF Typed
  <2>3. Provisioned(m) \in Row
    BY <2>2, NewIsNew DEF Provisioned, KeepsPassword, Row, CallMessage
  <2> QED
    BY <1>1, <2>1, <2>3
<1>2. CASE m.act # "provision"
  <2>1. db \in Row /\ (m.act \in {"status", "deprovision"} => db.up)
    BY <1>2 DEF Resolves, Typed
  <2>2. CASE m.act = "status"
    BY <2>1, <2>2 DEF Served
  <2>3. CASE m.act = "deprovision"
    <3>1. Served(m) = [db EXCEPT !.up = FALSE, !.keys = {}]
      BY <2>3 DEF Served
    <3> QED
      BY <2>1, <2>3, <3>1 DEF Row
  <2>4. CASE m.act = "purge"
    BY <2>4 DEF Served
  <2> QED
    BY <1>2, <2>2, <2>3, <2>4 DEF CallMessage
<1> QED
  BY <1>1, <1>2

(* What the Worker makes of an answer is an invite, and the account's unless    *)
(* it sent a password that the account did not take.                          *)
LEMMA ProvisionalMatches ==
    ASSUME Typed, NEW m \in CallMessage, m.act = "provision", Resolves(m), NEW by \in Actors \cup {Free}
    PROVE  /\ Provisional(m, by) \in Invite
           /\ Provisional(m, by).by = by
           /\ Provisional(m, by).user = Served(m).id
           /\ (m.pw # 0 /\ db # NoUser /\ ~m.reset => db.pw = m.pw) => Matches(Served(m), Provisional(m, by))
<1>1. Served(m) \in Row /\ Served(m) = Provisioned(m)
  BY ServedIsRow
<1>2. Told(m) \in Nat
  BY <1>1 DEF Told, CallMessage, Row
<1>3. Provisional(m, by) \in Invite
  BY <1>1, <1>2 DEF Provisional, Invite, Row
<1>4. ASSUME m.pw # 0 /\ db # NoUser /\ ~m.reset => db.pw = m.pw
      PROVE  Matches(Served(m), Provisional(m, by))
  <2>1. Served(m).up
    BY <1>1 DEF Provisioned
  <2>2. Served(m).pw = Told(m)
    <3>1. CASE m.pw = 0
      BY <3>1 DEF Told
    <3>2. CASE m.pw # 0
      BY <1>1, <1>4, <3>2 DEF Told, Provisioned, KeepsPassword, CallMessage
    <3> QED
      BY <3>1, <3>2
  <2>3. Provisional(m, by) # NoInvite /\ Served(m) # NoUser
    BY <1>1, <1>3, NoneAssumption
  <2> QED
    BY <2>1, <2>2, <2>3 DEF Matches, Provisional
<1> QED
  BY <1>3, <1>4 DEF Provisional

(* What a running request asks of the service is a call of its interface.      *)
LEMMA AskedIsMessage ==
    ASSUME Typed, NEW a \in Actors, Placed(a)
    PROVE  /\ req[a].pc = "call" => Asked(req[a]) \in CallMessage
                                    /\ (Asked(req[a]).act # "provision" => Asked(req[a]).user # 0)
           /\ req[a].pc = "rcall" => Reapplied(req[a].seen) \in CallMessage
           /\ req[a].pc = "undo" => Call("deprovision", req[a].mine.user, 0, FALSE, {}) \in CallMessage
                                    /\ req[a].mine.user # 0
<1> DEFINE r == req[a]
<1>1. r \in Request
  BY DEF Typed
<1>2. ASSUME r.pc = "call"
      PROVE  Asked(r) \in CallMessage /\ (Asked(r).act # "provision" => Asked(r).user # 0)
  <2>1. r.kind \in Kinds
    BY <1>2 DEF Placed
  <2>2. r.kind \in {"update", "reset", "refresh", "delete"} => r.seen \in Invite
    BY <1>1, <1>2 DEF Placed, Request
  <2>3. r.kind \in {"restore", "purge"} => r.item \in Item
    BY <1>1, <1>2 DEF Placed, Request
  <2>4. r.keys \in SUBSET Keys
    BY <1>1 DEF Request
  <2>5. CASE r.kind = "create"
    BY <2>4, <2>5 DEF Asked, Call, CallMessage, Pulling
  <2>6. CASE r.kind = "update"
    BY <2>2, <2>4, <2>6 DEF Asked, Call, CallMessage, Invite
  <2>7. CASE r.kind = "reset"
    BY <2>2, <2>7 DEF Asked, Call, CallMessage, Invite
  <2>8. CASE r.kind = "restore"
    BY <2>3, <2>8 DEF Asked, Call, CallMessage, Item, Pulling
  <2>9. CASE r.kind \in Pulling
    BY <2>2, <2>9 DEF Asked, Call, CallMessage, Invite, Pulling
  <2>10. CASE r.kind = "delete"
    BY <2>2, <2>10 DEF Asked, Call, CallMessage, Invite, Pulling
  <2>11. CASE r.kind = "purge"
    BY <2>3, <2>11 DEF Asked, Call, CallMessage, Item, Pulling
  <2> QED
    BY <2>1, <2>5, <2>6, <2>7, <2>8, <2>9, <2>10, <2>11 DEF Kinds, Saving, Pulling, Leased
<1>3. ASSUME r.pc = "rcall"
      PROVE  Reapplied(r.seen) \in CallMessage
  BY <1>1, <1>3 DEF Placed, Request, Reapplied, Call, CallMessage, Invite
<1>4. ASSUME r.pc = "undo"
      PROVE  Call("deprovision", r.mine.user, 0, FALSE, {}) \in CallMessage /\ r.mine.user # 0
  <2>1. r.mine \in Invite
    BY <1>1, <1>4 DEF Placed, Request
  <2> QED
    BY <2>1 DEF Call, CallMessage, Invite
<1> QED
  BY <1>2, <1>3, <1>4

-----------------------------------------------------------------------------
(* Steps that leave the stored collections as they are. *)

(* The other requests stay where they are and learn of no fewer writes; the    *)
(* lease changes hands only by a's taking or releasing it.                    *)
Others(a) ==
    /\ \A b \in Actors \ {a} : req'[b] = req[b] /\ (Active(b) => stale[b] \subseteq stale'[b])
    /\ lease' = lease \/ (lease = Free /\ lease' = a) \/ (lease = a /\ lease' = Free)

StaysTyped ==
    /\ db' \in Row \cup {NoUser}
    /\ req' \in [Actors -> Request]
    /\ stale' \in [Actors -> SUBSET {"invites", "trash"}]
    /\ late' \in SUBSET CallMessage /\ IsFiniteSet(late')
    /\ \A m \in late' : m.act # "provision" => m.user # 0
    /\ reused' \in BOOLEAN /\ (reused => reused')
    /\ outside' \in Nat

(* What another request knows and owes is not touched. *)
LEMMA BystanderStays ==
    ASSUME NEW a, NEW b \in Actors \ {a}, Others(a), inv' = inv, trash' = trash, Local(b)
    PROVE  /\ Local(b)'
           /\ Dirty(b)' = Dirty(b)
           /\ Storing(b)' = Storing(b)
           /\ (Active(b) /\ Latest(b)') => Latest(b)
<1>1. req'[b] = req[b] /\ (Active(b) => stale[b] \subseteq stale'[b])
  BY DEF Others
<1>2. (Active(b) /\ Latest(b)') => Latest(b)
  BY <1>1 DEF Latest
<1>3. Placed(b)' /\ Authored(b)'
  BY <1>1 DEF Local, Placed, Authored
<1>4. Leasing(b)'
  <2>1. lease = b => lease' = b
    BY BoundAssumption DEF Others
  <2> QED
    BY <1>1, <2>1 DEF Local, Leasing, Active
<1>5. Reading(b)'
  BY <1>1, <1>2 DEF Local, Reading, Active
<1>6. Deleting(b)' /\ Keeping(b)'
  BY <1>1 DEF Local, Deleting, Keeping, Active
<1>7. Dirty(b)' = Dirty(b)
  BY <1>1 DEF Dirty, Restored
<1>8. Storing(b)' = Storing(b)
  BY <1>1 DEF Storing
<1> QED
  BY <1>2, <1>3, <1>4, <1>5, <1>6, <1>7, <1>8 DEF Local

LEMMA MoveKeepsCalm ==
    ASSUME IInv, NEW a, Others(a), inv' = inv, trash' = trash, StaysTyped,
           a \in Actors => Local(a)' /\ (~reused' => Creating(a)')
    PROVE  /\ Typed'
           /\ \A b \in Actors : Local(b)'
           /\ ~reused' => Bins'
<1>1. Typed'
  BY DEF IInv, Typed, StaysTyped
<1>2. ASSUME NEW b \in Actors
      PROVE  Local(b)'
  <2>1. CASE b = a
    BY <2>1
  <2>2. CASE b # a
    BY <2>2, BystanderStays DEF IInv
  <2> QED
    BY <2>1, <2>2
<1>3. ASSUME ~reused'
      PROVE  Bins'
  <2>1. Bins
    BY <1>3 DEF IInv, StaysTyped
  <2>2. ASSUME NEW b \in Actors
        PROVE  Creating(b)'
    <3>1. CASE b = a
      BY <1>3, <3>1
    <3>2. CASE b # a
      <4>1. req'[b] = req[b] /\ ((Active(b) /\ Latest(b)') => Latest(b))
        BY <3>2, BystanderStays DEF IInv, Others
      <4> QED
        BY <2>1, <4>1 DEF Bins, Creating, Active
    <3> QED
      BY <3>1, <3>2
  <2> QED
    BY <2>1, <2>2 DEF Bins
<1> QED
  BY <1>1, <1>2, <1>3

(* If the account is left alone too, whoever answered for it still does.       *)
LEMMA MoveKeepsOwned ==
    ASSUME IInv, NEW a, Others(a), inv' = inv, trash' = trash, db' = db, Good,
           \A m \in late' : m.act = "status",
           a \in Actors => /\ Dirty(a) => /\ Dirty(a)'
                                          /\ req'[a].kind = req[a].kind
                                          /\ req'[a].mine = req[a].mine
                           /\ CopyMatches(a)'
                           /\ Leaving(a)' => Leaving(a)
    PROVE  Owned'
<1> USE DEF IInv, Owned
<1>1. \A b \in Actors : Dirty(b) => Dirty(b)'
  BY BystanderStays
<1>2. Settled'
  BY <1>1 DEF Settled
<1>3. ASSUME NEW b \in Actors
      PROVE  CopyMatches(b)'
  <2>1. CASE b = a
    BY <2>1
  <2>2. CASE b # a
    <3> SUFFICES ASSUME Storing(b)', Latest(b)', \A c \in Actors \ {b} : ~Dirty(c)'
                 PROVE  Matches(db', req'[b].mine)
      BY DEF CopyMatches
    <3>1. Storing(b) /\ Latest(b) /\ req'[b] = req[b]
      BY <2>2, BystanderStays DEF Storing, Active, Others
    <3>2. \A c \in Actors \ {b} : ~Dirty(c)
      BY <1>1
    <3> QED
      BY <3>1, <3>2 DEF CopyMatches
  <2> QED
    BY <2>1, <2>2
<1>4. UpHasCause'
  <2> SUFFICES ASSUME ~Off(db'), inv' = inv, inv = NoInvite \/ \E b \in Actors : Leaving(b)'
               PROVE  \E b \in Actors : Provisioning(b)'
    BY DEF UpHasCause
  <2>1. \A b \in Actors : Leaving(b)' => Leaving(b)
    <3> SUFFICES ASSUME NEW b \in Actors \ {a}, Leaving(b)'
                 PROVE  Leaving(b)
      OBVIOUS
    <3>1. req'[b] = req[b]
      BY DEF Others
    <3>2. Latest(b)
      BY <3>1, BystanderStays DEF Leaving, Active
    <3> QED
      BY <3>1, <3>2 DEF Leaving
  <2>2. PICK b \in Actors : Provisioning(b)
    BY <2>1 DEF UpHasCause
  <2>3. req'[b].kind = req[b].kind /\ req'[b].mine = req[b].mine
    BY <2>2 DEF Others, Provisioning
  <2>4. Provisioning(b)'
    BY <1>1, <2>2, <2>3 DEF Provisioning
  <2> QED
    BY <2>4
<1> QED
  BY <1>2, <1>3, <1>4

(* A request ends; one that has changed the account does not, unless what      *)
(* happened is on record.                                                    *)
LEMMA RequestEnds ==
    ASSUME IInv, NEW a \in Actors, Others(a), inv' = inv, trash' = trash, db' = db, StaysTyped,
           req' = [req EXCEPT ![a] = Blank],
           Good' => Good /\ ~Dirty(a) /\ \A m \in late' : m.act = "status"
    PROVE  IInv'
<1>1. req'[a] = Blank
  BY DEF IInv, Typed
<1>2. Local(a)' /\ Creating(a)' /\ CopyMatches(a)' /\ ~Leaving(a)'
  BY <1>1, SMTT(30) DEF Blank, Local, Placed, Authored, Leasing, Active, Reading, Deleting, Keeping, Creating,
                   CopyMatches, Storing, Leaving, Saving, Pulling
<1>3. Typed' /\ (\A b \in Actors : Local(b)') /\ (~reused' => Bins')
  BY <1>2, MoveKeepsCalm
<1>4. ASSUME Good'
      PROVE  Owned'
  BY <1>2, <1>4, MoveKeepsOwned
<1> QED
  BY <1>3, <1>4 DEF IInv

(* A request goes to where it makes the account follow what is stored.         *)
LEMMA RequestTurnsBack ==
    ASSUME IInv, NEW a \in Actors, NEW p \in {"rread", "undo", "check"}, Others(a),
           inv' = inv, trash' = trash, db' = db, StaysTyped, lease' = lease,
           req' = [req EXCEPT ![a] = To(a, p)], req[a].pc \notin {"idle", "call"},
           p = "rread" => req[a].kind \in Saving \cup {"delete"},
           p = "undo" => req[a].kind \in Saving,
           p = "check" => req[a].kind = "restore" /\ inv = NoInvite,
           Good' => Good /\ \A m \in late' : m.act = "status"
    PROVE  IInv'
<1> DEFINE r == req[a]
<1>1. /\ req'[a].kind = r.kind /\ req'[a].pc = p /\ req'[a].seen = r.seen
      /\ req'[a].mine = r.mine /\ req'[a].item = r.item
  BY DEF IInv, Typed, Request, To
<1>2. Local(a)
  BY DEF IInv
<1>3. Placed(a)'
  BY <1>1, <1>2 DEF Local, Placed
<1>4. Leasing(a)' /\ Deleting(a)'
  BY <1>1, <1>2 DEF Local, Leasing, Deleting, Active
<1>5. Authored(a)' /\ Reading(a)' /\ Keeping(a)' /\ Creating(a)' /\ CopyMatches(a)' /\ ~Leaving(a)'
  BY <1>1, SMTT(30) DEF Authored, Reading, Keeping, Creating, CopyMatches, Storing, Leaving
<1>6. Typed' /\ (\A b \in Actors : Local(b)') /\ (~reused' => Bins')
  BY <1>3, <1>4, <1>5, MoveKeepsCalm DEF Local
<1>7. ASSUME Good'
      PROVE  Owned'
  <2>1. Dirty(a)'
    BY <1>1 DEF Dirty, Restored, Places, Saving
  <2> QED
    BY <1>1, <1>5, <1>7, <2>1, MoveKeepsOwned
<1> QED
  BY <1>6, <1>7 DEF IInv

-----------------------------------------------------------------------------
(* A request that is a's to end: Finish and Goes, with what they leave alone.  *)
Aside == UNCHANGED <<inv, trash, db>>

LEMMA FinishEnds ==
    ASSUME IInv, NEW a \in Actors, Finish(a), Aside, UNCHANGED <<reused, outside>>,
           late' \in SUBSET CallMessage, IsFiniteSet(late'),
           \A m \in late' : m.act # "provision" => m.user # 0,
           Good' => Good /\ ~Dirty(a) /\ \A m \in late' : m.act = "status"
    PROVE  IInv'
<1>1. req' = [req EXCEPT ![a] = Blank] /\ stale' = [stale EXCEPT ![a] = {}]
  BY DEF Finish
<1>2. Others(a)
  BY <1>1 DEF Finish, Others, IInv, Typed
<1>3. Blank \in Request
  BY DEF Blank, Request, Places
<1>4. StaysTyped
  BY <1>1, <1>3 DEF StaysTyped, IInv, Typed, Aside
<1> QED
  BY <1>1, <1>2, <1>4, RequestEnds DEF Aside

LEMMA GoesTurnsBack ==
    ASSUME IInv, NEW a \in Actors, NEW p \in {"rread", "undo", "check"}, Goes(a, To(a, p)),
           Aside, UNCHANGED <<reused, outside>>,
           late' \in SUBSET CallMessage, IsFiniteSet(late'),
           \A m \in late' : m.act # "provision" => m.user # 0,
           req[a].pc \notin {"idle", "call"},
           p = "rread" => req[a].kind \in Saving \cup {"delete"},
           p = "undo" => req[a].kind \in Saving,
           p = "check" => req[a].kind = "restore" /\ inv = NoInvite,
           Good' => Good /\ \A m \in late' : m.act = "status"
    PROVE  IInv'
<1>1. req' = [req EXCEPT ![a] = To(a, p)] /\ stale' = stale /\ lease' = lease
  BY DEF Goes
<1>2. Others(a)
  BY <1>1 DEF Others, IInv, Typed
<1>3. To(a, p) \in Request
  BY DEF To, IInv, Typed, Request, Places
<1>4. StaysTyped
  BY <1>1, <1>3 DEF StaysTyped, IInv, Typed, Aside
<1> QED
  BY <1>1, <1>2, <1>4, RequestTurnsBack DEF Aside

-----------------------------------------------------------------------------
(* The steps of a request that leave the collections and the account alone.    *)
LEMMA GivesUpStep ==
    ASSUME IInv, NEW a \in Actors, GivesUp(a), Aside, UNCHANGED <<late, reused, outside>>,
           req[a].pc \notin {"idle", "call"}
    PROVE  IInv'
<1>1. ~Good'
  BY DEF GivesUp, Breaks, Good
<1>2. /\ late \in SUBSET CallMessage /\ IsFiniteSet(late)
      /\ \A m \in late : m.act # "provision" => m.user # 0
  BY DEF IInv, Typed
<1>3. CASE req[a].kind = "restore"
  <2>1. Goes(a, To(a, "undo"))
    BY <1>3 DEF GivesUp
  <2> QED
    BY <1>1, <1>2, <1>3, <2>1, GoesTurnsBack DEF Saving
<1>4. CASE req[a].kind # "restore"
  <2>1. Finish(a)
    BY <1>4 DEF GivesUp
  <2> QED
    BY <1>1, <1>2, <2>1, FinishEnds
<1> QED
  BY <1>3, <1>4

LEMMA ReadsTrashStep ==
    ASSUME IInv, NEW a \in Actors, ReadsTrash(a)
    PROVE  IInv'
<1>1. /\ req[a].pc = "trash" /\ req' = [req EXCEPT ![a].pc = "save"]
      /\ stale' = [stale EXCEPT ![a] = @ \ {"trash"}]
      /\ UNCHANGED <<inv, trash, db, lease, late, broken, reused, outside>>
  BY DEF ReadsTrash, past, bounds
<1>2. /\ req'[a].kind = req[a].kind /\ req'[a].pc = "save" /\ req'[a].seen = req[a].seen
      /\ req'[a].mine = req[a].mine /\ req'[a].item = req[a].item
      /\ req' \in [Actors -> Request]
  BY <1>1 DEF IInv, Typed, Request, Places
<1>3. stale'[a] = stale[a] \ {"trash"} /\ stale' \in [Actors -> SUBSET {"invites", "trash"}]
  BY <1>1 DEF IInv, Typed
<1>4. Latest(a)' = Latest(a)
  BY <1>3 DEF Latest
<1>5. Local(a) /\ req[a].kind = "delete"
  BY <1>1 DEF IInv, Local, Placed
<1>6. Others(a)
  BY <1>1 DEF Others, IInv, Typed
<1>7. Local(a)'
  BY <1>1, <1>2, <1>4, <1>5, SMTT(30) DEF Local, Placed, Authored, Leasing, Reading, Deleting, Keeping, Active, Saving, Pulling
<1>8. Creating(a)' /\ CopyMatches(a)' /\ (Leaving(a)' => Leaving(a)) /\ (Dirty(a) => Dirty(a)')
  BY <1>1, <1>2, <1>4, <1>5 DEF Creating, CopyMatches, Storing, Leaving, Dirty, Restored, Saving, Pulling, Places
<1>9. StaysTyped
  BY <1>1, <1>2, <1>3 DEF StaysTyped, IInv, Typed
<1>10. Typed' /\ (\A b \in Actors : Local(b)') /\ (~reused' => Bins')
  BY <1>1, <1>6, <1>7, <1>8, <1>9, MoveKeepsCalm
<1>11. ASSUME Good'
       PROVE  Owned'
  <2>1. Good /\ \A m \in late' : m.act = "status"
    BY <1>1, <1>11 DEF Good, IInv, Owned
  <2> QED
    BY <1>1, <1>2, <1>6, <1>8, <2>1, MoveKeepsOwned
<1> QED
  BY <1>10, <1>11 DEF IInv

LEMMA ConflictsStep ==
    ASSUME IInv, NEW a \in Actors, Conflicts(a)
    PROVE  IInv'
<1>1. /\ req[a].pc = "save"
      /\ Aside /\ UNCHANGED <<late, broken, reused, outside>>
  BY DEF Conflicts, Aside, past, bounds
<1>2. /\ late' \in SUBSET CallMessage /\ IsFiniteSet(late')
      /\ \A m \in late' : m.act # "provision" => m.user # 0
  BY <1>1 DEF IInv, Typed
<1>3. Good' => Good /\ \A m \in late' : m.act = "status"
  BY <1>1 DEF Good, IInv, Owned
<1>4. CASE req[a].kind \in Saving \cup {"delete"}
  <2>1. Goes(a, To(a, "rread"))
    BY <1>4 DEF Conflicts, AfterConflict
  <2> QED
    BY <1>1, <1>2, <1>3, <1>4, <2>1, GoesTurnsBack
<1>5. CASE req[a].kind \notin Saving \cup {"delete"}
  <2>1. Finish(a)
    BY <1>5 DEF Conflicts, AfterConflict
  <2>2. ~Dirty(a)
    BY <1>5 DEF Dirty
  <2> QED
    BY <1>1, <1>2, <1>3, <2>1, <2>2, FinishEnds
<1> QED
  BY <1>4, <1>5

LEMMA ReadsAgainStep ==
    ASSUME IInv, NEW a \in Actors, ReadsAgain(a)
    PROVE  IInv'
<1>1. /\ req[a].pc = "rread"
      /\ Aside /\ UNCHANGED <<late, broken, reused, outside>>
  BY DEF ReadsAgain, Aside, past, bounds
<1>2. /\ late' \in SUBSET CallMessage /\ IsFiniteSet(late')
      /\ \A m \in late' : m.act # "provision" => m.user # 0
  BY <1>1 DEF IInv, Typed
<1>3. Good' => Good /\ \A m \in late' : m.act = "status"
  BY <1>1 DEF Good, IInv, Owned
<1>4. Local(a) /\ req[a].kind \in Saving \cup {"delete"} /\ Active(a) /\ (req[a].kind = "delete" => inv # NoInvite)
  BY <1>1 DEF IInv, Local, Placed, Deleting, Active
<1>5. CASE inv # NoInvite
  <2>1. /\ req' = [req EXCEPT ![a] = [To(a, "rcall") EXCEPT !.seen = inv, !.tries = @ + 1]]
        /\ stale' = [stale EXCEPT ![a] = {}]
        /\ lease' = lease
    BY <1>5 DEF ReadsAgain
  <2>2. /\ req'[a].kind = req[a].kind /\ req'[a].pc = "rcall" /\ req'[a].seen = inv
        /\ req'[a].mine = req[a].mine /\ req'[a].item = req[a].item
        /\ req' \in [Actors -> Request]
    <3>1. req \in [Actors -> Request] /\ inv \in Invite \cup {NoInvite} /\ "rcall" \in Places
      BY DEF IInv, Typed, Places
    <3>2. req' = [req EXCEPT ![a] = SeenAgain(To(a, "rcall"), inv)]
      BY <2>1, Zenon DEF SeenAgain
    <3> QED
      BY <3>1, <3>2, ToIsRequest, SeenAgainIsRequest
  <2>3. Others(a)
    BY <2>1 DEF Others, IInv, Typed
  <2>4. StaysTyped
    BY <1>1, <1>2, <2>1, <2>2 DEF StaysTyped, IInv, Typed, Aside
  <2>5. Placed(a)'
    BY <1>1, <1>4, <1>5, <2>2 DEF Local, Placed
  <2>6. Local(a)'
    BY <1>1, <1>4, <1>5, <2>1, <2>2, <2>5 DEF Local, Authored, Leasing, Reading, Deleting, Keeping, Active, Aside
  <2>7. Creating(a)' /\ CopyMatches(a)' /\ ~Leaving(a)' /\ Dirty(a)'
    BY <1>4, <2>2 DEF Creating, CopyMatches, Storing, Leaving, Dirty, Restored, Places
  <2>8. Typed' /\ (\A b \in Actors : Local(b)') /\ (~reused' => Bins')
    BY <1>1, <2>3, <2>4, <2>6, <2>7, MoveKeepsCalm DEF Aside
  <2>9. ASSUME Good'
        PROVE  Owned'
    BY <1>1, <1>3, <2>2, <2>3, <2>7, <2>9, MoveKeepsOwned DEF Aside
  <2> QED
    BY <2>8, <2>9 DEF IInv
<1>6. CASE inv = NoInvite
  <2>1. Goes(a, To(a, "undo")) /\ req[a].kind \in Saving
    BY <1>4, <1>6 DEF ReadsAgain
  <2> QED
    BY <1>1, <1>2, <1>3, <2>1, GoesTurnsBack
<1> QED
  BY <1>5, <1>6

LEMMA ConflictsAgainStep ==
    ASSUME IInv, NEW a \in Actors, ConflictsAgain(a)
    PROVE  IInv'
<1>1. /\ req[a].pc = "rsave"
      /\ Aside /\ UNCHANGED <<late, reused, outside>>
  BY DEF ConflictsAgain, Aside, bounds
<1>2. /\ late' \in SUBSET CallMessage /\ IsFiniteSet(late')
      /\ \A m \in late' : m.act # "provision" => m.user # 0
  BY <1>1 DEF IInv, Typed
<1>3. CASE req[a].tries < Attempts
  <2>1. Goes(a, To(a, "rread")) /\ broken' = broken
    BY <1>3 DEF ConflictsAgain
  <2>2. Good' => Good /\ \A m \in late' : m.act = "status"
    BY <1>1, <2>1 DEF Good, IInv, Owned
  <2>3. req[a].kind \in Saving \cup {"delete"}
    BY <1>1 DEF IInv, Local, Placed
  <2> QED
    BY <1>1, <1>2, <2>1, <2>2, <2>3, GoesTurnsBack
<1>4. CASE ~(req[a].tries < Attempts)
  BY <1>1, <1>4, GivesUpStep DEF ConflictsAgain
<1> QED
  BY <1>3, <1>4

LEMMA ChecksStep ==
    ASSUME IInv, NEW a \in Actors, Checks(a)
    PROVE  IInv'
<1>1. /\ req[a].pc = "check"
      /\ Aside /\ UNCHANGED <<late, broken, reused, outside>>
  BY DEF Checks, Aside, past, bounds
<1>2. /\ late' \in SUBSET CallMessage /\ IsFiniteSet(late')
      /\ \A m \in late' : m.act # "provision" => m.user # 0
  BY <1>1 DEF IInv, Typed
<1>3. Good' => Good /\ \A m \in late' : m.act = "status"
  BY <1>1 DEF Good, IInv, Owned
<1>4. CASE inv # NoInvite /\ inv.by = a
  <2>1. Finish(a) /\ ~Dirty(a)
    BY <1>1, <1>4 DEF Checks, Dirty, Restored
  <2> QED
    BY <1>1, <1>2, <1>3, <2>1, FinishEnds
<1>5. CASE ~(inv # NoInvite /\ inv.by = a)
  <2>1. Goes(a, To(a, "rread"))
    BY <1>5 DEF Checks
  <2>2. req[a].kind \in Saving
    BY <1>1 DEF IInv, Local, Placed, Saving
  <2> QED
    BY <1>1, <1>2, <1>3, <2>1, <2>2, GoesTurnsBack
<1> QED
  BY <1>4, <1>5

LEMMA CallFailsStep ==
    ASSUME IInv, NEW a \in Actors, CallFails(a)
    PROVE  IInv'
<1> DEFINE m == Message(req[a])
<1>1. /\ req[a].pc \in {"call", "rcall", "undo"}
      /\ Aside /\ UNCHANGED <<reused, outside>>
      /\ late' = late \cup {m}
      /\ broken' = IF m.act # "status" THEN broken \cup {"call"} ELSE broken
  BY DEF CallFails, Aside, Trouble, Breaks
<1>2. Local(a)
  BY DEF IInv
<1>3. m \in CallMessage /\ (m.act # "provision" => m.user # 0)
  <2>1. CASE req[a].pc = "call"
    BY <1>2, <2>1, AskedIsMessage DEF Message, IInv, Local
  <2>2. CASE req[a].pc = "rcall"
    <3>1. m = Reapplied(req[a].seen)
      BY <2>2 DEF Message
    <3>2. m.act = "provision"
      BY <3>1 DEF Reapplied, Call
    <3> QED
      BY <1>2, <2>2, <3>1, <3>2, AskedIsMessage DEF IInv, Local
  <2>3. CASE req[a].pc = "undo"
    <3>1. m = Call("deprovision", req[a].mine.user, 0, FALSE, {})
      BY <2>3 DEF Message
    <3> QED
      BY <1>2, <2>3, <3>1, AskedIsMessage DEF IInv, Local, Call
  <2> QED
    BY <1>1, <2>1, <2>2, <2>3
<1>4. /\ late' \in SUBSET CallMessage /\ IsFiniteSet(late')
      /\ \A n \in late' : n.act # "provision" => n.user # 0
  <2> HIDE DEF m
  <2> QED
    BY <1>1, <1>3, FS_AddElement DEF IInv, Typed
<1>5. Good' => m.act = "status" /\ Good /\ \A n \in late' : n.act = "status"
  <2> HIDE DEF m
  <2> QED
    BY <1>1 DEF Good, IInv, Owned
<1>6. m.act = "status" => ~Dirty(a)
  <2>1. req[a].pc # "call" => m.act # "status"
    BY <1>1 DEF Message, Reapplied, Call
  <2> QED
    BY <2>1 DEF Dirty
<1>7. CASE req[a].pc = "rcall" /\ req[a].kind = "restore"
  <2>1. Goes(a, To(a, "undo"))
    BY <1>7 DEF CallFails
  <2> HIDE DEF m
  <2> QED
    BY <1>1, <1>4, <1>5, <1>7, <2>1, GoesTurnsBack DEF Saving
<1>8. CASE ~(req[a].pc = "rcall" /\ req[a].kind = "restore")
  <2>1. Finish(a)
    BY <1>8 DEF CallFails
  <2> HIDE DEF m
  <2> QED
    BY <1>1, <1>4, <1>5, <1>6, <2>1, FinishEnds
<1> QED
  BY <1>7, <1>8

LEMMA ReadFailsStep ==
    ASSUME IInv, NEW a \in Actors, ReadFails(a)
    PROVE  IInv'
<1>1. Aside /\ UNCHANGED <<late, reused, outside>>
  BY DEF ReadFails, Aside, Trouble
<1>2. CASE req[a].pc = "rread" /\ GivesUp(a)
  BY <1>1, <1>2, GivesUpStep
<1>3. CASE req[a].pc = "check" /\ Goes(a, To(a, "rread")) /\ UNCHANGED broken
  <2>1. /\ late' \in SUBSET CallMessage /\ IsFiniteSet(late')
        /\ \A m \in late' : m.act # "provision" => m.user # 0
    BY <1>1 DEF IInv, Typed
  <2>2. Good' => Good /\ \A m \in late' : m.act = "status"
    BY <1>1, <1>3 DEF Good, IInv, Owned
  <2>3. req[a].kind \in Saving
    BY <1>3 DEF IInv, Local, Placed, Saving
  <2> QED
    BY <1>1, <1>3, <2>1, <2>2, <2>3, GoesTurnsBack
<1> QED
  BY <1>2, <1>3 DEF ReadFails

LEMMA DiesStep ==
    ASSUME IInv, NEW a \in Actors, Dies(a)
    PROVE  IInv'
<1>1. /\ Finish(a) /\ Aside /\ UNCHANGED <<late, reused, outside>>
      /\ broken' = IF ~Harmless(req[a]) THEN broken \cup {"cut off"} ELSE broken
  BY DEF Dies, Aside, Trouble, Breaks
<1>2. /\ late' \in SUBSET CallMessage /\ IsFiniteSet(late')
      /\ \A m \in late' : m.act # "provision" => m.user # 0
  BY <1>1 DEF IInv, Typed
<1>3. Harmless(req[a]) => ~Dirty(a)
  BY DEF Harmless, Dirty, Saving, Pulling
<1>4. Good' => Good /\ ~Dirty(a) /\ \A m \in late' : m.act = "status"
  BY <1>1, <1>3 DEF Good, IInv, Owned
<1> QED
  BY <1>1, <1>2, <1>4, FinishEnds

LEMMA BeginsStep ==
    ASSUME IInv, NEW a \in Actors, NEW r \in Request, r.kind \in Kinds, Begins(a, r), UNCHANGED outside
    PROVE  IInv'
<1>1. /\ req[a].pc = "idle" /\ CanClaim(r) /\ Admitted(r)
      /\ req' = [req EXCEPT ![a] = Begun(r, inv)]
      /\ stale' = [stale EXCEPT ![a] = {}]
      /\ lease' = (IF r.kind \in Leased THEN a ELSE lease)
      /\ UNCHANGED <<inv, trash, db, late, broken, reused>>
  <2>1. Begun(r, inv) = [r EXCEPT !.pc = "call", !.seen = inv]
    BY Zenon DEF Begun
  <2> QED
    BY <2>1, Zenon DEF Begins, past
<1>2. /\ req' \in [Actors -> Request]
      /\ req'[a].kind = r.kind /\ req'[a].pc = "call" /\ req'[a].seen = inv /\ req'[a].item = r.item
  BY <1>1, BegunIsRequest DEF IInv, Typed
<1>3. /\ r.kind \in {"create", "restore"} => inv = NoInvite
      /\ r.kind \in {"update", "reset", "refresh", "delete"} => inv # NoInvite
      /\ r.kind \in {"restore", "purge"} => r.item \in trash
  BY <1>1 DEF Admitted
<1>4. trash \subseteq Item
  BY DEF IInv, Typed
<1>5. Others(a)
  BY <1>1 DEF Others, CanClaim, IInv, Typed
<1>6. StaysTyped
  BY <1>1, <1>2 DEF StaysTyped, IInv, Typed
<1>7. Placed(a)'
  BY <1>2, <1>3, <1>4, NoneAssumption DEF Placed
<1>8. Local(a)'
  BY <1>1, <1>2, <1>3, <1>7 DEF Local, Authored, Leasing, Reading, Deleting, Keeping, Active
<1>9. Creating(a)' /\ CopyMatches(a)' /\ ~Leaving(a)'
  BY <1>2 DEF Creating, CopyMatches, Storing, Leaving
<1>10. Typed' /\ (\A b \in Actors : Local(b)') /\ (~reused' => Bins')
  BY <1>1, <1>5, <1>6, <1>8, <1>9, MoveKeepsCalm
<1>11. ASSUME Good'
       PROVE  Owned'
  <2>1. Good /\ (\A m \in late' : m.act = "status") /\ ~Dirty(a)
    BY <1>1, <1>11 DEF Good, IInv, Owned, Dirty
  <2> QED
    BY <1>1, <1>5, <1>9, <2>1, MoveKeepsOwned
<1> QED
  BY <1>10, <1>11 DEF IInv

LEMMA StartsStep ==
    ASSUME IInv, NEW kind \in Kinds, Starts(kind)
    PROVE  IInv'
<1>1. (CHOOSE a \in Idle : TRUE) \in Actors
  BY DEF Starts, Idle
<1>2. PICK a \in Actors : a = (CHOOSE b \in Idle : TRUE)
  BY <1>1
<1>3. PICK keys \in (IF kind \in {"create", "update"} THEN SUBSET Keys ELSE {{}}),
           item \in (IF kind \in {"restore", "purge"} THEN trash ELSE {NoItem}) :
              Begins(a, [Blank EXCEPT !.kind = kind, !.keys = keys, !.item = item])
  BY <1>2, Zenon DEF Starts
<1>4. keys \in SUBSET Keys
  BY <1>3
<1>5. item \in Item \cup {NoItem}
  <2>1. trash \subseteq Item
    BY DEF IInv, Typed
  <2> QED
    BY <1>3, <2>1
<1>6. PICK r : r = [Blank EXCEPT !.kind = kind, !.keys = keys, !.item = item]
  OBVIOUS
<1>7. r = [kind |-> kind, pc |-> "idle", keys |-> keys, seen |-> NoInvite,
           item |-> item, mine |-> NoInvite, tries |-> 0]
  BY <1>6 DEF Blank
<1>8. r \in Request /\ r.kind \in Kinds
  BY <1>4, <1>5, <1>7 DEF Request, Places
<1>9. Begins(a, r)
  BY <1>3, <1>6, Zenon
<1> QED
  BY <1>8, <1>9, BeginsStep DEF Starts

LEMMA OthersSaveStep ==
    ASSUME IInv, OthersSave
    PROVE  IInv'
<1>1. /\ stale' = Outdated(Free, {"invites", "trash"})
      /\ UNCHANGED <<inv, trash, db, req, lease, late, broken, reused, outside>>
  BY DEF OthersSave, past
<1>2. stale' = [b \in Actors |-> IF req[b].pc = "idle" THEN {} ELSE stale[b] \cup {"invites", "trash"}]
  BY <1>1, BoundAssumption DEF Outdated
<1>3. Others(Free)
  BY <1>1, <1>2 DEF Others, Active
<1>4. StaysTyped
  BY <1>1, <1>2 DEF StaysTyped, IInv, Typed
<1>5. Typed' /\ (\A b \in Actors : Local(b)') /\ (~reused' => Bins')
  BY <1>1, <1>3, <1>4, BoundAssumption, MoveKeepsCalm
<1>6. ASSUME Good'
      PROVE  Owned'
  <2>1. Good /\ (\A m \in late' : m.act = "status")
    BY <1>1, <1>6 DEF Good, IInv, Owned
  <2> QED
    BY <1>1, <1>3, <2>1, BoundAssumption, MoveKeepsOwned
<1> QED
  BY <1>5, <1>6 DEF IInv

LEMMA ChangesOutsideStep ==
    ASSUME IInv, ChangesOutside
    PROVE  IInv'
<1>1. /\ UNCHANGED <<inv, trash, req, stale, lease, late, broken, reused>>
      /\ outside < MaxOutside /\ outside' = outside + 1 /\ db # NoUser
  BY DEF ChangesOutside, past
<1>2. db' \in Row
  <2>1. db \in Row
    BY <1>1 DEF IInv, Typed
  <2>2. NewPw \in Nat
    BY NewIsNew DEF IInv
  <2>3. CASE db' = [db EXCEPT !.pw = NewPw]
    BY <2>1, <2>2, <2>3 DEF Row
  <2>4. ASSUME NEW keys \in SUBSET Keys, db' = [db EXCEPT !.keys = keys]
        PROVE  db' \in Row
    BY <2>1, <2>4 DEF Row
  <2> QED
    BY <2>3, <2>4 DEF ChangesOutside
<1>3. Others(Free)
  BY <1>1 DEF Others
<1>4. StaysTyped
  BY <1>1, <1>2 DEF StaysTyped, IInv, Typed
<1>5. Typed' /\ (\A b \in Actors : Local(b)') /\ (~reused' => Bins')
  BY <1>1, <1>3, <1>4, BoundAssumption, MoveKeepsCalm
<1>6. ~Good'
  <2>1. outside \in Nat
    BY DEF IInv, Typed
  <2> QED
    BY <1>1, <2>1 DEF Good
<1> QED
  BY <1>5, <1>6 DEF IInv

LEMMA LateCallEndsStep ==
    ASSUME IInv, LateCallEnds
    PROVE  IInv'
<1>1. PICK m \in late : /\ late' = late \ {m}
                        /\ db' \in {db, IF Resolves(m) THEN Served(m) ELSE db}
  BY DEF LateCallEnds
<1>2. UNCHANGED <<inv, trash, req, stale, lease, broken, reused, outside>>
  BY DEF LateCallEnds, past, bounds
<1>3. m \in CallMessage /\ (m.act # "provision" => m.user # 0)
  BY DEF IInv, Typed
<1>4. db' \in Row \cup {NoUser} /\ (m.act = "status" => db' = db)
  BY <1>1, <1>3, ServedIsRow DEF IInv, Typed
<1>5. Others(Free)
  BY <1>2 DEF Others
<1>6. StaysTyped
  <2>1. IsFiniteSet(late')
    BY <1>1, FS_RemoveElement DEF IInv, Typed
  <2> QED
    BY <1>1, <1>2, <1>4, <2>1 DEF StaysTyped, IInv, Typed
<1>7. Typed' /\ (\A b \in Actors : Local(b)') /\ (~reused' => Bins')
  BY <1>2, <1>5, <1>6, BoundAssumption, MoveKeepsCalm
<1>8. ASSUME Good'
      PROVE  Owned'
  <2>1. Good /\ (\A n \in late : n.act = "status")
    BY <1>2, <1>8 DEF Good, IInv, Owned
  <2>2. db' = db /\ (\A n \in late' : n.act = "status")
    BY <1>1, <1>4, <2>1
  <2> QED
    BY <1>2, <1>5, <2>1, <2>2, BoundAssumption, MoveKeepsOwned
<1> QED
  BY <1>7, <1>8 DEF IInv

-----------------------------------------------------------------------------
(* The steps that change the account. *)

(* What a request is about to save after its first call. *)
LEMMA BuiltIsInvite ==
    ASSUME Typed, NEW a \in Actors, Placed(a), req[a].pc = "call", Resolves(Asked(req[a]))
    PROVE  LET r == req[a]
               m == Asked(r)
               i == Built(a, m)
           IN  /\ r.kind \in Saving => /\ i \in Invite
                                       /\ m.act = "provision"
                                       /\ i.user = Served(m).id
                                       /\ i.by = IF r.kind \in {"create", "restore"} THEN a ELSE r.seen.by
                                       /\ Matches(db, r.seen) => Matches(Served(m), i)
                                       /\ r.kind # "update" => Matches(Served(m), i)
               /\ r.kind = "refresh" => /\ i \in Invite
                                        /\ Served(m) = db
                                        /\ i.by = r.seen.by
                                        /\ Matches(db, r.seen) => Matches(db, i)
               /\ r.kind \in {"delete", "purge"} => i = NoInvite
               /\ r.kind = "delete" => Served(m) \in Row /\ ~Served(m).up
               /\ r.kind = "purge" => Served(m) = NoUser
<1> DEFINE r == req[a]
           m == Asked(r)
           i == Built(a, m)
<1>1. r \in Request /\ m \in CallMessage /\ (m.act # "provision" => m.user # 0)
  BY AskedIsMessage DEF Typed
<1>2. ASSUME r.kind \in Saving
      PROVE  /\ i \in Invite
             /\ m.act = "provision"
             /\ i.user = Served(m).id
             /\ i.by = IF r.kind \in {"create", "restore"} THEN a ELSE r.seen.by
             /\ Matches(db, r.seen) => Matches(Served(m), i)
             /\ r.kind # "update" => Matches(Served(m), i)
  <2>1. m.act = "provision"
    BY <1>2 DEF Asked, Call, Saving, Pulling
  <2>2. r.kind \in {"update", "reset"} => r.seen \in Invite
    BY <1>1 DEF Placed, Request
  <2> DEFINE by == IF r.kind \in {"create", "restore"} THEN a ELSE r.seen.by
  <2>3. by \in Actors \cup {Free}
    BY <1>2, <2>2 DEF Invite, Saving
  <2>4. i = Provisional(m, by)
    <3> HIDE DEF m
    <3>1. CASE r.kind \in {"create", "restore"}
      BY <3>1 DEF Built, Pulling
    <3>2. CASE r.kind \in {"update", "reset"}
      <4>1. r.kind \notin {"create", "restore"}
        BY <3>2
      <4> QED
        BY <3>2, <4>1 DEF Built, Pulling
    <3> QED
      BY <1>2, <3>1, <3>2 DEF Saving
  <2>5. r.kind # "update" => m.pw = 0 \/ m.reset
    BY <1>2 DEF Asked, Call, Saving, Pulling
  <2>6. ASSUME r.kind = "update", Matches(db, r.seen)
        PROVE  db.pw = m.pw
    <3>1. m.pw = r.seen.pw
      <4>1. m = Call("provision", r.seen.user, r.seen.pw, FALSE, r.keys)
        BY <2>6 DEF Asked, Pulling
      <4> HIDE DEF m
      <4> QED
        BY <4>1 DEF Call
    <3>2. r.seen # NoInvite
      BY <2>2, <2>6, NoneAssumption
    <3> QED
      BY <2>6, <3>1, <3>2 DEF Matches
  <2> HIDE DEF by, m, i
  <2>7. /\ i \in Invite /\ i.by = by /\ i.user = Served(m).id
        /\ (m.pw # 0 /\ db # NoUser /\ ~m.reset => db.pw = m.pw) => Matches(Served(m), i)
    BY <1>1, <2>1, <2>3, <2>4, ProvisionalMatches DEF m
  <2> QED
    BY <2>1, <2>5, <2>6, <2>7 DEF by
<1>3. ASSUME r.kind = "refresh"
      PROVE  /\ i \in Invite
             /\ Served(m) = db
             /\ i.by = r.seen.by
             /\ Matches(db, r.seen) => Matches(db, i)
  <2>1. m.act = "status"
    BY <1>3 DEF Asked, Call, Pulling
  <2>2. Served(m) = db /\ db \in Row
    <3> HIDE DEF m
    <3> QED
      BY <1>1, <2>1, ServedIsRow DEF m
  <2>3. PICK s \in Invite : s = r.seen
    BY <1>1, <1>3 DEF Placed, Request
  <2>4. i = Pulled(s)
    BY <1>3, <2>3 DEF Built, Pulling
  <2>5. Pulled(s) = [user |-> s.user, pw |-> IF s.fp # db.pw THEN 0 ELSE s.pw,
                     fp |-> db.pw, keys |-> db.keys, by |-> s.by]
    <3>1. PICK p : p = IF s.fp # db.pw THEN 0 ELSE s.pw
      OBVIOUS
    <3>2. Pulled(s) = [s EXCEPT !.fp = db.pw, !.pw = p, !.keys = db.keys]
      BY <3>1, Zenon DEF Pulled
    <3> QED
      BY <3>1, <3>2 DEF Invite
  <2>6. Pulled(s) \in Invite
    BY <2>2, <2>5 DEF Invite, Row
  <2>7. ASSUME Matches(db, s)
        PROVE  Matches(db, Pulled(s))
    <3>1. s # NoInvite /\ Pulled(s) # NoInvite
      BY <2>6, NoneAssumption
    <3> QED
      BY <2>5, <2>7, <3>1 DEF Matches
  <2> QED
    BY <2>2, <2>3, <2>4, <2>5, <2>6, <2>7
<1>4. r.kind \in {"delete", "purge"} => i = NoInvite
  BY DEF Built, Pulling
<1>5. r.kind = "delete" => Served(m) \in Row /\ ~Served(m).up
  <2>1. r.kind = "delete" => m.act = "deprovision"
    BY DEF Asked, Call, Pulling
  <2> HIDE DEF m
  <2> QED
    BY <1>1, <2>1, ServedIsRow DEF m
<1>6. r.kind = "purge" => Served(m) = NoUser
  <2>1. r.kind = "purge" => m.act = "purge"
    BY DEF Asked, Call, Pulling
  <2> HIDE DEF m
  <2> QED
    BY <1>1, <2>1, ServedIsRow DEF m
<1> QED
  BY <1>2, <1>3, <1>4, <1>5, <1>6

(* While a purge has its item, no invite is stored and no request has a        *)
(* current copy to store.                                                    *)
LEMMA PurgeMeetsNobody ==
    ASSUME IInv, ~reused, NEW a \in Actors, req[a].kind = "purge", req[a].pc \in {"call", "save"}
    PROVE  inv = NoInvite /\ \A b \in Actors : Storing(b) /\ Latest(b) => FALSE
<1>1. Local(a) /\ Bins
  BY DEF IInv
<1>2. trash # {} /\ inv = NoInvite
  BY <1>1 DEF Local, Keeping, Bins
<1>3. ASSUME NEW b \in Actors, Storing(b), Latest(b)
      PROVE  FALSE
  <2>1. Local(b) /\ Creating(b)
    BY <1>1 DEF IInv, Bins
  <2>2. req[b].seen = NoInvite
    BY <1>2, <1>3, <2>1 DEF Storing, Local, Reading
  <2>3. req[b].pc = "save" /\ req[b].kind \in {"create", "restore"}
    BY <1>3, <2>1, <2>2 DEF Storing, Local, Placed, Saving, Pulling
  <2>4. req[b].kind = "restore"
    BY <1>2, <1>3, <2>1, <2>3 DEF Creating
  <2>5. lease = a /\ lease = b
    BY <1>1, <2>1, <2>3, <2>4 DEF Local, Leasing, Active, Leased
  <2> QED
    BY <2>4, <2>5
<1> QED
  BY <1>2, <1>3

(* Once a has changed the account, nobody else's copy has to match it.         *)
LEMMA DirtyAnswers ==
    ASSUME NEW a \in Actors, Dirty(a)', CopyMatches(a)', UpHasCause', \A m \in late' : m.act = "status"
    PROVE  Owned'
<1>1. Settled'
  BY DEF Settled
<1>2. \A b \in Actors : CopyMatches(b)'
  BY DEF CopyMatches
<1> QED
  BY <1>1, <1>2 DEF Owned

LEMMA CallsStep ==
    ASSUME IInv, NEW a \in Actors, Calls(a)
    PROVE  IInv'
<1> DEFINE r == req[a]
           m == Asked(r)
           i == Built(a, m)
           p == IF r.kind = "delete" THEN "trash" ELSE "save"
<1>1. r.pc = "call" /\ UNCHANGED <<inv, trash, late, broken, outside>>
  BY DEF Calls, bounds
<1>2. Local(a) /\ Typed /\ r \in Request /\ m \in CallMessage /\ (m.act # "provision" => m.user # 0)
  BY <1>1, AskedIsMessage DEF IInv, Local, Typed
<1>3. /\ late' \in SUBSET CallMessage /\ IsFiniteSet(late')
      /\ \A n \in late' : n.act # "provision" => n.user # 0
  BY <1>1 DEF IInv, Typed
<1>4. CASE ~Resolves(m)
  <2>1. Finish(a) /\ Aside /\ UNCHANGED <<reused, outside>>
    BY <1>1, <1>4 DEF Calls, Aside
  <2>2. Good' => Good /\ ~Dirty(a) /\ \A n \in late' : n.act = "status"
    BY <1>1, <2>1 DEF Good, IInv, Owned, Dirty
  <2> QED
    BY <1>3, <2>1, <2>2, FinishEnds
<1>5. CASE Resolves(m)
  <2>1. /\ req' = [req EXCEPT ![a] = WithMine(To(a, p), i)]
        /\ stale' = stale /\ lease' = lease /\ db' = Served(m)
        /\ reused' = (reused \/ (r.kind = "create" /\ trash # {}))
    <3>1. WithMine(To(a, p), i) = [To(a, p) EXCEPT !.mine = i]
      BY Zenon DEF WithMine
    <3>2. /\ Goes(a, [To(a, p) EXCEPT !.mine = i]) /\ db' = Served(m)
          /\ reused' = (reused \/ (r.kind = "create" /\ trash # {}))
      BY <1>5, Zenon DEF Calls
    <3> QED
      BY <3>1, <3>2, Zenon DEF Goes
  <2>2. /\ r.kind \in Saving => /\ i \in Invite
                                /\ i.user = db'.id
                                /\ i.by = IF r.kind \in {"create", "restore"} THEN a ELSE r.seen.by
                                /\ Matches(db, r.seen) => Matches(db', i)
        /\ r.kind = "refresh" => /\ i \in Invite
                                 /\ db' = db
                                 /\ i.by = r.seen.by
                                 /\ Matches(db, r.seen) => Matches(db, i)
        /\ r.kind \in {"delete", "purge"} => i = NoInvite
        /\ r.kind = "delete" => ~db'.up
        /\ r.kind = "purge" => db' = NoUser
    BY <1>1, <1>2, <1>5, <2>1, BuiltIsInvite DEF Local
  <2>3. r.kind \in Saving \cup {"refresh", "delete", "purge"}
    BY <1>1, <1>2 DEF Local, Placed, Kinds, Saving, Pulling, Leased
  <2>4. i \in Invite \cup {NoInvite} /\ db' \in Row \cup {NoUser}
    BY <1>2, <1>5, <2>1, <2>2, <2>3, ServedIsRow
  <2>5. p \in Places /\ req \in [Actors -> Request]
    BY DEF Places, IInv, Typed
  <2> HIDE DEF i, m, p
  <2>6. /\ req' \in [Actors -> Request]
        /\ req'[a].kind = r.kind /\ req'[a].pc = p /\ req'[a].seen = r.seen
        /\ req'[a].mine = i /\ req'[a].item = r.item
    BY <2>1, <2>4, <2>5, ToIsRequest, WithMineIsRequest
  <2>7. Others(a)
    BY <2>1 DEF Others, IInv, Typed
  <2>8. StaysTyped
    BY <1>1, <1>3, <2>1, <2>4, <2>6 DEF StaysTyped, IInv, Typed
  <2>9. Placed(a)'
    <3>1. Placed(a)
      BY <1>2 DEF Local
    <3>2. r.kind \in Saving \cup {"refresh"} => i # NoInvite
      BY <2>2, NoneAssumption
    <3> QED
      BY <1>1, <2>3, <2>6, <3>1, <3>2 DEF Placed, p, Pulling
  <2>10. Authored(a)'
    BY <1>1, <2>2, <2>6 DEF Authored, p, Saving, Pulling
  <2>11. Latest(a)' = Latest(a)
    BY <2>1 DEF Latest
  <2>12. Leasing(a)' /\ Reading(a)' /\ Deleting(a)' /\ Keeping(a)'
    BY <1>1, <1>2, <2>1, <2>6, <2>11 DEF Local, Leasing, Reading, Deleting, Keeping, Active, p
  <2>13. ~reused' => Creating(a)'
    BY <1>1, <2>1, <2>6 DEF Creating, p
  <2>14. Typed' /\ (\A b \in Actors : Local(b)') /\ (~reused' => Bins')
    BY <1>1, <2>7, <2>8, <2>9, <2>10, <2>12, <2>13, MoveKeepsCalm DEF Local
  <2>15. ASSUME Good'
         PROVE  Owned'
    <3>1. Good /\ ~reused /\ Owned /\ \A n \in late' : n.act = "status"
      BY <1>1, <2>1, <2>15 DEF Good, IInv, Owned
    <3>2. r.pc = "call" /\ ~Dirty(a)
      BY <1>1 DEF Dirty
    <3>3. ASSUME \A b \in Actors \ {a} : ~Dirty(b)', Latest(a)'
          PROVE  Matches(db, r.seen)
      <4>1. \A b \in Actors : ~Dirty(b)
        BY <1>1, <2>7, <3>2, <3>3, BystanderStays DEF IInv
      <4>2. r.seen = inv
        BY <1>1, <1>2, <2>11, <3>3 DEF Local, Reading
      <4> QED
        BY <3>1, <4>1, <4>2 DEF Owned, Settled
    <3>4. CASE r.kind \in Saving
      <4>1. Dirty(a)'
        BY <2>6, <3>4 DEF Dirty, Restored, Places, p
      <4>2. CopyMatches(a)'
        BY <2>2, <2>6, <3>3, <3>4 DEF CopyMatches
      <4>3. Provisioning(a)'
        BY <2>2, <2>6, <3>4, <4>1 DEF Provisioning
      <4>4. UpHasCause'
        BY <4>3 DEF UpHasCause
      <4> QED
        BY <3>1, <4>1, <4>2, <4>4, DirtyAnswers
    <3>5. CASE r.kind = "delete"
      <4>1. Dirty(a)' /\ CopyMatches(a)'
        BY <2>6, <3>5 DEF Dirty, Restored, Places, p, CopyMatches, Storing
      <4>2. UpHasCause'
        BY <2>2, <3>5 DEF UpHasCause, Off
      <4> QED
        BY <3>1, <4>1, <4>2, DirtyAnswers
    <3>6. CASE r.kind = "refresh"
      <4>1. CopyMatches(a)'
        BY <2>2, <2>6, <3>3, <3>6 DEF CopyMatches
      <4>2. ~Leaving(a)'
        BY <2>6, <3>6 DEF Leaving
      <4> QED
        BY <1>1, <2>2, <2>7, <3>1, <3>2, <3>6, <4>1, <4>2, MoveKeepsOwned
    <3>7. CASE r.kind = "purge"
      <4>1. inv' = NoInvite /\ db' = NoUser /\ \A b \in Actors : ~(Storing(b) /\ Latest(b))
        BY <1>1, <2>2, <3>1, <3>7, PurgeMeetsNobody
      <4>2. Settled' /\ UpHasCause'
        BY <4>1 DEF Settled, UpHasCause, Matches, Off
      <4>3. ASSUME NEW b \in Actors
            PROVE  CopyMatches(b)'
        <5>1. CASE b = a
          BY <2>6, <3>7, <5>1 DEF CopyMatches, Storing, p, Saving, Pulling
        <5>2. CASE b # a
          <6>1. Storing(b)' /\ Latest(b)' => Storing(b) /\ Latest(b)
            BY <1>1, <2>7, <5>2, BystanderStays DEF IInv, Storing, Active
          <6> QED
            BY <4>1, <6>1 DEF CopyMatches
        <5> QED
          BY <5>1, <5>2
      <4> QED
        BY <3>1, <4>2, <4>3 DEF Owned
    <3> QED
      BY <2>3, <3>4, <3>5, <3>6, <3>7
  <2> QED
    BY <2>14, <2>15 DEF IInv
<1> QED
  BY <1>4, <1>5

LEMMA ReappliesStep ==
    ASSUME IInv, NEW a \in Actors, Reapplies(a)
    PROVE  IInv'
<1> DEFINE r == req[a]
           m == Reapplied(r.seen)
           i == Provisional(m, r.seen.by)
<1>1. r.pc = "rcall" /\ UNCHANGED <<inv, trash, late, reused, outside>>
  BY DEF Reapplies, bounds
<1>2. Local(a) /\ Typed /\ r \in Request /\ m \in CallMessage
  BY <1>1, AskedIsMessage DEF IInv, Local, Typed
<1>3. m.act = "provision" /\ (m.pw # 0 => m.reset)
  BY DEF Reapplied, Call
<1>4. CASE ~Resolves(m)
  <2>1. GivesUp(a) /\ Aside
    BY <1>1, <1>4 DEF Reapplies, Aside
  <2> QED
    BY <1>1, <2>1, GivesUpStep
<1>5. CASE Resolves(m)
  <2>1. /\ req' = [req EXCEPT ![a] = WithMine(To(a, "rsave"), i)]
        /\ stale' = stale /\ lease' = lease /\ db' = Served(m) /\ broken' = broken
    <3>1. WithMine(To(a, "rsave"), i) = [To(a, "rsave") EXCEPT !.mine = i]
      BY Zenon DEF WithMine
    <3>2. Goes(a, [To(a, "rsave") EXCEPT !.mine = i]) /\ db' = Served(m) /\ broken' = broken
      BY <1>5, Zenon DEF Reapplies
    <3> QED
      BY <3>1, <3>2, Zenon DEF Goes
  <2>2. r.seen \in Invite /\ r.seen.by \in Actors \cup {Free} /\ r.kind \in Saving \cup {"delete"}
    BY <1>1, <1>2 DEF Local, Placed, Request, Invite
  <2>3. i \in Invite /\ i.by = r.seen.by /\ i.user = db'.id /\ Matches(db', i) /\ db' \in Row
    <3> HIDE DEF m
    <3> QED
      BY <1>2, <1>3, <1>5, <2>1, <2>2, ProvisionalMatches, ServedIsRow
  <2> HIDE DEF i, m
  <2>4. /\ req' \in [Actors -> Request]
        /\ req'[a].kind = r.kind /\ req'[a].pc = "rsave" /\ req'[a].seen = r.seen
        /\ req'[a].mine = i /\ req'[a].item = r.item
    <3>1. "rsave" \in Places /\ req \in [Actors -> Request]
      BY DEF Places, IInv, Typed
    <3> QED
      BY <2>1, <2>3, <3>1, ToIsRequest, WithMineIsRequest
  <2>5. Others(a)
    BY <2>1 DEF Others, IInv, Typed
  <2>6. StaysTyped
    BY <1>1, <2>1, <2>3, <2>4 DEF StaysTyped, IInv, Typed
  <2>7. Placed(a)' /\ Authored(a)'
    <3>1. i # NoInvite
      BY <2>3, NoneAssumption
    <3> QED
      BY <1>1, <1>2, <2>3, <2>4, <3>1 DEF Local, Placed, Authored
  <2>8. Latest(a)' = Latest(a)
    BY <2>1 DEF Latest
  <2>9. Leasing(a)' /\ Reading(a)' /\ Deleting(a)' /\ Keeping(a)' /\ Creating(a)'
    BY <1>1, <1>2, <2>1, <2>4, <2>8 DEF Local, Leasing, Reading, Deleting, Keeping, Creating, Active
  <2>10. Typed' /\ (\A b \in Actors : Local(b)') /\ (~reused' => Bins')
    BY <1>1, <2>5, <2>6, <2>7, <2>9, MoveKeepsCalm DEF Local
  <2>11. ASSUME Good'
         PROVE  Owned'
    <3>1. \A n \in late' : n.act = "status"
      BY <1>1, <2>1, <2>11 DEF Good, IInv, Owned
    <3>2. Dirty(a)' /\ CopyMatches(a)'
      BY <2>2, <2>3, <2>4 DEF Dirty, Restored, Places, CopyMatches
    <3>3. UpHasCause'
      <4>1. CASE r.kind \in Saving
        <5>1. Provisioning(a)'
          BY <2>3, <2>4, <3>2, <4>1 DEF Provisioning
        <5> QED
          BY <5>1 DEF UpHasCause
      <4>2. CASE r.kind = "delete"
        <5>1. inv' # NoInvite /\ lease = a
          BY <1>1, <1>2, <4>2 DEF Local, Deleting, Leasing, Active, Leased
        <5>2. ASSUME NEW b \in Actors, Leaving(b)'
              PROVE  FALSE
          <6>1. b # a
            BY <2>4, <5>2 DEF Leaving
          <6>2. Leaving(b) \/ (req[b].kind = "delete" /\ Active(b))
            BY <2>5, <5>2, <6>1 DEF Others, Leaving, Active
          <6>3. lease = b
            BY <6>2 DEF IInv, Local, Leasing, Leaving, Active, Leased
          <6> QED
            BY <5>1, <6>1, <6>3
        <5> QED
          BY <5>1, <5>2 DEF UpHasCause
      <4> QED
        BY <2>2, <4>1, <4>2
    <3> QED
      BY <3>1, <3>2, <3>3, DirtyAnswers
  <2> QED
    BY <2>10, <2>11 DEF IInv
<1> QED
  BY <1>4, <1>5

LEMMA UndoesStep ==
    ASSUME IInv, NEW a \in Actors, Undoes(a)
    PROVE  IInv'
<1> DEFINE r == req[a]
           m == Call("deprovision", r.mine.user, 0, FALSE, {})
<1>1. /\ r.pc = "undo" /\ Finish(a)
      /\ db' = (IF Resolves(m) THEN Served(m) ELSE db)
      /\ broken' = (IF Crosses(a) THEN broken \cup {"undone"} ELSE broken)
      /\ UNCHANGED <<inv, trash, late, reused, outside>>
  BY DEF Undoes, Breaks, bounds
<1>2. Local(a) /\ Typed /\ r \in Request /\ r.mine # NoInvite /\ r.kind \in Saving
  BY <1>1 DEF IInv, Local, Typed, Placed
<1>3. m \in CallMessage /\ m.user = r.mine.user /\ m.act = "deprovision" /\ m.user # 0
  BY <1>1, <1>2, AskedIsMessage DEF Local, Call
<1>4. db' \in Row \cup {NoUser} /\ (Resolves(m) => Off(db'))
  <2> HIDE DEF m
  <2> QED
    BY <1>1, <1>2, <1>3, ServedIsRow DEF Typed, Off
<1>5. req' = [req EXCEPT ![a] = Blank] /\ stale' = [stale EXCEPT ![a] = {}]
  BY <1>1 DEF Finish
<1>6. req'[a] = Blank /\ req' \in [Actors -> Request] /\ stale' \in [Actors -> SUBSET {"invites", "trash"}]
  <2>1. Blank \in Request
    BY DEF Blank, Request, Places
  <2> QED
    BY <1>2, <1>5, <2>1 DEF Typed
<1>7. Others(a)
  BY <1>1, <1>5 DEF Finish, Others, IInv, Typed
<1>8. StaysTyped
  BY <1>1, <1>4, <1>6 DEF StaysTyped, IInv, Typed
<1>9. Local(a)' /\ Creating(a)' /\ CopyMatches(a)' /\ ~Leaving(a)' /\ ~Dirty(a)'
  BY <1>6, SMTT(30) DEF Blank, Local, Placed, Authored, Leasing, Active, Reading, Deleting, Keeping, Creating,
                   CopyMatches, Storing, Leaving, Dirty, Saving, Pulling
<1>10. Typed' /\ (\A b \in Actors : Local(b)') /\ (~reused' => Bins')
  BY <1>1, <1>7, <1>8, <1>9, MoveKeepsCalm
<1>11. ASSUME Good'
       PROVE  Owned'
  <2>1. Good /\ Owned /\ ~Crosses(a) /\ \A n \in late' : n.act = "status"
    BY <1>1, <1>11 DEF Good, IInv, Owned
  <2>2. inv = NoInvite /\ \A b \in Actors \ {a} : ~(req[b].kind \in Saving /\ req[b].mine # NoInvite)
    BY <2>1 DEF Crosses
  <2>3. Off(db')
    <3>1. CASE Resolves(m)
      BY <1>4, <3>1
    <3>2. CASE ~Resolves(m)
      <4> SUFFICES ASSUME ~Off(db)
                   PROVE  FALSE
        BY <1>1, <3>2
      <4>1. PICK b \in Actors : Provisioning(b)
        BY <2>1, <2>2 DEF Owned, UpHasCause
      <4>2. req[b].kind \in Saving /\ req[b].mine # NoInvite
        BY <4>1 DEF Provisioning, Dirty, IInv, Local, Placed, Places
      <4>3. b = a
        BY <2>2, <4>2
      <4> QED
        BY <1>3, <3>2, <4>1, <4>3 DEF Resolves, Provisioning, Off
    <3> QED
      BY <3>1, <3>2
  <2>4. Settled' /\ UpHasCause'
    BY <1>1, <2>2, <2>3 DEF Settled, UpHasCause, Matches
  <2>5. ASSUME NEW b \in Actors
        PROVE  CopyMatches(b)'
    <3>1. CASE b = a
      BY <1>9, <3>1
    <3>2. CASE b # a
      <4> SUFFICES ASSUME Storing(b)', Latest(b)'
                   PROVE  FALSE
        BY DEF CopyMatches
      <4>1. Storing(b) /\ Latest(b) /\ Local(b)
        BY <1>1, <1>7, <3>2, BystanderStays DEF IInv, Storing, Active
      <4>2. req[b].seen = NoInvite
        BY <2>2, <4>1 DEF Local, Reading, Storing
      <4>3. req[b].kind \in Saving /\ req[b].mine # NoInvite
        BY <4>1, <4>2 DEF Local, Placed, Storing, Pulling
      <4> QED
        BY <2>2, <3>2, <4>3
    <3> QED
      BY <3>1, <3>2
  <2> QED
    BY <2>1, <2>4, <2>5 DEF Owned
<1> QED
  BY <1>10, <1>11 DEF IInv

-----------------------------------------------------------------------------
(* The steps that write the stored collections. *)

(* The collections are written by a, which then ends or goes to p.             *)
Wrote(a, p) ==
    /\ req[a].pc \in {"save", "rsave"} /\ Current(a)
    /\ Writes(a) /\ stale' = Written(a)
    /\ req' = [req EXCEPT ![a] = IF p = "done" THEN Blank ELSE To(a, p)]
    /\ lease' = IF p = "done" /\ lease = a THEN Free ELSE lease
    /\ UNCHANGED <<db, late, reused, outside>>
    /\ p # "done" => req[a].kind \in Saving
    /\ p = "check" => req[a].kind = "restore" /\ req[a].pc = "save"
    /\ Good' => Good /\ p # "undo"

(* The four kinds of write. *)
Purges(a)  == req[a].kind = "purge" /\ req[a].pc = "save" /\ inv' = inv /\ trash' = trash \ {req[a].item}

Deletes(a) == /\ req[a].kind = "delete" /\ req[a].pc = "save" /\ Latest(a) /\ inv' = NoInvite
              /\ \E t \in Item : trash' = trash \cup {t}

Restores(a) == /\ req[a].kind = "restore" /\ req[a].pc = "save" /\ Latest(a) /\ inv' = req[a].mine
               /\ trash' = trash \ {req[a].item}

Stores(a) == /\ req[a].pc = "rsave" \/ (req[a].pc = "save" /\ req[a].kind \in {"create", "update", "reset", "refresh"})
             /\ Latest(a) /\ inv' = req[a].mine /\ trash' = trash

LEMMA WriteKinds ==
    ASSUME IInv, NEW a \in Actors, NEW p \in {"done", "rread", "check", "undo"}, Wrote(a, p)
    PROVE  /\ Purges(a) \/ Deletes(a) \/ Restores(a) \/ Stores(a)
           /\ \A b \in Actors \ {a} : req'[b] = req[b] /\ (Active(b) /\ Latest(b)' => Latest(b))
           /\ ~Purges(a) => \A b \in Actors \ {a} : Active(b) => ~Latest(b)'
           /\ stale' \in [Actors -> SUBSET {"invites", "trash"}]
           /\ \A b \in Actors \ {a} : lease = b => lease' = b
<1> DEFINE r == req[a]
<1>1. Local(a) /\ Typed /\ r \in Request
  BY DEF IInv, Typed
<1>2. r.pc \in {"save", "rsave"} /\ r.kind \in Saving \cup {"refresh", "delete", "purge"}
      /\ (r.pc = "rsave" => r.kind \in Saving \cup {"delete"})
  BY <1>1 DEF Wrote, Local, Placed, Kinds, Saving, Pulling, Leased
<1>3. \A b \in Actors \ {a} : req'[b] = req[b]
  BY <1>1 DEF Wrote, Typed
<1>4. Needs(r) \subseteq {"invites", "trash"} /\ ("invites" \notin Needs(r) => r.kind = "purge" /\ r.pc = "save")
  BY <1>2 DEF Needs, Saving
<1>5. stale' = [b \in Actors |-> IF b = a \/ req[b].pc = "idle" THEN {} ELSE stale[b] \cup Needs(r)]
  BY DEF Wrote, Written, Outdated
<1>6. stale' \in [Actors -> SUBSET {"invites", "trash"}]
  BY <1>1, <1>4, <1>5 DEF Typed
<1>7. \A b \in Actors \ {a} : Active(b) => stale'[b] = stale[b] \cup Needs(r)
  BY <1>5 DEF Active
<1>8. "invites" \in Needs(r) => Latest(a)
  BY DEF Wrote, Current, Latest
<1>9. CASE r.kind = "purge"
  <2>1. r.pc = "save"
    BY <1>2, <1>9 DEF Saving
  <2>2. Purges(a)
    BY <1>9, <2>1 DEF Purges, Wrote, Writes
  <2> QED
    BY <1>3, <1>6, <1>7, <2>2, BoundAssumption DEF Latest, Wrote
<1>10. CASE r.kind # "purge"
  <2>1. Latest(a) /\ "invites" \in Needs(r)
    BY <1>4, <1>8, <1>10
  <2>2. CASE r.kind = "delete" /\ r.pc = "save"
    <3> DEFINE t == [id |-> Fresh({u.id : u \in trash}), user |-> r.seen.user]
    <3>1. t \in Item
      <4> DEFINE f == [u \in trash |-> u.id]
      <4>1. IsFiniteSet(trash)
        BY <1>1 DEF Typed
      <4>2. IsFiniteSet({f[u] : u \in trash})
        BY <4>1, FiniteRange
      <4>3. {f[u] : u \in trash} = {u.id : u \in trash}
        OBVIOUS
      <4>4. Fresh({u.id : u \in trash}) \in Nat
        BY <4>2, <4>3, FreshIsNew
      <4>5. r.seen \in Invite
        BY <1>1, <2>2 DEF Local, Placed, Request
      <4> QED
        BY <4>4, <4>5 DEF Item, Invite
    <3>2. inv' = NoInvite /\ trash' = trash \cup {t}
      BY <2>2, Zenon DEF Wrote, Writes
    <3> HIDE DEF t
    <3>3. Deletes(a)
      BY <2>1, <2>2, <3>1, <3>2 DEF Deletes
    <3> QED
      BY <1>3, <1>6, <1>7, <2>1, <3>3, BoundAssumption DEF Latest, Wrote
  <2>3. CASE r.kind = "restore" /\ r.pc = "save"
    <3>1. inv' = r.mine /\ trash' = trash \ {r.item}
      BY <2>3 DEF Wrote, Writes
    <3>2. Restores(a)
      BY <2>1, <2>3, <3>1 DEF Restores
    <3> QED
      BY <1>3, <1>6, <1>7, <2>1, <3>2, BoundAssumption DEF Latest, Wrote
  <2>4. CASE r.pc = "rsave" \/ (r.pc = "save" /\ r.kind \in {"create", "update", "reset", "refresh"})
    <3>1. inv' = r.mine /\ trash' = trash
      BY <1>10, <2>4 DEF Wrote, Writes
    <3>2. Stores(a)
      BY <2>1, <2>4, <3>1 DEF Stores
    <3> QED
      BY <1>3, <1>6, <1>7, <2>1, <3>2, BoundAssumption DEF Latest, Wrote
  <2> QED
    BY <1>2, <1>10, <2>2, <2>3, <2>4 DEF Saving
<1> QED
  BY <1>9, <1>10

(* What a write finds and leaves. *)
LEMMA WriteFinds ==
    ASSUME IInv, NEW a \in Actors, req[a].pc \in {"save", "rsave"}
    PROVE  /\ Purges(a) \/ Deletes(a) \/ Restores(a) => lease = a
           /\ Deletes(a) => inv # NoInvite
           /\ Restores(a) \/ Stores(a) => inv' # NoInvite /\ inv' \in Invite /\ Storing(a)
           /\ Stores(a) => inv # NoInvite \/ (req[a].kind = "create" /\ req[a].pc = "save")
           /\ Purges(a) \/ Restores(a) => req[a].item \in trash
<1>1. Local(a) /\ req[a] \in Request
  BY DEF IInv, Typed
<1>2. Purges(a) \/ Deletes(a) \/ Restores(a) => lease = a
  BY <1>1 DEF Purges, Deletes, Restores, Local, Leasing, Active, Leased
<1>3. Deletes(a) => inv # NoInvite
  BY <1>1 DEF Deletes, Local, Deleting, Active
<1>4. Restores(a) \/ Stores(a) => inv' # NoInvite /\ inv' \in Invite /\ Storing(a)
  BY <1>1 DEF Restores, Stores, Local, Placed, Storing, Request, Saving, Pulling
<1>5. ASSUME Stores(a)
      PROVE  inv # NoInvite \/ (req[a].kind = "create" /\ req[a].pc = "save")
  <2>1. req[a].seen = inv
    BY <1>1, <1>5 DEF Stores, Local, Reading
  <2> QED
    BY <1>1, <1>5, <2>1 DEF Stores, Local, Placed
<1>6. Purges(a) \/ Restores(a) => req[a].item \in trash
  BY <1>1 DEF Purges, Restores, Local, Keeping
<1> QED
  BY <1>2, <1>3, <1>4, <1>5, <1>6

LEMMA WriteKeepsCalm ==
    ASSUME IInv, NEW a \in Actors, NEW p \in {"done", "rread", "check", "undo"}, Wrote(a, p)
    PROVE  /\ Typed'
           /\ \A b \in Actors : Local(b)'
           /\ ~reused' => Bins'
           /\ ~Storing(a)' /\ ~Leaving(a)'
           /\ p # "done" => req'[a].kind = req[a].kind /\ req'[a].pc = p /\ req'[a].mine = req[a].mine
<1>1. /\ Purges(a) \/ Deletes(a) \/ Restores(a) \/ Stores(a)
      /\ \A b \in Actors \ {a} : req'[b] = req[b] /\ (Active(b) /\ Latest(b)' => Latest(b))
      /\ ~Purges(a) => \A b \in Actors \ {a} : Active(b) => ~Latest(b)'
      /\ stale' \in [Actors -> SUBSET {"invites", "trash"}]
      /\ \A b \in Actors \ {a} : lease = b => lease' = b
  BY WriteKinds
<1>2. /\ Purges(a) \/ Deletes(a) \/ Restores(a) => lease = a
      /\ Deletes(a) => inv # NoInvite
      /\ Restores(a) \/ Stores(a) => inv' # NoInvite /\ inv' \in Invite /\ Storing(a)
      /\ Stores(a) => inv # NoInvite \/ (req[a].kind = "create" /\ req[a].pc = "save")
      /\ Purges(a) \/ Restores(a) => req[a].item \in trash
  BY WriteFinds DEF Wrote
<1>3. Local(a) /\ Typed
  BY DEF IInv
<1>4. p # "done" => /\ req'[a].kind = req[a].kind /\ req'[a].pc = p /\ req'[a].seen = req[a].seen
                    /\ req'[a].mine = req[a].mine /\ req'[a].item = req[a].item
  BY <1>3, ToIsRequest DEF Wrote, Typed, Places
<1>5. req' \in [Actors -> Request]
  <2>1. Blank \in Request
    BY DEF Blank, Request, Places
  <2>2. p # "done" => To(a, p) \in Request
    BY <1>3, ToIsRequest DEF Typed, Places
  <2> QED
    BY <1>3, <2>1, <2>2 DEF Wrote, Typed
<1>6. Typed'
  <2>1. inv' \in Invite \cup {NoInvite}
    BY <1>1, <1>2, <1>3 DEF Purges, Deletes, Typed
  <2>2. trash' \in SUBSET Item /\ IsFiniteSet(trash')
    <3>1. trash \in SUBSET Item /\ IsFiniteSet(trash)
      BY <1>3 DEF Typed
    <3>2. CASE Purges(a) \/ Restores(a)
      <4>1. trash' = trash \ {req[a].item}
        BY <3>2 DEF Purges, Restores
      <4> QED
        BY <3>1, <4>1, FS_RemoveElement
    <3>3. CASE Deletes(a)
      <4>1. PICK t \in Item : trash' = trash \cup {t}
        BY <3>3 DEF Deletes
      <4> QED
        BY <3>1, <4>1, FS_AddElement
    <3>4. CASE Stores(a)
      BY <3>1, <3>4 DEF Stores
    <3> QED
      BY <1>1, <3>2, <3>3, <3>4
  <2> QED
    BY <1>1, <1>3, <1>5, <2>1, <2>2 DEF Wrote, Typed
<1>7. Local(a)' /\ ~Storing(a)' /\ ~Leaving(a)' /\ Creating(a)'
  <2>1. CASE p = "done"
    <3>1. req'[a] = Blank
      BY <1>3, <2>1 DEF Wrote, Typed
    <3> QED
      BY <3>1, SMTT(30) DEF Blank, Local, Placed, Authored, Leasing, Active, Reading, Deleting, Keeping,
                            Storing, Leaving, Creating, Saving, Pulling
  <2>2. CASE p # "done"
    <3>1. lease' = lease /\ req[a].kind \in Saving /\ req[a].pc \in {"save", "rsave"}
          /\ (p = "check" => req[a].kind = "restore")
      BY <2>2 DEF Wrote
    <3>2. Placed(a)'
      BY <1>3, <1>4, <2>2, <3>1 DEF Local, Placed
    <3>3. Leasing(a)' /\ Deleting(a)'
      BY <1>3, <1>4, <2>2, <3>1 DEF Local, Leasing, Deleting, Active, Saving
    <3>4. Authored(a)' /\ Reading(a)' /\ Keeping(a)' /\ ~Storing(a)' /\ ~Leaving(a)' /\ Creating(a)'
      BY <1>4, <2>2 DEF Authored, Reading, Keeping, Storing, Leaving, Creating
    <3> QED
      BY <3>2, <3>3, <3>4 DEF Local
  <2> QED
    BY <2>1, <2>2
<1>8. ASSUME NEW b \in Actors \ {a}
      PROVE  Local(b)'
  <2>1. Local(b) /\ req'[b] = req[b]
    BY <1>1 DEF IInv
  <2>2. Placed(b)' /\ Authored(b)'
    BY <2>1 DEF Local, Placed, Authored
  <2>3. Leasing(b)'
    BY <1>1, <2>1 DEF Local, Leasing, Active
  <2>4. Reading(b)'
    BY <1>1, <2>1 DEF Local, Reading, Active, Purges
  <2>5. Deleting(b)'
    <3>1. Active(b) /\ req[b].kind = "delete" => lease = b
      BY <2>1 DEF Local, Leasing, Leased
    <3> QED
      BY <1>1, <1>2, <2>1, <3>1 DEF Local, Deleting, Active, Purges
  <2>6. Keeping(b)'
    <3>1. Active(b) /\ req[b].kind \in {"restore", "purge"} => lease = b
      BY <2>1 DEF Local, Leasing, Leased
    <3> QED
      BY <1>1, <1>2, <2>1, <3>1 DEF Local, Keeping, Active, Stores
  <2> QED
    BY <2>2, <2>3, <2>4, <2>5, <2>6 DEF Local
<1>9. ASSUME ~reused'
      PROVE  Bins'
  <2>1. Bins
    BY <1>9 DEF IInv, Wrote
  <2>2. CASE Purges(a)
    <3>1. \A b \in Actors : Creating(b)'
      BY <1>1, <1>7, <2>1, <2>2 DEF Bins, Creating, Purges, Active
    <3> QED
      BY <2>1, <2>2, <3>1 DEF Bins, Purges
  <2>3. CASE ~Purges(a)
    <3>1. \A b \in Actors : Creating(b)'
      BY <1>1, <1>7, <2>3 DEF Creating, Active
    <3>2. CASE Deletes(a)
      <4>1. trash = {}
        BY <1>2, <2>1, <3>2 DEF Bins
      <4> QED
        BY <3>1, <3>2, <4>1 DEF Bins, Deletes
    <3>3. CASE Restores(a)
      <4>1. trash' = {}
        BY <1>2, <2>1, <3>3 DEF Bins, Restores
      <4> QED
        BY <3>1, <4>1 DEF Bins
    <3>4. CASE Stores(a)
      <4>1. trash = {}
        BY <1>2, <2>1, <3>4 DEF Bins, Stores, Creating
      <4> QED
        BY <3>1, <3>4, <4>1 DEF Bins, Stores
    <3> QED
      BY <1>1, <2>3, <3>2, <3>3, <3>4
  <2> QED
    BY <2>2, <2>3
<1> QED
  BY <1>4, <1>6, <1>7, <1>8, <1>9

(* A request that has changed the account is not done by another one's write:  *)
(* none stores an invite that says this one created it.                      *)
LEMMA WriteLeavesDirty ==
    ASSUME IInv, NEW a \in Actors, NEW p \in {"done", "rread", "check", "undo"}, Wrote(a, p),
           NEW b \in Actors \ {a}, Dirty(b)
    PROVE  Dirty(b)'
<1>1. /\ Purges(a) \/ Deletes(a) \/ Restores(a) \/ Stores(a)
      /\ req'[b] = req[b]
  BY WriteKinds
<1>2. SUFFICES ASSUME Restored(b)'
               PROVE  FALSE
  BY <1>1 DEF Dirty
<1>3. req[b].pc = "check" /\ ~Restored(b) /\ inv' # NoInvite /\ inv'.by = b
  BY <1>1, <1>2 DEF Restored, Dirty
<1>4. req[b].kind = "restore" /\ lease = b
  BY <1>3 DEF IInv, Local, Placed, Leasing, Active, Leased
<1>5. Stores(a)
  BY <1>1, <1>3, <1>4, WriteFinds DEF Purges, Deletes, Wrote, Restored
<1>6. Local(a) /\ req[a].kind # "delete" /\ req[a].kind # "restore"
  BY <1>4, <1>5 DEF IInv, Local, Leasing, Active, Leased, Stores
<1>7. req[a].kind \in Saving \cup Pulling /\ req[a].seen = inv
  BY <1>5, <1>6 DEF Stores, Local, Placed, Reading, Saving, Pulling
<1>8. req[a].mine.by = b
  BY <1>3, <1>5 DEF Stores
<1>9. ~(req[a].pc = "save" /\ req[a].kind = "create")
  BY <1>6, <1>7, <1>8 DEF Local, Authored
<1>10. inv # NoInvite /\ inv.by = b
  BY <1>5, <1>6, <1>7, <1>8, <1>9 DEF Local, Authored, Placed, Stores
<1> QED
  BY <1>3, <1>10 DEF Restored

LEMMA WriteKeepsOwned ==
    ASSUME IInv, NEW a \in Actors, NEW p \in {"done", "rread", "check", "undo"}, Wrote(a, p), Good'
    PROVE  Owned'
<1>1. /\ Purges(a) \/ Deletes(a) \/ Restores(a) \/ Stores(a)
      /\ \A b \in Actors \ {a} : req'[b] = req[b] /\ (Active(b) /\ Latest(b)' => Latest(b))
      /\ ~Purges(a) => \A b \in Actors \ {a} : Active(b) => ~Latest(b)'
  BY WriteKinds
<1>2. Good /\ Owned /\ p # "undo" /\ db' = db
  BY DEF Wrote, IInv
<1>3. \A m \in late' : m.act = "status"
  BY <1>2 DEF Wrote, Owned
<1>4. \A b \in Actors \ {a} : Dirty(b) => Dirty(b)'
  BY WriteLeavesDirty
<1>5. ~Storing(a)' /\ ~Leaving(a)'
  BY WriteKeepsCalm
<1>6. Purges(a) => ~Dirty(a)
  BY DEF Purges, Dirty, Saving
<1>7. Settled'
  <2> SUFFICES ASSUME \A b \in Actors : ~Dirty(b)'
               PROVE  Matches(db, inv')
    BY <1>2 DEF Settled
  <2>1. \A b \in Actors \ {a} : ~Dirty(b)
    BY <1>4
  <2>2. CASE Purges(a)
    <3>1. Matches(db, inv)
      BY <1>2, <1>6, <2>1, <2>2 DEF Owned, Settled
    <3> QED
      BY <2>2, <3>1 DEF Purges
  <2>3. CASE Deletes(a)
    <3>1. Leaving(a)
      BY <2>3 DEF Deletes, Leaving
    <3>2. \A b \in Actors : ~Provisioning(b)
      BY <2>1, <2>3 DEF Provisioning, Deletes, Saving
    <3>3. Off(db)
      BY <1>2, <3>1, <3>2 DEF Owned, UpHasCause
    <3> QED
      BY <2>3, <3>3 DEF Deletes, Matches
  <2>4. CASE Restores(a) \/ Stores(a)
    <3>1. Storing(a) /\ Latest(a) /\ inv' = req[a].mine
      BY <2>4, WriteFinds DEF Wrote, Restores, Stores
    <3>2. Matches(db, req[a].mine)
      BY <1>2, <2>1, <3>1 DEF Owned, CopyMatches
    <3> QED
      BY <3>1, <3>2
  <2> QED
    BY <1>1, <2>2, <2>3, <2>4
<1>8. ASSUME NEW b \in Actors
      PROVE  CopyMatches(b)'
  <2>1. CASE b = a
    BY <1>5, <2>1 DEF CopyMatches
  <2>2. CASE b # a
    <3> SUFFICES ASSUME Storing(b)', Latest(b)', \A c \in Actors \ {b} : ~Dirty(c)'
                 PROVE  Matches(db', req'[b].mine)
      BY DEF CopyMatches
    <3>1. Storing(b) /\ Latest(b) /\ req'[b] = req[b] /\ Purges(a)
      BY <1>1, <2>2 DEF Storing, Active
    <3>2. \A c \in Actors \ {b} : ~Dirty(c)
      BY <1>4, <1>6, <3>1
    <3> QED
      BY <1>2, <3>1, <3>2 DEF Owned, CopyMatches
  <2> QED
    BY <2>1, <2>2
<1>9. UpHasCause'
  <2> SUFFICES ASSUME ~Off(db), inv' = NoInvite \/ \E b \in Actors : Leaving(b)'
               PROVE  \E b \in Actors : Provisioning(b)'
    BY <1>2 DEF UpHasCause
  <2>1. ASSUME NEW b \in Actors, Leaving(b)'
        PROVE  Leaving(b) /\ Purges(a)
    <3>1. b # a
      BY <1>5, <2>1
    <3>2. req'[b] = req[b] /\ Active(b) /\ Latest(b)'
      BY <1>1, <2>1, <3>1 DEF Leaving, Active
    <3> QED
      BY <1>1, <2>1, <3>1, <3>2 DEF Leaving
  <2>2. Purges(a) \/ Deletes(a)
    BY <1>1, <2>1, WriteFinds DEF Wrote
  <2>3. inv = NoInvite \/ \E b \in Actors : Leaving(b)
    BY <2>1, <2>2 DEF Purges, Deletes, Leaving
  <2>4. PICK b \in Actors : Provisioning(b)
    BY <1>2, <2>3 DEF Owned, UpHasCause
  <2>5. b # a
    BY <2>2, <2>4 DEF Provisioning, Purges, Deletes, Saving
  <2>6. Provisioning(b)'
    BY <1>1, <1>2, <1>4, <2>4, <2>5 DEF Provisioning
  <2> QED
    BY <2>6
<1> QED
  BY <1>3, <1>7, <1>8, <1>9 DEF Owned

LEMMA SavesStep ==
    ASSUME IInv, NEW a \in Actors, Saves(a)
    PROVE  IInv'
<1>1. Wrote(a, "done")
  BY DEF Saves, Wrote, past, bounds, Good
<1>2. Typed' /\ (\A b \in Actors : Local(b)') /\ (~reused' => Bins')
  BY <1>1, WriteKeepsCalm
<1>3. Good' => Owned'
  BY <1>1, WriteKeepsOwned
<1> QED
  BY <1>2, <1>3 DEF IInv

LEMMA SaveFailsStep ==
    ASSUME IInv, NEW a \in Actors, SaveFails(a)
    PROVE  IInv'
<1> DEFINE r == req[a]
           p == CASE r.kind = "restore" /\ r.pc = "save"  -> "check"
                  [] r.kind = "restore" /\ r.pc = "rsave" -> "undo"
                  [] r.kind \in Saving /\ r.pc = "save"   -> "rread"
                  [] OTHER                                -> "done"
<1>1. /\ r.pc \in {"save", "rsave"} /\ Current(a)
      /\ req' = [req EXCEPT ![a] = IF p = "done" THEN Blank ELSE To(a, p)]
      /\ lease' = (IF p = "done" /\ lease = a THEN Free ELSE lease)
      /\ Breaks("save", p = "undo" \/ (p = "done" /\ ~Harmless(r)))
      /\ UNCHANGED <<db, late, reused, outside>>
  BY Zenon DEF SaveFails, Trouble
<1>2. /\ p \in {"done", "rread", "check", "undo"}
      /\ p # "done" => r.kind \in Saving
      /\ p = "check" => r.kind = "restore" /\ r.pc = "save"
  BY <1>1 DEF Saving
<1> HIDE DEF p
<1>3. Good' => Good /\ p # "undo" /\ (p = "done" => ~Dirty(a))
  <2>1. Harmless(r) => ~Dirty(a)
    BY DEF Harmless, Dirty, Saving, Pulling
  <2> QED
    BY <1>1, <2>1 DEF Good, Breaks
<1>4. CASE Writes(a) /\ stale' = Written(a)
  <2>1. Wrote(a, p)
    BY <1>1, <1>2, <1>3, <1>4 DEF Wrote
  <2>2. Typed' /\ (\A b \in Actors : Local(b)') /\ (~reused' => Bins')
    BY <1>2, <2>1, WriteKeepsCalm
  <2>3. Good' => Owned'
    BY <1>2, <2>1, WriteKeepsOwned
  <2> QED
    BY <2>2, <2>3 DEF IInv
<1>5. CASE UNCHANGED <<inv, trash, stale>>
  <2>1. Others(a)
    BY <1>1, <1>5 DEF Others, IInv, Typed
  <2>2. StaysTyped
    <3>1. Blank \in Request
      BY DEF Blank, Request, Places
    <3>2. p # "done" => To(a, p) \in Request
      BY <1>2, ToIsRequest DEF IInv, Typed, Places
    <3> QED
      BY <1>1, <1>5, <3>1, <3>2 DEF StaysTyped, IInv, Typed
  <2>3. Good' => Good /\ (\A m \in late' : m.act = "status")
    BY <1>1, <1>3 DEF IInv, Owned
  <2>4. CASE p = "done"
    BY <1>1, <1>3, <1>5, <2>1, <2>2, <2>3, <2>4, RequestEnds
  <2>5. CASE p # "done"
    <3>1. p = "check" => inv = NoInvite
      <4> SUFFICES ASSUME r.kind = "restore", r.pc = "save"
                   PROVE  inv = NoInvite
        BY <1>2
      <4>1. Latest(a)
        BY <1>1 DEF Current, Needs, Latest
      <4> QED
        BY <4>1 DEF IInv, Local, Placed, Reading
    <3>2. req' = [req EXCEPT ![a] = To(a, p)] /\ lease' = lease
      BY <1>1, <2>5
    <3> QED
      BY <1>1, <1>2, <1>5, <2>1, <2>2, <2>3, <2>5, <3>1, <3>2, RequestTurnsBack
  <2> QED
    BY <2>4, <2>5
<1> QED
  BY <1>4, <1>5 DEF SaveFails

-----------------------------------------------------------------------------
(* The theorems. *)
LEMMA InitInv ==
    ASSUME Init
    PROVE  IInv
<1>1. req = [a \in Actors |-> Blank] /\ stale = [a \in Actors |-> {}] /\ trash = {} /\ late = {}
      /\ broken = {} /\ reused = FALSE /\ outside = 0
  BY DEF Init
<1>2. Blank \in Request
  BY DEF Blank, Request, Places
<1>3. Stored \in Invite /\ [id |-> 1, up |-> TRUE, pw |-> 1, keys |-> Keys] \in Row
  BY DEF Stored, Invite, Row
<1>4. inv \in Invite \cup {NoInvite} /\ db \in Row \cup {NoUser} /\ Matches(db, inv)
  <2>1. CASE inv = NoInvite /\ db = NoUser
    BY <2>1 DEF Matches, Off
  <2>2. CASE inv = Stored /\ db = [id |-> 1, up |-> TRUE, pw |-> 1, keys |-> Keys]
    BY <1>3, <2>2, NoneAssumption DEF Matches, Stored
  <2> QED
    BY <2>1, <2>2 DEF Init
<1>5. Typed
  BY <1>1, <1>2, <1>4, FS_EmptySet DEF Typed
<1>6. ASSUME NEW a \in Actors
      PROVE  Local(a) /\ Creating(a) /\ CopyMatches(a) /\ ~Leaving(a)
  <2>1. req[a] = Blank
    BY <1>1
  <2> QED
    BY <2>1, SMTT(30) DEF Blank, Local, Placed, Authored, Leasing, Active, Reading, Deleting, Keeping,
                          Creating, CopyMatches, Storing, Leaving, Saving, Pulling
<1>7. Bins
  BY <1>1, <1>6 DEF Bins
<1>8. Owned
  <2>1. UpHasCause
    BY <1>4, <1>6 DEF UpHasCause, Matches
  <2> QED
    BY <1>1, <1>4, <1>6, <2>1 DEF Owned, Settled
<1> QED
  BY <1>5, <1>6, <1>7, <1>8 DEF IInv

LEMMA StutterStep ==
    ASSUME IInv, UNCHANGED vars
    PROVE  IInv'
<1>1. UNCHANGED <<inv, trash, db, req, stale, lease, late, broken, reused, outside>>
  BY DEF vars, past, bounds
<1>2. Others(Free)
  BY <1>1 DEF Others
<1>3. StaysTyped
  BY <1>1 DEF StaysTyped, IInv, Typed
<1>4. Typed' /\ (\A b \in Actors : Local(b)') /\ (~reused' => Bins')
  BY <1>1, <1>2, <1>3, BoundAssumption, MoveKeepsCalm
<1>5. ASSUME Good'
      PROVE  Owned'
  <2>1. Good /\ (\A m \in late' : m.act = "status")
    BY <1>1, <1>5 DEF Good, IInv, Owned
  <2> QED
    BY <1>1, <1>2, <2>1, BoundAssumption, MoveKeepsOwned
<1> QED
  BY <1>4, <1>5 DEF IInv

(* The invariant holds of every behaviour: what the requests hold of the       *)
(* stored invite is so, however they overlap and fail.                        *)
LEMMA InvariantHolds ==
    Spec => []IInv
<1>1. Init => IInv
  BY InitInv
<1>2. IInv /\ [Next]_vars => IInv'
  <2> SUFFICES ASSUME IInv, [Next]_vars
               PROVE  IInv'
    OBVIOUS
  <2>1. ASSUME NEW a \in Actors, Step(a)
        PROVE  IInv'
    BY <2>1, CallsStep, ReadsTrashStep, SavesStep, ConflictsStep, ReadsAgainStep, ReappliesStep,
       ConflictsAgainStep, UndoesStep, ChecksStep DEF Step
  <2>2. ASSUME NEW a \in Actors, GoesWrong(a)
        PROVE  IInv'
    BY <2>2, CallFailsStep, SaveFailsStep, ReadFailsStep, DiesStep DEF GoesWrong
  <2>3. ASSUME NEW kind \in Kinds, Starts(kind)
        PROVE  IInv'
    BY <2>3, StartsStep
  <2>4. CASE LateCallEnds
    BY <2>4, LateCallEndsStep
  <2>5. CASE ChangesOutside
    BY <2>5, ChangesOutsideStep
  <2>6. CASE OthersSave
    BY <2>6, OthersSaveStep
  <2>7. CASE UNCHANGED vars
    BY <2>7, StutterStep
  <2> QED
    BY <2>1, <2>2, <2>3, <2>4, <2>5, <2>6, <2>7 DEF Next
<1> QED
  BY <1>1, <1>2, PTL DEF Spec

(* When no request runs, the stored invite and the account of Sub2API agree,   *)
(* password included, whoever lost a compare and swap and whatever save        *)
(* failed (createInvite, updateInvite, deleteInviteWithLease,                  *)
(* restoreInviteFromTrash and their compensation).                            *)
THEOREM QuietAgrees ==
    Spec => []QuietIsAgreed
<1>1. IInv => QuietIsAgreed
  <2> SUFFICES ASSUME IInv, Quiet
               PROVE  /\ IF inv = NoInvite
                         THEN db = NoUser \/ ~db.up
                         ELSE db # NoUser /\ db.up /\ db.id = inv.user /\ db.keys = inv.keys
                      /\ inv # NoInvite => db # NoUser /\ inv.pw = db.pw
    BY DEF QuietIsAgreed, QuietAgreement, QuietPassword
  <2>1. Owned
    BY DEF Quiet, IInv, Good
  <2>2. \A a \in Actors : ~Dirty(a)
    BY DEF Quiet, Dirty
  <2>3. Matches(db, inv)
    BY <2>1, <2>2 DEF Owned, Settled
  <2> QED
    BY <2>3 DEF Matches, Off
<1> QED
  BY <1>1, InvariantHolds, PTL

(* Only a purge removes the row, and while the UUID was not given out again     *)
(* the trash holds its item only when no invite is stored.                     *)
LEMMA StepSparesLive ==
    ASSUME IInv, [Next]_vars, db # NoUser, db' = NoUser, late' = late
    PROVE  inv = NoInvite \/ reused
<1> SUFFICES ASSUME ~reused
             PROVE  inv = NoInvite
  OBVIOUS
<1>1. db \in Row /\ db' # db /\ Typed
  BY DEF IInv, Typed
<1>2. ASSUME NEW a \in Actors, Calls(a)
      PROVE  inv = NoInvite
  <2>1. req[a].pc = "call" /\ Placed(a)
    BY <1>2 DEF Calls, IInv, Local
  <2>2. Resolves(Asked(req[a])) /\ db' = Served(Asked(req[a]))
    BY <1>1, <1>2 DEF Calls
  <2>3. req[a].kind \in Saving \cup {"refresh", "delete", "purge"}
    BY <2>1 DEF Placed, Kinds, Saving, Pulling, Leased
  <2>4. Asked(req[a]) \in CallMessage
    BY <1>1, <2>1, AskedIsMessage
  <2>5. req[a].kind \notin Saving
    BY <1>1, <2>1, <2>2, <2>4, BuiltIsInvite, ServedIsRow, NoneAssumption
  <2>6. req[a].kind = "purge"
    BY <1>1, <2>1, <2>2, <2>3, <2>5, BuiltIsInvite, NoneAssumption
  <2> QED
    BY <2>1, <2>6, PurgeMeetsNobody
<1>3. ASSUME NEW a \in Actors, Reapplies(a)
      PROVE  FALSE
  <2> DEFINE m == Reapplied(req[a].seen)
  <2>1. req[a].pc = "rcall" /\ Placed(a)
    BY <1>3 DEF Reapplies, IInv, Local
  <2>2. Resolves(m) /\ db' = Served(m)
    BY <1>1, <1>3 DEF Reapplies
  <2>3. m \in CallMessage /\ m.act = "provision"
    BY <1>1, <2>1, AskedIsMessage DEF Reapplied, Call
  <2> HIDE DEF m
  <2> QED
    BY <1>1, <2>2, <2>3, ServedIsRow, NoneAssumption
<1>4. ASSUME NEW a \in Actors, Undoes(a)
      PROVE  FALSE
  <2> DEFINE m == Call("deprovision", req[a].mine.user, 0, FALSE, {})
  <2>1. req[a].pc = "undo" /\ Placed(a)
    BY <1>4 DEF Undoes, IInv, Local
  <2>2. Resolves(m) /\ db' = Served(m)
    BY <1>1, <1>4 DEF Undoes
  <2>3. m \in CallMessage /\ m.act = "deprovision" /\ m.user # 0
    BY <1>1, <2>1, AskedIsMessage DEF Call
  <2> HIDE DEF m
  <2> QED
    BY <1>1, <2>2, <2>3, ServedIsRow, NoneAssumption
<1>5. ~LateCallEnds
  BY DEF LateCallEnds
<1>6. ~ChangesOutside
  <2> SUFFICES ASSUME ChangesOutside
               PROVE  FALSE
    OBVIOUS
  <2>1. NewPw \in Nat
    BY <1>1, NewIsNew
  <2>2. CASE db' = [db EXCEPT !.pw = NewPw]
    <3>1. db' \in Row
      BY <1>1, <2>1, <2>2 DEF Row
    <3> QED
      BY <3>1, NoneAssumption
  <2>3. ASSUME NEW keys \in SUBSET Keys, db' = [db EXCEPT !.keys = keys]
        PROVE  FALSE
    <3>1. db' \in Row
      BY <1>1, <2>3 DEF Row
    <3> QED
      BY <3>1, NoneAssumption
  <2> QED
    BY <2>2, <2>3 DEF ChangesOutside
<1>7. ASSUME NEW a \in Actors, Step(a)
      PROVE  inv = NoInvite
  BY <1>1, <1>2, <1>3, <1>4, <1>7
     DEF Step, ReadsTrash, Saves, Conflicts, ReadsAgain, ConflictsAgain, Checks
<1>8. ASSUME NEW a \in Actors, GoesWrong(a)
      PROVE  FALSE
  BY <1>1, <1>8 DEF GoesWrong, CallFails, SaveFails, ReadFails, Dies
<1>9. ASSUME NEW kind \in Kinds, Starts(kind)
      PROVE  FALSE
  BY <1>1, <1>9 DEF Starts, Begins
<1> QED
  BY <1>1, <1>5, <1>6, <1>7, <1>8, <1>9 DEF Next, OthersSave, vars

(* No request removes the account of a stored invite, unless the invite was    *)
(* created again while the trash held its UUID (purgeTrashItem under the       *)
(* record lease).                                                            *)
THEOREM PurgeSparesStored ==
    Spec => PurgeSparesLive
<1>1. IInv /\ [Next]_vars => [(db # NoUser /\ db' = NoUser /\ late' = late) => (inv = NoInvite \/ reused)]_vars
  BY StepSparesLive
<1> QED
  BY <1>1, InvariantHolds, PTL DEF Spec, PurgeSparesLive
=============================================================================
