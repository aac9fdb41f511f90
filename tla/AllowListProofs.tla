-------------------------- MODULE AllowListProofs --------------------------
(* Theorems about the IP allowlist, for any number of requests, scheduled     *)
(* runs, invites and networks, and under any number of failures: first that   *)
(* the record leases exclude each other, then what the store keeps.           *)
EXTENDS AllowList, FiniteSetTheorems, TLAPS

Fields == {"kind", "pc", "uuid", "hold"}

(* Requests are records; one that is about to claim knows its invite.         *)
Shaped ==
    /\ leases \in [Scopes -> Actors \cup {Nobody}]
    /\ DOMAIN req = Actors
    /\ \A r \in Actors :
          /\ Fields \subseteq DOMAIN req[r]
          /\ req[r].hold \subseteq Scopes
          /\ req[r].pc = "claim" => ScopeOf(r) \in Scopes

(* What a request holds is written in the object under its name, and whoever  *)
(* has the maintenance lease has every other lease there is.                 *)
HoldsItsLeases == \A r \in Actors : \A s \in req[r].hold : leases[s] = r

OneOwner ==
    \A s \in Scopes : (leases[All] # Nobody /\ leases[s] # Nobody) => leases[s] = leases[All]

(* The inductive invariant: it speaks of the object's rows too, as a claim    *)
(* looks at those and not at what the other requests believe.                *)
LeaseInv == Shaped /\ (~stray => HoldsItsLeases /\ OneOwner)

(* Two requests cannot be named by one row.                                   *)
LEMMA LeaseInvExcludes == LeaseInv => LeasesExclude
<1> SUFFICES ASSUME LeaseInv, ~stray, NEW r \in Actors, NEW q \in Actors, r # q
             PROVE  /\ req[r].hold \cap req[q].hold = {}
                    /\ All \in req[r].hold => req[q].hold = {}
  BY DEF LeasesExclude
<1>1. HoldsItsLeases /\ OneOwner /\ Shaped
  BY DEF LeaseInv
<1>2. req[r].hold \cap req[q].hold = {}
  BY <1>1 DEF HoldsItsLeases
<1>3. ASSUME All \in req[r].hold, NEW s \in req[q].hold PROVE FALSE
  <2>1. leases[All] = r /\ leases[s] = q /\ s \in Scopes
    BY <1>1, <1>3 DEF HoldsItsLeases, Shaped
  <2>2. r # Nobody /\ q # Nobody
    BY DistinctAssumption DEF Actors
  <2> QED BY <1>1, <2>1, <2>2 DEF OneOwner
<1> QED BY <1>2, <1>3

-----------------------------------------------------------------------------
(* A step of r that leaves the rows alone and gives r nothing to hold.        *)
Loosens(r) ==
    /\ DOMAIN req' = Actors
    /\ \A q \in Actors \ {r} : req'[q] = req[q]
    /\ Fields \subseteq DOMAIN req'[r]
    /\ req'[r].hold \subseteq req[r].hold
    /\ req'[r].pc # "claim"

(* Such a step keeps the shape, and what the others hold.                     *)
LEMMA ShapeKept ==
    ASSUME LeaseInv, NEW r \in Actors, Loosens(r), leases' = leases
    PROVE  Shaped'
<1> SUFFICES ASSUME NEW q \in Actors
             PROVE  /\ Fields \subseteq DOMAIN req'[q]
                    /\ req'[q].hold \subseteq Scopes
                    /\ req'[q].pc = "claim" => ScopeOf(q)' \in Scopes
  BY DEF LeaseInv, Shaped, Loosens
<1>1. CASE q = r
  BY <1>1 DEF LeaseInv, Shaped, Loosens
<1>2. CASE q # r
  <2>1. req'[q] = req[q]
    BY <1>2 DEF Loosens
  <2> QED BY <2>1 DEF LeaseInv, Shaped, ScopeOf
<1> QED BY <1>1, <1>2

LEMMA LeasesKept ==
    ASSUME LeaseInv, NEW r \in Actors, Loosens(r), leases' = leases, stray' = stray
    PROVE  LeaseInv'
<1>1. Shaped'
  BY ShapeKept
<1>2. ASSUME ~stray' PROVE HoldsItsLeases' /\ OneOwner'
  <2>1. HoldsItsLeases /\ OneOwner
    BY <1>2 DEF LeaseInv
  <2>2. ASSUME NEW q \in Actors, NEW s \in req'[q].hold PROVE leases'[s] = q
    <3>1. s \in req[q].hold
      BY <2>2 DEF Loosens
    <3> QED BY <2>1, <3>1 DEF HoldsItsLeases
  <2> QED BY <2>1, <2>2 DEF HoldsItsLeases, OneOwner
<1> QED BY <1>1, <1>2 DEF LeaseInv

(* What a request becomes when it ends still is a record. *)
LEMMA EndsLoosen ==
    ASSUME LeaseInv, NEW r \in Actors, NEW outcome
    PROVE  /\ Fields \subseteq DOMAIN Ending(r, outcome) /\ Fields \subseteq DOMAIN Finished(r, outcome)
           /\ Ending(r, outcome).hold = req[r].hold /\ Finished(r, outcome).hold = {}
           /\ Ending(r, outcome).pc # "claim" /\ Finished(r, outcome).pc # "claim"
BY DEF Ending, Finished, Blank, Fields

-----------------------------------------------------------------------------
(* The way on after a marker, and the release of one lease.                   *)
LEMMA AfterMarkerLoosens ==
    ASSUME LeaseInv, NEW r \in Actors, NEW m
    PROVE  /\ Fields \subseteq DOMAIN AfterMarker(r, m)
           /\ AfterMarker(r, m).hold = req[r].hold
           /\ AfterMarker(r, m).pc # "claim"
<1>1. Fields \subseteq DOMAIN req[r]
  BY DEF LeaseInv, Shaped
<1> QED BY <1>1, EndsLoosen DEF AfterMarker, Fields

LEMMA WithoutLeaseLoosens ==
    ASSUME LeaseInv, NEW r \in Actors, NEW s
    PROVE  /\ Fields \subseteq DOMAIN WithoutLease(r, s)
           /\ WithoutLease(r, s).hold \subseteq req[r].hold \ {s}
           /\ req[r].pc = "release" => WithoutLease(r, s).pc # "claim"
<1>1. Fields \subseteq DOMAIN req[r]
  BY DEF LeaseInv, Shaped
<1>2. CASE req[r].hold = {s}
  BY <1>2, EndsLoosen DEF WithoutLease
<1>3. CASE req[r].hold # {s}
  BY <1>1, <1>3 DEF WithoutLease, Fields
<1> QED BY <1>2, <1>3

(* The same of a request that drops one of its leases.                        *)
LEMMA ReleaseFailsLoosens ==
    ASSUME LeaseInv, NEW r \in Actors, ReleaseFails(r)
    PROVE  Loosens(r)
<1>1. req[r].pc = "release" /\ DOMAIN req = Actors
  BY DEF ReleaseFails, LeaseInv, Shaped
<1>2. PICK s \in req[r].hold : req' = [req EXCEPT ![r] = WithoutLease(r, s)]
  BY DEF ReleaseFails
<1>3. WithoutLease(r, s).pc # "claim"
  BY <1>1, WithoutLeaseLoosens
<1> QED BY <1>1, <1>2, <1>3, WithoutLeaseLoosens DEF Loosens

-----------------------------------------------------------------------------
(* The actions that change leases, or are about to.                           *)
LEMMA StartsKeeps ==
    ASSUME LeaseInv, NEW r \in Actors, Starts(r)
    PROVE  LeaseInv'
<1>1. PICK kind \in Kinds, u \in Invites, gid \in Names, S \in SUBSET Networks :
          /\ CASE kind = "add" -> S # {} /\ gid = u
               [] kind \in {"extend", "delete"} ->
                     S = {} /\ \E i \in DOMAIN records[u] : records[u][i].id = gid
               [] OTHER -> S = {} /\ \E b \in trash : b.id = gid /\ b.uuid = u
          /\ req' = [req EXCEPT ![r] = [Blank EXCEPT !.kind = kind, !.pc = "claim", !.uuid = u,
                                                     !.gid = gid, !.ips = S]]
  BY DEF Starts
<1>2. /\ DOMAIN req' = Actors
      /\ \A q \in Actors \ {r} : req'[q] = req[q]
      /\ Fields \subseteq DOMAIN req'[r]
      /\ req'[r].hold = {} /\ req'[r].uuid \in Invites
  BY <1>1 DEF Blank, Fields, LeaseInv, Shaped
<1>3. ScopeOf(r)' \in Scopes
  BY <1>2 DEF ScopeOf, Scopes
<1> QED BY <1>2, <1>3 DEF Starts, bounds, limits, LeaseInv, Shaped, ScopeOf, HoldsItsLeases, OneOwner

LEMMA CronStartsKeeps ==
    ASSUME LeaseInv, NEW r \in Actors, CronStarts(r)
    PROVE  LeaseInv'
<1>1. req' = [req EXCEPT ![r] = [Blank EXCEPT !.kind = "cleanup", !.pc = "claim", !.now = past]]
  BY DEF CronStarts
<1>2. /\ DOMAIN req' = Actors
      /\ \A q \in Actors \ {r} : req'[q] = req[q]
      /\ Fields \subseteq DOMAIN req'[r]
      /\ req'[r].hold = {} /\ req'[r].kind = "cleanup"
  BY <1>1 DEF Blank, Fields, LeaseInv, Shaped
<1>3. ScopeOf(r)' \in Scopes
  BY <1>2 DEF ScopeOf, Scopes
<1> QED BY <1>2, <1>3 DEF CronStarts, bounds, limits, LeaseInv, Shaped, ScopeOf, HoldsItsLeases, OneOwner

(* A claim that is granted finds no other owner where it matters.             *)
Takes(r, s) ==
    /\ s \in Scopes
    /\ CanClaim(r, s)
    /\ leases' = [leases EXCEPT ![s] = r]
    /\ DOMAIN req' = Actors
    /\ \A q \in Actors \ {r} : req'[q] = req[q]
    /\ Fields \subseteq DOMAIN req'[r]
    /\ req'[r].hold \subseteq req[r].hold \cup {s}
    /\ req'[r].pc = "claim" => ScopeOf(r)' \in Scopes
    /\ stray' = stray

LEMMA TakenKeeps ==
    ASSUME LeaseInv, NEW r \in Actors, NEW s, Takes(r, s)
    PROVE  LeaseInv'
<1>1. r # Nobody /\ \A q \in Actors : q # Nobody
  BY DistinctAssumption DEF Actors
<1>2. s \in Scopes /\ All \in Scopes /\ leases \in [Scopes -> Actors \cup {Nobody}]
  BY DEF Takes, Scopes, LeaseInv, Shaped
<1>3. leases' \in [Scopes -> Actors \cup {Nobody}]
  BY <1>2 DEF Takes
<1>4. Shaped'
  <2> SUFFICES ASSUME NEW q \in Actors
               PROVE  /\ Fields \subseteq DOMAIN req'[q]
                      /\ req'[q].hold \subseteq Scopes
                      /\ req'[q].pc = "claim" => ScopeOf(q)' \in Scopes
    BY <1>3 DEF Shaped, Takes
  <2>1. CASE q = r
    BY <2>1 DEF LeaseInv, Shaped, Takes
  <2>2. CASE q # r
    <3>1. req'[q] = req[q]
      BY <2>2 DEF Takes
    <3> QED BY <3>1 DEF LeaseInv, Shaped, ScopeOf
  <2> QED BY <2>1, <2>2
<1>5. ASSUME ~stray' PROVE HoldsItsLeases' /\ OneOwner'
  <2>1. HoldsItsLeases /\ OneOwner
    BY <1>5 DEF LeaseInv, Takes
  <2>2. leases[s] \in {Nobody, r} /\ leases[All] \in {Nobody, r}
    BY <1>2 DEF Takes, CanClaim
  <2>3. \A t \in Scopes : leases'[t] = IF t = s THEN r ELSE leases[t]
    BY <1>2 DEF Takes
  <2>4. HoldsItsLeases'
    <3> SUFFICES ASSUME NEW q \in Actors, NEW t \in req'[q].hold PROVE leases'[t] = q
      BY DEF HoldsItsLeases
    <3>1. t \in Scopes
      BY <1>4 DEF Shaped
    <3>2. CASE q = r
      BY <1>1, <2>1, <2>3, <3>1, <3>2 DEF Takes, HoldsItsLeases
    <3>3. CASE q # r
      <4>1. t \in req[q].hold
        BY <3>3 DEF Takes
      <4>2. leases[t] = q
        BY <2>1, <4>1 DEF HoldsItsLeases
      <4> QED BY <1>1, <2>2, <2>3, <3>1, <3>3, <4>2
    <3> QED BY <3>2, <3>3
  <2>5. OneOwner'
    <3> SUFFICES ASSUME NEW t \in Scopes, leases'[All] # Nobody, leases'[t] # Nobody
                 PROVE  leases'[t] = leases'[All]
      BY DEF OneOwner
    <3>1. CASE s = All
      <4>1. leases[t] \in {Nobody, r}
        BY <3>1 DEF Takes, CanClaim
      <4> QED BY <1>2, <2>3, <3>1, <4>1
    <3>2. CASE s # All
      <4>1. leases'[All] = leases[All] /\ leases[All] = r
        BY <1>2, <2>2, <2>3, <3>2
      <4> QED BY <1>1, <2>1, <2>3, <4>1 DEF OneOwner
    <3> QED BY <3>1, <3>2
  <2> QED BY <2>4, <2>5
<1> QED BY <1>4, <1>5 DEF LeaseInv

(* What r gives back was its own, so nobody else counts on the row.            *)
LEMMA ReleasesKeeps ==
    ASSUME LeaseInv, NEW r \in Actors, Releases(r)
    PROVE  LeaseInv'
<1> DEFINE s == IF All \in req[r].hold THEN All ELSE CHOOSE x \in req[r].hold : TRUE
<1>1. /\ req[r].pc = "release"
      /\ leases' = [leases EXCEPT ![s] = IF leases[s] = r THEN Nobody ELSE leases[s]]
      /\ req' = [req EXCEPT ![r] = WithoutLease(r, s)]
      /\ stray' = stray
  BY DEF Releases, bounds, limits
<1> HIDE DEF s
<1>2. DOMAIN req = Actors /\ leases \in [Scopes -> Actors \cup {Nobody}]
  BY DEF LeaseInv, Shaped
<1>3. Loosens(r) /\ req'[r].hold \subseteq req[r].hold \ {s}
  BY <1>1, <1>2, WithoutLeaseLoosens DEF Loosens
<1>4. \A t \in Scopes : leases'[t] = leases[t] \/ (t = s /\ leases[t] = r /\ leases'[t] = Nobody)
  BY <1>1, <1>2
<1>5. leases' \in [Scopes -> Actors \cup {Nobody}]
  BY <1>1, <1>2
<1>6. Shaped'
  <2> SUFFICES ASSUME NEW q \in Actors
               PROVE  /\ Fields \subseteq DOMAIN req'[q]
                      /\ req'[q].hold \subseteq Scopes
                      /\ req'[q].pc = "claim" => ScopeOf(q)' \in Scopes
    BY <1>3, <1>5 DEF Shaped, Loosens
  <2>1. CASE q = r
    BY <1>3, <2>1 DEF LeaseInv, Shaped, Loosens
  <2>2. CASE q # r
    <3>1. req'[q] = req[q]
      BY <1>3, <2>2 DEF Loosens
    <3> QED BY <3>1 DEF LeaseInv, Shaped, ScopeOf
  <2> QED BY <2>1, <2>2
<1>7. ASSUME ~stray' PROVE HoldsItsLeases' /\ OneOwner'
  <2>1. HoldsItsLeases /\ OneOwner
    BY <1>1, <1>7 DEF LeaseInv
  <2>2. ASSUME NEW q \in Actors, NEW t \in req'[q].hold PROVE leases'[t] = q
    <3>1. t \in Scopes
      BY <1>6, <2>2 DEF Shaped
    <3>2. t \in req[q].hold /\ (q = r => t # s)
      BY <1>3, <2>2 DEF Loosens
    <3>3. leases[t] = q
      BY <2>1, <3>2 DEF HoldsItsLeases
    <3> QED BY <1>4, <3>1, <3>2, <3>3
  <2>3. OneOwner'
    BY <1>4, <2>1 DEF OneOwner, Scopes
  <2> QED BY <2>2, <2>3 DEF HoldsItsLeases
<1> QED BY <1>6, <1>7 DEF LeaseInv

(* A row that runs out under its holder makes the state stray.                *)
LEMMA ExpiryKeeps ==
    ASSUME LeaseInv, NEW s \in Scopes, LeaseExpires(s)
    PROVE  LeaseInv'
<1>1. /\ leases' = [leases EXCEPT ![s] = Nobody]
      /\ req' = req
      /\ leases \in [Scopes -> Actors \cup {Nobody}]
  BY DEF LeaseExpires, LeaseInv, Shaped
<1>2. Shaped'
  BY <1>1 DEF LeaseInv, Shaped, ScopeOf
<1>3. ASSUME ~stray' PROVE HoldsItsLeases' /\ OneOwner'
  <2>1. s \notin req[leases[s]].hold /\ stray' = stray /\ leases[s] # Nobody
    BY <1>3 DEF LeaseExpires, bounds, limits
  <2>2. HoldsItsLeases /\ OneOwner
    BY <1>3, <2>1 DEF LeaseInv
  <2>3. ASSUME NEW q \in Actors, NEW t \in req[q].hold PROVE leases'[t] = q
    <3>1. leases[t] = q /\ t \in Scopes
      BY <2>2, <2>3 DEF HoldsItsLeases, LeaseInv, Shaped
    <3>2. t # s
      BY <2>1, <2>3, <3>1
    <3> QED BY <1>1, <3>1, <3>2
  <2>4. OneOwner'
    BY <1>1, <2>2 DEF OneOwner, Scopes
  <2> QED BY <1>1, <2>3, <2>4 DEF HoldsItsLeases
<1> QED BY <1>2, <1>3 DEF LeaseInv

(* A request claims its first lease, or the maintenance lease over it.        *)
LEMMA ClaimsKeeps ==
    ASSUME LeaseInv, NEW r \in Actors, Claims(r)
    PROVE  LeaseInv'
<1>1. DOMAIN req = Actors /\ Fields \subseteq DOMAIN req[r] /\ ScopeOf(r) \in Scopes
  BY DEF LeaseInv, Shaped, Claims
<1>2. CASE CanClaim(r, ScopeOf(r))
  <2>1. /\ leases' = [leases EXCEPT ![ScopeOf(r)] = r]
        /\ req' = [req EXCEPT ![r].pc = First(req[r].kind), ![r].hold = {ScopeOf(r)}]
        /\ stray' = stray
    BY <1>2 DEF Claims, bounds, limits
  <2>2. /\ DOMAIN req' = Actors
        /\ \A q \in Actors \ {r} : req'[q] = req[q]
        /\ DOMAIN req'[r] = DOMAIN req[r]
        /\ req'[r].hold = {ScopeOf(r)}
        /\ req'[r].kind = req[r].kind /\ req'[r].uuid = req[r].uuid
    BY <1>1, <2>1 DEF Fields
  <2>3. ScopeOf(r)' = ScopeOf(r)
    BY <2>2 DEF ScopeOf
  <2>4. Takes(r, ScopeOf(r))
    BY <1>1, <1>2, <2>1, <2>2, <2>3 DEF Takes
  <2> QED BY <2>4, TakenKeeps
<1>3. CASE ~CanClaim(r, ScopeOf(r))
  <2>1. req' = [req EXCEPT ![r] = Finished(r, "busy")] /\ leases' = leases /\ stray' = stray
    BY <1>3 DEF Claims, bounds, limits
  <2>2. Loosens(r)
    BY <1>1, <2>1, EndsLoosen DEF Loosens
  <2> QED BY <2>1, <2>2, LeasesKept
<1> QED BY <1>2, <1>3

LEMMA UpgradesKeeps ==
    ASSUME LeaseInv, NEW r \in Actors, Upgrades(r)
    PROVE  LeaseInv'
<1>1. DOMAIN req = Actors /\ Fields \subseteq DOMAIN req[r] /\ All \in Scopes
  BY DEF LeaseInv, Shaped, Scopes
<1>2. CASE CanClaim(r, All)
  <2>1. /\ leases' = [leases EXCEPT ![All] = r]
        /\ req' = [req EXCEPT ![r].pc = "marker", ![r].hold = req[r].hold \cup {All}]
        /\ stray' = stray
    BY <1>2 DEF Upgrades, bounds, limits
  <2>2. /\ DOMAIN req' = Actors
        /\ \A q \in Actors \ {r} : req'[q] = req[q]
        /\ DOMAIN req'[r] = DOMAIN req[r]
        /\ req'[r].hold = req[r].hold \cup {All}
        /\ req'[r].pc # "claim"
    BY <1>1, <2>1 DEF Fields
  <2>3. Takes(r, All)
    BY <1>1, <1>2, <2>1, <2>2 DEF Takes
  <2> QED BY <2>3, TakenKeeps
<1>3. CASE ~CanClaim(r, All)
  <2>1. req' = [req EXCEPT ![r] = Ending(r, "failed")] /\ leases' = leases /\ stray' = stray
    BY <1>3 DEF Upgrades, bounds, limits
  <2>2. Loosens(r)
    BY <1>1, <2>1, EndsLoosen DEF Loosens
  <2> QED BY <2>1, <2>2, LeasesKept
<1> QED BY <1>2, <1>3

(* The row is written and its owner does not know.                            *)
LEMMA ClaimReplyLostKeeps ==
    ASSUME LeaseInv, NEW r \in Actors, ClaimReplyLost(r)
    PROVE  LeaseInv'
<1>1. DOMAIN req = Actors /\ All \in Scopes /\ stray' = stray
  BY DEF LeaseInv, Shaped, Scopes, ClaimReplyLost
<1>2. CASE /\ req[r].pc = "claim" /\ CanClaim(r, ScopeOf(r))
           /\ leases' = [leases EXCEPT ![ScopeOf(r)] = r]
           /\ req' = [req EXCEPT ![r] = Finished(r, "failed")]
  <2>1. ScopeOf(r) \in Scopes
    BY <1>2 DEF LeaseInv, Shaped
  <2>2. Takes(r, ScopeOf(r))
    BY <1>1, <1>2, <2>1, EndsLoosen DEF Takes
  <2> QED BY <2>2, TakenKeeps
<1>3. CASE /\ req[r].pc = "upgrade" /\ CanClaim(r, All)
           /\ leases' = [leases EXCEPT ![All] = r]
           /\ req' = [req EXCEPT ![r] = Ending(r, "failed")]
  <2>1. Takes(r, All)
    BY <1>1, <1>3, EndsLoosen DEF Takes
  <2> QED BY <2>1, TakenKeeps
<1> QED BY <1>2, <1>3 DEF ClaimReplyLost

-----------------------------------------------------------------------------
(* Every step a request makes, and every way it fails, whatever its reads show *)
(* of the list (L) and of the records (kv).                                  *)
Moves(r, L, kv) ==
    \/ Claims(r) \/ Releases(r)
    \/ Registers(r) \/ Creates(r) \/ NotesItems(r) \/ PutsRecords(r) \/ Finalizes(r)
    \/ Upgrades(r) \/ ReadsMarker(r) \/ ClaimsMarkers(r) \/ DropsAbandoned(r) \/ Resolves(r)
    \/ ReadsTrash(r) \/ SavesTrash(r) \/ EmptiesTrash(r) \/ PutsUpdate(r) \/ ListsComments(r)
    \/ Looks(r, L, kv)

Falters(r, L) ==
    \/ ClaimReplyLost(r) \/ ReleaseFails(r) \/ ReadFails(r) \/ RegisterFails(r) \/ CreateFails(r)
    \/ PutFails(r) \/ FinalizeFails(r) \/ TrashFails(r) \/ CompensationFails(r)
    \/ DeleteFails(r, L)
    \/ CutOff(r)

Does(r, L, kv) == Starts(r) \/ CronStarts(r) \/ Moves(r, L, kv) \/ Falters(r, L)

(* Reads of the latest, or of an old copy.                                    *)
LEMMA EachDoes ==
    ASSUME NEW r \in Actors
    PROVE  /\ Starts(r) \/ CronStarts(r) \/ Steps(r) \/ Fails(r) => Does(r, list, records)
           /\ ReadsOld(r) =>
                 \E old \in shown : \E L \in {list, old.list}, S \in SUBSET Invites :
                    Does(r, L, [u \in Invites |-> IF u \in S THEN old.records[u] ELSE records[u]])
<1>1. Steps(r) => Moves(r, list, records)
  BY DEF Steps, Moves
<1>2. Fails(r) => Falters(r, list)
  BY DEF Fails, Falters
<1>3. ASSUME ReadsOld(r)
      PROVE  \E old \in shown : \E L \in {list, old.list}, S \in SUBSET Invites :
                Does(r, L, [u \in Invites |-> IF u \in S THEN old.records[u] ELSE records[u]])
  <2>1. PICK old \in shown : \E L \in {list, old.list}, S \in SUBSET Invites :
           LET kv == [u \in Invites |-> IF u \in S THEN old.records[u] ELSE records[u]]
           IN  Looks(r, L, kv) \/ DeleteFails(r, L)
    BY <1>3 DEF ReadsOld
  <2>2. PICK L \in {list, old.list}, S \in SUBSET Invites :
           LET kv == [u \in Invites |-> IF u \in S THEN old.records[u] ELSE records[u]]
           IN  Looks(r, L, kv) \/ DeleteFails(r, L)
    BY <2>1
  <2> QED BY <2>2 DEF Does, Moves, Falters
<1> QED BY <1>1, <1>2, <1>3 DEF Does

LEMMA StepsKeep ==
    ASSUME LeaseInv, NEW r \in Actors, NEW L, NEW kv, Moves(r, L, kv)
    PROVE  LeaseInv'
<1>1. CASE ListsItems(r, L)
  <2>1. Loosens(r)
    BY <1>1, EndsLoosen DEF ListsItems, Loosens, LeaseInv, Shaped, Fields
  <2>2. leases' = leases /\ stray' = stray
    BY <1>1 DEF ListsItems, bounds, limits
  <2> QED BY <2>1, <2>2, LeasesKept
<1>2. CASE Registers(r)
  <2>1. Loosens(r)
    BY <1>2, EndsLoosen DEF Registers, Loosens, LeaseInv, Shaped, Fields
  <2>2. leases' = leases /\ stray' = stray
    BY <1>2 DEF Registers, bounds, limits
  <2> QED BY <2>1, <2>2, LeasesKept
<1>3. CASE Creates(r)
  <2>1. Loosens(r)
    BY <1>3, EndsLoosen DEF Creates, Loosens, LeaseInv, Shaped, Fields
  <2>2. leases' = leases /\ stray' = stray
    BY <1>3 DEF Creates, bounds, limits
  <2> QED BY <2>1, <2>2, LeasesKept
<1>4. CASE Relists(r, L)
  <2>1. Loosens(r)
    BY <1>4, EndsLoosen DEF Relists, Loosens, LeaseInv, Shaped, Fields
  <2>2. leases' = leases /\ stray' = stray
    BY <1>4 DEF Relists, bounds, limits
  <2> QED BY <2>1, <2>2, LeasesKept
<1>5. CASE NotesItems(r)
  <2>1. Loosens(r)
    BY <1>5, EndsLoosen DEF NotesItems, Loosens, LeaseInv, Shaped, Fields
  <2>2. leases' = leases /\ stray' = stray
    BY <1>5 DEF NotesItems, bounds, limits
  <2> QED BY <2>1, <2>2, LeasesKept
<1>6. CASE ReadsRecords(r, kv)
  <2>1. Loosens(r)
    BY <1>6, EndsLoosen DEF ReadsRecords, Loosens, LeaseInv, Shaped, Fields
  <2>2. leases' = leases /\ stray' = stray
    BY <1>6 DEF ReadsRecords, bounds, limits
  <2> QED BY <2>1, <2>2, LeasesKept
<1>7. CASE PutsRecords(r)
  <2>1. Loosens(r)
    BY <1>7, EndsLoosen DEF PutsRecords, Loosens, LeaseInv, Shaped, Fields
  <2>2. leases' = leases /\ stray' = stray
    BY <1>7 DEF PutsRecords, bounds, limits
  <2> QED BY <2>1, <2>2, LeasesKept
<1>8. CASE Finalizes(r)
  <2>1. Loosens(r)
    BY <1>8, EndsLoosen DEF Finalizes, Loosens, LeaseInv, Shaped, Fields
  <2>2. leases' = leases /\ stray' = stray
    BY <1>8 DEF Finalizes, bounds, limits
  <2> QED BY <2>1, <2>2, LeasesKept
<1>9. CASE ReadsMarker(r)
  <2>1. Loosens(r)
    BY <1>9, EndsLoosen DEF ReadsMarker, Loosens, LeaseInv, Shaped, Fields
  <2>2. leases' = leases /\ stray' = stray
    BY <1>9 DEF ReadsMarker, bounds, limits
  <2> QED BY <2>1, <2>2, LeasesKept
<1>10. CASE ClaimsMarkers(r)
  <2>1. Loosens(r)
    BY <1>10, EndsLoosen DEF ClaimsMarkers, Loosens, LeaseInv, Shaped, Fields
  <2>2. leases' = leases /\ stray' = stray
    BY <1>10 DEF ClaimsMarkers, bounds, limits
  <2> QED BY <2>1, <2>2, LeasesKept
<1>11. CASE FindsCandidates(r, L)
  <2>1. Loosens(r)
    BY <1>11, AfterMarkerLoosens DEF FindsCandidates, Loosens, LeaseInv, Shaped, Fields
  <2>2. leases' = leases /\ stray' = stray
    BY <1>11 DEF FindsCandidates, bounds, limits
  <2> QED BY <2>1, <2>2, LeasesKept
<1>12. CASE ReadsReferences(r, kv)
  <2>1. Loosens(r)
    BY <1>12, EndsLoosen DEF ReadsReferences, Loosens, LeaseInv, Shaped, Fields
  <2>2. leases' = leases /\ stray' = stray
    BY <1>12 DEF ReadsReferences, bounds, limits
  <2> QED BY <2>1, <2>2, LeasesKept
<1>13. CASE DropsAbandoned(r)
  <2>1. Loosens(r)
    BY <1>13, EndsLoosen DEF DropsAbandoned, Loosens, LeaseInv, Shaped, Fields
  <2>2. leases' = leases /\ stray' = stray
    BY <1>13 DEF DropsAbandoned, bounds, limits
  <2> QED BY <2>1, <2>2, LeasesKept
<1>14. CASE Resolves(r)
  <2>1. Loosens(r)
    BY <1>14, AfterMarkerLoosens DEF Resolves, Loosens, LeaseInv, Shaped, Fields
  <2>2. leases' = leases /\ stray' = stray
    BY <1>14 DEF Resolves, bounds, limits
  <2> QED BY <2>1, <2>2, LeasesKept
<1>15. CASE ReadsProtected(r, kv)
  <2>1. Loosens(r)
    BY <1>15, EndsLoosen DEF ReadsProtected, Loosens, LeaseInv, Shaped, Fields
  <2>2. leases' = leases /\ stray' = stray
    BY <1>15 DEF ReadsProtected, bounds, limits
  <2> QED BY <2>1, <2>2, LeasesKept
<1>16. CASE RemovesNetworks(r, L)
  <2>1. Loosens(r)
    BY <1>16, EndsLoosen DEF RemovesNetworks, AfterRemoval, Loosens, LeaseInv, Shaped, Fields
  <2>2. leases' = leases /\ stray' = stray
    BY <1>16 DEF RemovesNetworks, bounds, limits
  <2> QED BY <2>1, <2>2, LeasesKept
<1>17. CASE ReadsTrash(r)
  <2>1. Loosens(r)
    BY <1>17, EndsLoosen DEF ReadsTrash, Loosens, LeaseInv, Shaped, Fields
  <2>2. leases' = leases /\ stray' = stray
    BY <1>17 DEF ReadsTrash, bounds, limits
  <2> QED BY <2>1, <2>2, LeasesKept
<1>18. CASE SavesTrash(r)
  <2>1. Loosens(r)
    BY <1>18, EndsLoosen DEF SavesTrash, Loosens, LeaseInv, Shaped, Fields
  <2>2. leases' = leases /\ stray' = stray
    BY <1>18 DEF SavesTrash, bounds, limits
  <2> QED BY <2>1, <2>2, LeasesKept
<1>19. CASE EmptiesTrash(r)
  <2>1. Loosens(r)
    BY <1>19, EndsLoosen DEF EmptiesTrash, Loosens, LeaseInv, Shaped, Fields
  <2>2. leases' = leases /\ stray' = stray
    BY <1>19 DEF EmptiesTrash, bounds, limits
  <2> QED BY <2>1, <2>2, LeasesKept
<1>20. CASE Scans(r, kv)
  <2>1. Loosens(r)
    BY <1>20, EndsLoosen DEF Scans, Loosens, LeaseInv, Shaped, Fields
  <2>2. leases' = leases /\ stray' = stray
    BY <1>20 DEF Scans, bounds, limits
  <2> QED BY <2>1, <2>2, LeasesKept
<1>21. CASE PutsUpdate(r)
  <2>1. Loosens(r)
    BY <1>21, EndsLoosen DEF PutsUpdate, Loosens, LeaseInv, Shaped, Fields
  <2>2. leases' = leases /\ stray' = stray
    BY <1>21 DEF PutsUpdate, bounds, limits
  <2> QED BY <2>1, <2>2, LeasesKept
<1>22. CASE ListsComments(r)
  <2>1. Loosens(r)
    BY <1>22, EndsLoosen DEF ListsComments, Loosens, LeaseInv, Shaped, Fields
  <2>2. leases' = leases /\ stray' = stray
    BY <1>22 DEF ListsComments, bounds, limits
  <2> QED BY <2>1, <2>2, LeasesKept
<1>23. CASE Surveys(r, kv)
  <2>1. Loosens(r)
    BY <1>23, EndsLoosen DEF Surveys, Loosens, LeaseInv, Shaped, Fields
  <2>2. leases' = leases /\ stray' = stray
    BY <1>23 DEF Surveys, bounds, limits
  <2> QED BY <2>1, <2>2, LeasesKept
<1>24. CASE Sweeps(r, L)
  <2>1. Loosens(r)
    BY <1>24, EndsLoosen DEF Sweeps, Loosens, LeaseInv, Shaped, Fields
  <2>2. leases' = leases /\ stray' = stray
    BY <1>24 DEF Sweeps, bounds, limits
  <2> QED BY <2>1, <2>2, LeasesKept
<1> QED BY <1>1, <1>2, <1>3, <1>4, <1>5, <1>6, <1>7, <1>8, <1>9, <1>10, <1>11, <1>12,
           <1>13, <1>14, <1>15, <1>16, <1>17, <1>18, <1>19, <1>20, <1>21, <1>22, <1>23, <1>24,
           ClaimsKeeps, ReleasesKeeps, UpgradesKeeps DEF Moves, Looks

LEMMA FailsKeep ==
    ASSUME LeaseInv, NEW r \in Actors, NEW L, Falters(r, L)
    PROVE  LeaseInv'
<1>1. CASE ReleaseFails(r)
  <2>1. Loosens(r)
    BY <1>1, ReleaseFailsLoosens
  <2>2. leases' = leases /\ stray' = stray
    BY <1>1 DEF ReleaseFails, bounds, limits
  <2> QED BY <2>1, <2>2, LeasesKept
<1>2. CASE ReadFails(r)
  <2>1. Loosens(r)
    BY <1>2, EndsLoosen DEF ReadFails, Loosens, LeaseInv, Shaped, Fields
  <2>2. leases' = leases /\ stray' = stray
    BY <1>2 DEF ReadFails, bounds, limits
  <2> QED BY <2>1, <2>2, LeasesKept
<1>3. CASE RegisterFails(r)
  <2>1. Loosens(r)
    BY <1>3, EndsLoosen DEF RegisterFails, Loosens, LeaseInv, Shaped, Fields
  <2>2. leases' = leases /\ stray' = stray
    BY <1>3 DEF RegisterFails, bounds, limits
  <2> QED BY <2>1, <2>2, LeasesKept
<1>4. CASE CreateFails(r)
  <2>1. Loosens(r)
    BY <1>4, EndsLoosen DEF CreateFails, Loosens, LeaseInv, Shaped, Fields
  <2>2. leases' = leases /\ stray' = stray
    BY <1>4 DEF CreateFails, bounds, limits
  <2> QED BY <2>1, <2>2, LeasesKept
<1>5. CASE PutFails(r)
  <2>1. Loosens(r)
    BY <1>5, EndsLoosen DEF PutFails, Loosens, LeaseInv, Shaped, Fields
  <2>2. leases' = leases /\ stray' = stray
    BY <1>5 DEF PutFails, bounds, limits
  <2> QED BY <2>1, <2>2, LeasesKept
<1>6. CASE FinalizeFails(r)
  <2>1. Loosens(r)
    BY <1>6, EndsLoosen DEF FinalizeFails, Loosens, LeaseInv, Shaped, Fields
  <2>2. leases' = leases /\ stray' = stray
    BY <1>6 DEF FinalizeFails, bounds, limits
  <2> QED BY <2>1, <2>2, LeasesKept
<1>7. CASE TrashFails(r)
  <2>1. Loosens(r)
    BY <1>7, EndsLoosen DEF TrashFails, Loosens, LeaseInv, Shaped, Fields
  <2>2. leases' = leases /\ stray' = stray
    BY <1>7 DEF TrashFails, bounds, limits
  <2> QED BY <2>1, <2>2, LeasesKept
<1>8. CASE CompensationFails(r)
  <2>1. Loosens(r)
    BY <1>8, AfterMarkerLoosens, EndsLoosen DEF CompensationFails, Loosens, LeaseInv, Shaped, Fields
  <2>2. leases' = leases /\ stray' = stray
    BY <1>8 DEF CompensationFails, bounds, limits
  <2> QED BY <2>1, <2>2, LeasesKept
<1>9. CASE DeleteFails(r, L)
  <2>1. Loosens(r)
    BY <1>9, AfterMarkerLoosens, EndsLoosen DEF DeleteFails, Loosens, LeaseInv, Shaped, Fields
  <2>2. leases' = leases /\ stray' = stray
    BY <1>9 DEF DeleteFails, bounds, limits
  <2> QED BY <2>1, <2>2, LeasesKept
<1>10. CASE CutOff(r)
  <2>1. Loosens(r)
    BY <1>10, EndsLoosen DEF CutOff, Loosens, LeaseInv, Shaped, Fields
  <2>2. leases' = leases /\ stray' = stray
    BY <1>10 DEF CutOff, bounds, limits
  <2> QED BY <2>1, <2>2, LeasesKept
<1> QED BY <1>1, <1>2, <1>3, <1>4, <1>5, <1>6, <1>7, <1>8, <1>9, <1>10, ClaimReplyLostKeeps
       DEF Falters

(* Steps that touch neither leases nor requests.                              *)
LEMMA OthersKeep ==
    ASSUME LeaseInv, UNCHANGED <<leases, req>>, stray => stray'
    PROVE  LeaseInv'
BY DEF LeaseInv, Shaped, ScopeOf, HoldsItsLeases, OneOwner

(* However requests and scheduled runs overlap, take a lease over, lose the   *)
(* reply of a claim or fail to release: as long as no call had its effect     *)
(* outside of its lease, no two of them work on one invite, and none beside   *)
(* the holder of the maintenance lease.                                      *)
THEOREM LeasesAlwaysExclude == Spec => []LeasesExclude
<1>1. Init => LeaseInv
  <2> SUFFICES ASSUME Init PROVE LeaseInv
    OBVIOUS
  <2>1. leases = [s \in Scopes |-> Nobody] /\ req = [r \in Actors |-> Blank]
    BY DEF Init
  <2>2. Blank.hold = {} /\ Blank.pc # "claim" /\ Fields \subseteq DOMAIN Blank
    BY DEF Blank, Fields
  <2> QED BY <2>1, <2>2 DEF LeaseInv, Shaped, HoldsItsLeases, OneOwner, Scopes
<1>2. LeaseInv /\ [Next]_vars => LeaseInv'
  <2> SUFFICES ASSUME LeaseInv, [Next]_vars PROVE LeaseInv'
    OBVIOUS
  <2>1. ASSUME NEW r \in Actors, Starts(r) \/ CronStarts(r) \/ Steps(r) \/ Fails(r) \/ ReadsOld(r)
        PROVE  LeaseInv'
    <3>1. ASSUME NEW L, NEW kv, Does(r, L, kv) PROVE LeaseInv'
      BY <3>1, StartsKeeps, CronStartsKeeps, StepsKeep, FailsKeep DEF Does
    <3> QED BY <2>1, <3>1, EachDoes
  <2>2. ASSUME NEW o \in flight, Lands(o) PROVE LeaseInv'
    BY <2>2, OthersKeep DEF Lands
  <2>3. ASSUME NEW s \in Scopes, LeaseExpires(s) PROVE LeaseInv'
    BY <2>3, ExpiryKeeps
  <2>4. ASSUME NEW m \in DOMAIN ledger, MarkerIsDue(m) PROVE LeaseInv'
    BY <2>4, OthersKeep DEF MarkerIsDue, bounds, limits
  <2>5. ASSUME NEW d \in Names, DeadlinePasses(d) PROVE LeaseInv'
    BY <2>5, OthersKeep DEF DeadlinePasses, bounds, limits
  <2>6. CASE UNCHANGED vars
    BY <2>6, OthersKeep DEF vars, bounds, limits
  <2>7. CASE Lingers \/ CatchesUp
    BY <2>7, OthersKeep DEF Lingers, CatchesUp
  <2> QED BY <2>1, <2>2, <2>3, <2>4, <2>5, <2>6, <2>7 DEF Next
<1> QED BY <1>1, <1>2, LeaseInvExcludes, PTL DEF Spec

-----------------------------------------------------------------------------
(* What the record leases are for: that list, records, trash and ledger keep  *)
(* together.  Each request works on copies it read some calls ago; the        *)
(* invariant says of every place in a request what of its copies still is so, *)
(* as long as no call had its effect outside of its lease and it read nothing *)
(* old.                                                                      *)

Ids      == Requests \cup {Earlier, Foreign}
Pairs    == Networks \X Ids
Group    == [id : Names, ips : SUBSET Networks, until : Names]
Groups   == {s \in Seq(Group) : Len(s) <= MaxGroups}
Binned   == [id : Requests, uuid : Invites, group : Group]
Marker   == [values : SUBSET Networks, items : SUBSET Pairs, status : {"young", "due", "leased"}]
Records  == [Invites -> Groups]
Listings == UNION {[D -> [id : Ids, comment : Ids]] : D \in SUBSET Networks}
Markers  == UNION {[D -> Marker] : D \in SUBSET Requests}
Plans    == UNION {[D -> Groups] : D \in SUBSET Invites}
Flight   == [op : {"create", "delete"}, by : Actors, ips : SUBSET Networks, items : SUBSET Pairs]

(* The places of a request. *)
Waiting  == {"idle", "claim", "release", "done"}
Creating == {"list", "register", "create", "relist", "note"}
Moving   == {"read", "put", "finalize", "bin", "save", "protect", "remove", "empty", "upgrade", "marker"}
Settling == {"candidates", "references", "drop", "resolve"}
Cleaning == {"markers", "scan", "update", "comments", "survey", "sweep"}

Places   == Waiting \cup Creating \cup Moving \cup Settling \cup Cleaning

Work == [kind : {"none", "add", "extend", "delete", "restore", "purge", "cleanup"},
         pc : Places,
         uuid : Invites \cup {Nobody}, gid : Names \cup {Nobody},
         ips : SUBSET Networks, todo : SUBSET Networks, copy : Groups, bin : SUBSET Binned,
         keys : SUBSET Networks, found : SUBSET Pairs, mark : Requests \cup {Nobody},
         batch : Markers, plan : Plans, comments : SUBSET Requests, now : SUBSET Names,
         hold : SUBSET Scopes, outcome : {"none", "ok", "failed", "busy"}]

StoreTyped ==
    /\ list \in Listings
    /\ flight \subseteq Flight /\ \A o \in flight : o.op = "create" => o.by \in Requests
    /\ records \in Records
    /\ trash \subseteq Binned
    /\ ledger \in Markers
    /\ past \subseteq Names
    /\ req \in [Actors -> Work]
    /\ \A old \in shown : old.list \in Listings /\ old.records \in Records

Working(p) == p.pc \notin Waiting

ByInvite == {"add", "extend", "restore"}

Scope(p) == IF p.kind \in ByInvite THEN p.uuid ELSE All

(* Which requests come to which place, and that they have their lease there.  *)
KindOfPlace(p) ==
    /\ p.pc \in Creating \cup {"finalize", "upgrade", "marker"} => p.kind \in {"add", "restore"}
    /\ p.pc \in {"read", "put"} => p.kind \in {"add", "extend", "restore", "delete"}
    /\ p.pc \in Settling => p.kind \in {"add", "restore", "cleanup"}
    /\ p.pc = "bin" => p.kind \in {"delete", "restore", "purge"}
    /\ p.pc = "save" => p.kind = "delete"
    /\ p.pc = "protect" => p.kind \in {"delete", "purge"}
    /\ p.pc = "remove" => p.kind \in {"delete", "purge", "cleanup"}
    /\ p.pc = "empty" => p.kind \in {"restore", "purge"}
    /\ p.pc \in Cleaning => p.kind = "cleanup"

(* A restore has the networks of the trash entry it read. *)
RestoresEntry(p) ==
    (p.kind = "restore" /\ Working(p) /\ p.pc \notin {"bin", "upgrade", "marker"} \cup Settling) =>
        LET b == EntryOf(p.bin, p.gid) IN b \in p.bin /\ p.ips = b.group.ips

(* A deletion goes on only with a group to delete. *)
HasGroup(p) ==
    (p.kind = "delete" /\ p.pc \in {"protect", "remove", "bin", "save"}) => Named(p.copy, p.gid) # {}

Fits(r, p) ==
    /\ KindOfPlace(p)
    /\ Working(p) \/ p.pc = "claim" =>
          /\ p.kind = "cleanup" <=> r \in Crons
          /\ p.kind # "none"
          /\ p.kind # "cleanup" => p.uuid \in Invites
          /\ p.outcome = "none"
    /\ Working(p) => Scope(p) \in p.hold
    /\ p.pc \in Settling \cup {"marker"} => All \in p.hold
    /\ RestoresEntry(p)
    /\ HasGroup(p)
    /\ p.kind \in {"extend", "delete", "purge"} => p.mark = Nobody
    /\ p.pc \in {"references", "drop", "resolve"} => p.mark \in DOMAIN p.batch
    /\ p.pc = "finalize" => p.mark = r

Jobs == \A r \in Actors : Fits(r, req[r]) /\ req[r].now \subseteq past

-----------------------------------------------------------------------------
(* The markers.  Before it registers one, nothing bears a request's name;     *)
(* from then on all that does is among the networks the marker was made for.  *)
Unborn(m) ==
    /\ m \notin DOMAIN ledger
    /\ \A n \in DOMAIN list : list[n].comment # m
    /\ \A o \in flight : o.op = "create" => o.by # m
    /\ \A q \in Actors : m \notin DOMAIN req[q].batch

BeforeMarker(p) ==
    p.pc \in {"idle", "claim", "list", "register"} \/ (p.kind = "restore" /\ p.pc \in {"bin", "read"})

WithMarker(p) ==
    \/ p.pc \in {"create", "relist", "note", "finalize"}
    \/ p.kind = "restore" /\ p.pc = "put"
    \/ p.kind = "add" /\ p.pc \in {"read", "put"}

MarkersPending == \A r \in Requests : BeforeMarker(req[r]) => Unborn(r)

TodoWanted ==
    \A r \in Requests : req[r].pc \in {"register", "create", "relist", "note"} => req[r].todo \subseteq req[r].ips

MarkerIsOwn ==
    \A r \in Requests \cap DOMAIN ledger : WithMarker(req[r]) =>
        ledger[r].values = req[r].todo /\ req[r].todo \subseteq req[r].ips

NamedAreMarked ==
    /\ \A n \in DOMAIN list : list[n].comment \in DOMAIN ledger => n \in ledger[list[n].comment].values
    /\ \A o \in flight : (o.op = "create" /\ o.by \in DOMAIN ledger) => o.ips \subseteq ledger[o.by].values

BatchIsLedger ==
    \A q \in Actors, m \in Requests :
        m \in DOMAIN req[q].batch \cap DOMAIN ledger => req[q].batch[m].values = ledger[m].values

MarkersSound == MarkersPending /\ TodoWanted /\ MarkerIsOwn /\ NamedAreMarked /\ BatchIsLedger

-----------------------------------------------------------------------------
(* What a request that holds its lease knows of the store it read.           *)
Copying(p) ==
    \/ p.pc = "put"
    \/ p.kind = "restore" /\ p.pc \in Creating
    \/ p.kind = "delete" /\ p.pc \in {"protect", "remove", "bin", "save"}

Listed(p) == \/ p.pc \in {"put", "finalize"} /\ p.kind \in {"add", "restore"}
             \/ p.pc = "read" /\ p.kind = "add"

OwnView(p) ==
    /\ Copying(p) => p.copy = records[p.uuid]
    /\ p.pc \in {"register", "create", "relist", "note"} => p.ips \ p.todo \subseteq DOMAIN list
    /\ p.pc = "note" => {x[1] : x \in p.found} \subseteq DOMAIN list
    /\ Listed(p) => p.ips \subseteq DOMAIN list
    /\ p.pc = "finalize" => p.ips \subseteq IpsOf(records[p.uuid])

KeysKept(p) ==
    /\ p.pc \in {"drop", "sweep"} => p.keys = ReferencedAtAll(records)
    /\ (p.pc = "remove" /\ p.kind = "delete") => p.keys = Referenced(records, p.uuid, p.gid)
    /\ (p.pc = "remove" /\ p.kind = "purge") => p.keys = ReferencedAtAll(records)
    /\ (p.pc = "remove" /\ p.kind = "cleanup") =>
          p.keys = UNION {UNION {records[u][i].ips : i \in InForce(records, u, p.now)} : u \in Invites}

(* What bears the name of the marker a request settles has been found, or is  *)
(* recorded.                                                                 *)
MarkKnown(p) ==
    /\ (p.pc \in {"references", "drop"} /\ p.mark \in DOMAIN ledger) =>
          \A n \in DOMAIN list : list[n].comment = p.mark => <<n, list[n].id>> \in p.found
    /\ (p.pc = "resolve" /\ p.mark \in DOMAIN ledger) =>
          \A n \in DOMAIN list : list[n].comment = p.mark => n \in ReferencedAtAll(records)

FullView(r) ==
    LET p == req[r] IN
    /\ (p.kind = "cleanup" /\ p.pc \in {"remove", "update"}) =>
          \A u \in DOMAIN p.plan : p.plan[u] = Current(records, u, p.now)
    /\ (p.kind = "delete" /\ p.pc = "put") => Deleted(r) \subseteq trash
    /\ KeysKept(p)
    /\ MarkKnown(p)

(* Who has not been answered from an old copy goes by what is there.          *)
ViewsCurrent == \A r \in Actors \ misled : OwnView(req[r]) /\ FullView(r)

StoreInv ==
    /\ LeaseInv
    /\ StoreTyped
    /\ Jobs
    /\ MarkersSound
    /\ ~stray => ViewsCurrent

-----------------------------------------------------------------------------
(* The operators on groups: what filtering, inserting and replacing keep.     *)

(* Counting the members of a finite set of numbers from below reaches every   *)
(* number up to its size, once.                                              *)
LEMMA Ranks ==
    ASSUME NEW n \in Nat, NEW I \in SUBSET (1..n), NEW k \in 1..Cardinality(I)
    PROVE  \E i \in I : Cardinality({j \in I : j <= i}) = k
<1> DEFINE below(i) == {j \in I : j <= i}
           rank == [i \in I |-> Cardinality(below(i))]
<1>1. IsFiniteSet(I) /\ Cardinality(I) \in Nat
  <2>1. IsFiniteSet(1..n)
    BY FS_Interval
  <2> QED BY <2>1, FS_Subset, FS_CardinalityType
<1>2. ASSUME NEW i \in I
      PROVE  IsFiniteSet(below(i)) /\ Cardinality(below(i)) \in 1..Cardinality(I)
  <2>1. below(i) \in SUBSET I /\ i \in below(i)
    OBVIOUS
  <2>2. IsFiniteSet(below(i)) /\ Cardinality(below(i)) <= Cardinality(I)
    BY <1>1, <2>1, FS_Subset
  <2>3. Cardinality(below(i)) \in Nat /\ Cardinality(below(i)) # 0
    BY <2>1, <2>2, FS_CardinalityType, FS_EmptySet
  <2> QED BY <1>1, <2>2, <2>3
<1>3. rank \in [I -> 1..Cardinality(I)]
  BY <1>2
<1>4. ASSUME NEW i \in I, NEW j \in I, i < j
      PROVE  Cardinality(below(i)) # Cardinality(below(j))
  <2>1. below(i) \in SUBSET below(j) /\ j \in below(j) /\ j \notin below(i)
    <3>1. \A x \in I : x \in Nat
      OBVIOUS
    <3>2. \A x \in I : x <= i => x <= j
      BY <1>4, <3>1
    <3>3. j <= j /\ ~(j <= i)
      BY <1>4, <3>1
    <3> QED BY <3>2, <3>3
  <2>2. IsFiniteSet(below(i)) /\ IsFiniteSet(below(j))
    BY <1>2
  <2> HIDE DEF below
  <2>3. below(i) # below(j)
    BY <2>1
  <2> QED BY <2>1, <2>2, <2>3, FS_Subset
<1>5. rank \in Injection(I, 1..Cardinality(I))
  <2>1. \A i, j \in I : rank[i] = rank[j] => i = j
    BY <1>4
  <2> QED BY <1>3, <2>1 DEF Injection, IsInjective
<1>6. IsFiniteSet(1..Cardinality(I)) /\ Cardinality(1..Cardinality(I)) = Cardinality(I)
  BY <1>1, FS_Interval
<1>7. rank \in Surjection(I, 1..Cardinality(I))
  BY <1>5, <1>6, FS_Injection
<1>8. PICK i \in I : rank[i] = k
  BY <1>7 DEF Surjection
<1> QED BY <1>8

(* Filtering keeps groups, in no greater number.                              *)
LEMMA AtGroups ==
    ASSUME NEW groups \in Groups, NEW I \in SUBSET (DOMAIN groups)
    PROVE  At(groups, I) \in Groups /\ (I # {} => At(groups, I)[1] \in Group)
<1> DEFINE place(k) == CHOOSE i \in I : Cardinality({j \in I : j <= i}) = k
<1>1. groups \in Seq(Group) /\ DOMAIN groups = 1..Len(groups) /\ Len(groups) \in Nat /\ Len(groups) <= MaxGroups
  BY DEF Groups
<1>2. IsFiniteSet(I) /\ Cardinality(I) \in Nat /\ Cardinality(I) <= Len(groups)
  <2>1. \A n \in Nat : IsFiniteSet(1..n) /\ Cardinality(1..n) = n
    BY FS_Interval
  <2>2. IsFiniteSet(1..Len(groups)) /\ Cardinality(1..Len(groups)) = Len(groups)
    BY <1>1, <2>1
  <2> QED BY <1>1, <2>2, FS_Subset, FS_CardinalityType
<1>3. ASSUME NEW k \in 1..Cardinality(I) PROVE place(k) \in I
  BY <1>1, Ranks
<1> HIDE DEF place
<1>4. \A k \in 1..Cardinality(I) : groups[place(k)] \in Group
  BY <1>1, <1>3
<1>5. At(groups, I) = [k \in 1..Cardinality(I) |-> groups[place(k)]]
  BY DEF At, place
<1>6. At(groups, I) \in [1..Cardinality(I) -> Group]
  BY <1>4, <1>5
<1>7. At(groups, I) \in Seq(Group) /\ Len(At(groups, I)) = Cardinality(I)
  BY <1>2, <1>6
<1>8. ASSUME I # {} PROVE At(groups, I)[1] \in Group
  BY <1>2, <1>6, <1>8, FS_EmptySet
<1> QED BY <1>1, <1>2, <1>7, <1>8, BoundAssumption DEF Groups

(* What is kept of an invite's groups has the incoming one among them.        *)
LEMMA KeptGroups ==
    ASSUME NEW groups \in Groups, NEW incoming \in Group
    PROVE  Kept(groups, incoming) \in Groups /\ incoming.ips \subseteq IpsOf(Kept(groups, incoming))
<1> DEFINE shares(i) == groups[i].ips \cap incoming.ips # {}
           first(i) == shares(i) /\ \A j \in 1..(i - 1) : ~shares(j)
           next == Upsert(groups, incoming)
<1>1. groups \in Seq(Group) /\ DOMAIN groups = 1..Len(groups) /\ Len(groups) \in Nat /\ Len(groups) <= MaxGroups
  BY DEF Groups
<1>2. MaxGroups \in Nat /\ 1 <= MaxGroups
  BY BoundAssumption
<1>3. CASE \E i \in DOMAIN groups : first(i)
  <2> DEFINE put(i) == IF first(i) THEN [incoming EXCEPT !.id = groups[i].id] ELSE groups[i]
  <2>1. PICK i \in DOMAIN groups : first(i)
    BY <1>3
  <2>2. next = [j \in DOMAIN groups |-> put(j)]
    BY <1>3 DEF Upsert
  <2>3. ASSUME NEW j \in DOMAIN groups PROVE [incoming EXCEPT !.id = groups[j].id] \in Group
    <3>1. groups[j] \in Group
      BY <1>1
    <3> HIDE DEF first, next, put
    <3>2. groups[j].id \in Names
      BY <3>1 DEF Group
    <3> QED BY <3>2 DEF Group
  <2>4. \A j \in DOMAIN groups : put(j) \in Group
    BY <1>1, <2>3
  <2>5. put(i).ips = incoming.ips
    BY <2>1 DEF Group
  <2> HIDE DEF put, next, first
  <2>6. next \in [1..Len(groups) -> Group]
    BY <1>1, <2>2, <2>4
  <2>7. next \in Seq(Group) /\ Len(next) = Len(groups)
    BY <1>1, <2>6
  <2>8. Kept(groups, incoming) = next
    BY <1>1, <1>2, <2>7 DEF Kept, next
  <2>9. next[i].ips = incoming.ips /\ i \in DOMAIN next
    BY <2>1, <2>2, <2>5
  <2> QED BY <1>1, <2>7, <2>8, <2>9 DEF Groups, IpsOf
<1>4. CASE ~\E i \in DOMAIN groups : first(i)
  <2>1. next = <<incoming>> \o groups
    BY <1>4 DEF Upsert
  <2> HIDE DEF next, first
  <2>2. next \in Seq(Group) /\ Len(next) = Len(groups) + 1 /\ next[1] = incoming
    BY <1>1, <2>1
  <2>3. CASE Len(next) > MaxGroups
    <3>1. Kept(groups, incoming) = SubSeq(next, 1, MaxGroups)
      BY <2>3 DEF Kept, next
    <3>2. /\ SubSeq(next, 1, MaxGroups) \in Seq(Group)
          /\ Len(SubSeq(next, 1, MaxGroups)) = MaxGroups
          /\ SubSeq(next, 1, MaxGroups)[1] = incoming
      BY <1>2, <2>2, <2>3
    <3> QED BY <1>2, <3>1, <3>2 DEF Groups, IpsOf
  <2>4. CASE ~(Len(next) > MaxGroups)
    <3>1. Kept(groups, incoming) = next
      BY <2>4 DEF Kept, next
    <3>2. Len(next) <= MaxGroups
      BY <1>1, <1>2, <2>2, <2>4
    <3> QED BY <1>1, <2>2, <3>1, <3>2 DEF Groups, IpsOf
  <2> QED BY <2>3, <2>4
<1> QED BY <1>3, <1>4

LEMMA EmptyTyped == <<>> \in Groups /\ <<>> \in Markers /\ <<>> \in Plans
<1>1. <<>> \in Groups
  BY BoundAssumption DEF Groups
<1>2. \A X : <<>> \in [{} -> X]
  OBVIOUS
<1>3. <<>> \in [{} -> Marker] /\ <<>> \in [{} -> Groups]
  BY <1>2
<1> QED BY <1>1, <1>3 DEF Markers, Plans

LEMMA BlankTyped == Blank \in Work
BY EmptyTyped DEF Blank, Work, Places, Waiting

(* The functions of the store, with a key more or less. *)
LEMMA MarkersTyped ==
    ASSUME NEW f \in Markers
    PROVE  /\ DOMAIN f \in SUBSET Requests /\ \A m \in DOMAIN f : f[m] \in Marker
           /\ \A S : Without(f, S) \in Markers
           /\ \A m \in Requests, v \in Marker : With(f, m, v) \in Markers
<1>1. PICK D \in SUBSET Requests : f \in [D -> Marker]
  BY DEF Markers
<1>2. ASSUME NEW S PROVE Without(f, S) \in Markers
  <2>1. Without(f, S) \in [D \ S -> Marker] /\ D \ S \in SUBSET Requests
    BY <1>1 DEF Without
  <2> QED BY <2>1 DEF Markers
<1>3. ASSUME NEW m \in Requests, NEW v \in Marker PROVE With(f, m, v) \in Markers
  <2>1. With(f, m, v) \in [D \cup {m} -> Marker] /\ D \cup {m} \in SUBSET Requests
    BY <1>1 DEF With
  <2> QED BY <2>1 DEF Markers
<1> QED BY <1>1, <1>2, <1>3

LEMMA PlansTyped ==
    ASSUME NEW f \in Plans
    PROVE  /\ DOMAIN f \in SUBSET Invites /\ \A u \in DOMAIN f : f[u] \in Groups
           /\ \A S : Without(f, S) \in Plans
<1>1. PICK D \in SUBSET Invites : f \in [D -> Groups]
  BY DEF Plans
<1>2. ASSUME NEW S PROVE Without(f, S) \in Plans
  <2>1. Without(f, S) \in [D \ S -> Groups] /\ D \ S \in SUBSET Invites
    BY <1>1 DEF Without
  <2> QED BY <2>1 DEF Plans
<1> QED BY <1>1, <1>2

LEMMA ListTyped ==
    ASSUME list \in Listings
    PROVE  /\ DOMAIN list \in SUBSET Networks
           /\ \A n \in DOMAIN list : list[n] \in [id : Ids, comment : Ids]
           /\ \A items : Remaining(items) \in Listings
           /\ \A m \in Requests, S \in SUBSET Networks : Created(m, S) \in Listings
<1>1. PICK D \in SUBSET Networks : list \in [D -> [id : Ids, comment : Ids]]
  BY DEF Listings
<1>2. ASSUME NEW items PROVE Remaining(items) \in Listings
  <2> DEFINE S == {n \in DOMAIN list : <<n, list[n].id>> \in items}
  <2> HIDE DEF S
  <2>1. Without(list, S) \in [D \ S -> [id : Ids, comment : Ids]] /\ D \ S \in SUBSET Networks
    BY <1>1 DEF Without
  <2>2. Without(list, S) \in Listings
    BY <2>1 DEF Listings
  <2> QED BY <2>2 DEF Remaining, S
<1>3. ASSUME NEW m \in Requests, NEW S \in SUBSET Networks PROVE Created(m, S) \in Listings
  <2>1. m \in Ids
    BY DEF Ids
  <2>2. Created(m, S) \in [D \cup S -> [id : Ids, comment : Ids]] /\ D \cup S \in SUBSET Networks
    BY <1>1, <2>1 DEF Created
  <2> QED BY <2>2 DEF Listings
<1> QED BY <1>1, <1>2, <1>3

LEMMA WorkFields ==
    ASSUME NEW p \in Work
    PROVE  /\ p.ips \in SUBSET Networks /\ p.todo \in SUBSET Networks /\ p.keys \in SUBSET Networks
           /\ p.found \in SUBSET Pairs /\ p.copy \in Groups /\ p.bin \in SUBSET Binned
           /\ p.batch \in Markers /\ p.plan \in Plans /\ p.comments \in SUBSET Requests
           /\ p.now \in SUBSET Names /\ p.hold \in SUBSET Scopes
           /\ p.uuid \in Invites \cup {Nobody} /\ p.gid \in Names \cup {Nobody}
           /\ p.mark \in Requests \cup {Nobody}
BY DEF Work

LEMMA WorkClosed ==
    ASSUME NEW p \in Work
    PROVE  /\ \A c \in Places : [p EXCEPT !.pc = c] \in Work
           /\ \A S \in SUBSET Networks : /\ [p EXCEPT !.ips = S] \in Work
                                         /\ [p EXCEPT !.todo = S] \in Work
                                         /\ [p EXCEPT !.keys = S] \in Work
           /\ \A F \in SUBSET Pairs : [p EXCEPT !.found = F] \in Work
           /\ \A g \in Groups : [p EXCEPT !.copy = g] \in Work
           /\ \A b \in SUBSET Binned : [p EXCEPT !.bin = b] \in Work
           /\ \A b \in Markers : [p EXCEPT !.batch = b] \in Work
           /\ \A f \in Plans : [p EXCEPT !.plan = f] \in Work
           /\ \A S \in SUBSET Requests : [p EXCEPT !.comments = S] \in Work
           /\ \A S \in SUBSET Scopes : [p EXCEPT !.hold = S] \in Work
           /\ \A m \in Requests \cup {Nobody} : [p EXCEPT !.mark = m] \in Work
<1>1. \A c \in Places : [p EXCEPT !.pc = c] \in Work
  BY DEF Work
<1>2. ASSUME NEW S \in SUBSET Networks
      PROVE  /\ [p EXCEPT !.ips = S] \in Work
             /\ [p EXCEPT !.todo = S] \in Work
             /\ [p EXCEPT !.keys = S] \in Work
  BY DEF Work
<1>3. ASSUME NEW F \in SUBSET Pairs PROVE [p EXCEPT !.found = F] \in Work
  BY DEF Work
<1>4. ASSUME NEW g \in Groups PROVE [p EXCEPT !.copy = g] \in Work
  BY DEF Work
<1>5. ASSUME NEW b \in SUBSET Binned PROVE [p EXCEPT !.bin = b] \in Work
  BY DEF Work
<1>6. ASSUME NEW b \in Markers PROVE [p EXCEPT !.batch = b] \in Work
  BY DEF Work
<1>7. ASSUME NEW f \in Plans PROVE [p EXCEPT !.plan = f] \in Work
  BY DEF Work
<1>8. ASSUME NEW S \in SUBSET Requests PROVE [p EXCEPT !.comments = S] \in Work
  BY DEF Work
<1>9. ASSUME NEW S \in SUBSET Scopes PROVE [p EXCEPT !.hold = S] \in Work
  BY DEF Work
<1>10. ASSUME NEW m \in Requests \cup {Nobody} PROVE [p EXCEPT !.mark = m] \in Work
  BY DEF Work
<1> QED BY <1>1, <1>2, <1>3, <1>4, <1>5, <1>6, <1>7, <1>8, <1>9, <1>10

-----------------------------------------------------------------------------
(* Shapes and jobs: whatever a request does, it stays at a place where it     *)
(* belongs and keeps to its own record.                                      *)
Goes(r) ==
    /\ \A q \in Actors \ {r} : req'[q] = req[q]
    /\ req' \in [Actors -> Work]
    /\ Fits(r, req'[r])
    /\ req'[r].now \subseteq past

Outcomes == {"none", "ok", "failed", "busy"}

LEMMA EndsFit ==
    ASSUME NEW r \in Actors, req[r] \in Work, NEW outcome \in Outcomes
    PROVE  /\ Ending(r, outcome) \in Work /\ Fits(r, Ending(r, outcome))
           /\ Finished(r, outcome) \in Work /\ Fits(r, Finished(r, outcome))
           /\ Ending(r, outcome).now = {} /\ Finished(r, outcome).now = {}
<1>1. Blank \in Work /\ Blank.pc = "idle" /\ Blank.now = {} /\ Blank.mark = Nobody
  BY BlankTyped DEF Blank
<1>2. req[r].kind \in {"none", "add", "extend", "delete", "restore", "purge", "cleanup"}
      /\ req[r].hold \in SUBSET Scopes
  BY DEF Work
<1>3. /\ Ending(r, outcome) \in Work /\ Ending(r, outcome).pc = "release"
      /\ Ending(r, outcome).now = {} /\ Ending(r, outcome).mark = Nobody
  BY <1>2, EmptyTyped DEF Ending, Blank, Work, Outcomes, Places, Waiting
<1>4. /\ Finished(r, outcome) \in Work /\ Finished(r, outcome).pc \in {"idle", "done"}
      /\ Finished(r, outcome).now = {} /\ Finished(r, outcome).mark = Nobody
  BY <1>1, <1>2, EmptyTyped DEF Finished, Blank, Work, Outcomes, Places, Waiting
<1> DEFINE Rests(p) == p.pc \in {"idle", "release", "done"} /\ p.mark = Nobody
<1>5. ASSUME NEW p, Rests(p) PROVE Fits(r, p)
  BY <1>5 DEF Fits, KindOfPlace, Working, RestoresEntry, HasGroup, Waiting, Creating, Settling, Cleaning
<1> QED BY <1>3, <1>4, <1>5

(* What a request knows before its step. *)
LEMMA AtWork ==
    ASSUME StoreTyped, Jobs, NEW r \in Actors
    PROVE  /\ req \in [Actors -> Work] /\ req[r] \in Work
           /\ Fits(r, req[r]) /\ req[r].now \subseteq past
           /\ Working(req[r]) /\ req[r].kind # "cleanup" => r \in Requests /\ req[r].uuid \in Invites
BY DEF StoreTyped, Jobs, Fits, Actors

LEMMA GoesOn ==
    ASSUME StoreTyped, Jobs, NEW r \in Actors, req' = [req EXCEPT ![r] = req'[r]],
           req'[r] \in Work, Fits(r, req'[r]), req'[r].now \subseteq past
    PROVE  Goes(r)
BY AtWork DEF Goes

LEMMA EndsGo ==
    ASSUME StoreTyped, Jobs, NEW r \in Actors, NEW outcome \in Outcomes,
           req' = [req EXCEPT ![r] = Ending(r, outcome)] \/ req' = [req EXCEPT ![r] = Finished(r, outcome)]
    PROVE  Goes(r)
BY AtWork, EndsFit DEF Goes

LEMMA AfterMarkerFits ==
    ASSUME StoreTyped, Jobs, NEW r \in Actors, req[r].pc \in Settling, NEW m
    PROVE  AfterMarker(r, m) \in Work /\ Fits(r, AfterMarker(r, m)) /\ AfterMarker(r, m).now \subseteq past
<1>1. req[r] \in Work /\ Fits(r, req[r]) /\ req[r].now \subseteq past /\ "failed" \in Outcomes
  BY AtWork DEF Outcomes
<1>2. CASE r \in Crons
  <2>1. Without(req[r].batch, {m}) \in Markers
    BY <1>1, WorkFields, MarkersTyped
  <2>2. AfterMarker(r, m) \in Work
    BY <1>1, <1>2, <2>1, WorkClosed DEF AfterMarker, Places, Waiting, Creating, Moving, Settling, Cleaning
  <2>3. AfterMarker(r, m).now = req[r].now
    BY <1>1, <1>2 DEF AfterMarker, Work
  <2>4. Fits(r, AfterMarker(r, m))
    BY <1>1, <1>2 DEF AfterMarker, Work, Fits, KindOfPlace, Working, Scope, ByInvite, RestoresEntry, HasGroup,
              Waiting, Creating, Moving, Settling, Cleaning
  <2> QED BY <1>1, <2>2, <2>3, <2>4
<1>3. CASE r \notin Crons
  BY <1>1, <1>3, EndsFit DEF AfterMarker
<1> QED BY <1>2, <1>3

(* What is read of the store has its shape. *)
LEMMA ReadsTyped ==
    ASSUME StoreTyped, NEW L \in Listings, NEW kv \in Records
    PROVE  /\ \A u \in Invites : /\ kv[u] \in Groups
                                  /\ \A i \in DOMAIN kv[u] : kv[u][i] \in Group
           /\ \A b \in trash : b \in Binned /\ b.group \in Group
           /\ \A n \in DOMAIN L : <<n, L[n].id>> \in Pairs
           /\ \A S \in SUBSET Networks : \A c : {<<n, L[n].id>> : n \in {n \in S \cap DOMAIN L : L[n].comment = c}}
                                              \in SUBSET Pairs
           /\ \A m, marker : Candidates(L, m, marker) \in SUBSET Pairs
           /\ ReferencedAtAll(kv) \in SUBSET Networks
           /\ \A u, gid : Referenced(kv, u, gid) \in SUBSET Networks
<1>1. trash \subseteq Binned
  BY DEF StoreTyped
<1>2. ASSUME NEW u \in Invites
      PROVE  kv[u] \in Groups /\ \A i \in DOMAIN kv[u] : kv[u][i] \in Group
  <2>1. kv[u] \in Groups
    BY DEF Records
  <2> QED BY <2>1 DEF Groups
<1>3. ASSUME NEW b \in trash PROVE b \in Binned /\ b.group \in Group
  BY <1>1 DEF Binned
<1>4. ASSUME NEW u \in Invites, NEW i \in DOMAIN kv[u] PROVE kv[u][i].ips \in SUBSET Networks
  BY <1>2 DEF Group
<1>5. ReferencedAtAll(kv) \in SUBSET Networks
  BY <1>4 DEF ReferencedAtAll, IpsOf
<1>6. \A u, gid : Referenced(kv, u, gid) \in SUBSET Networks
  BY <1>4 DEF Referenced, Others
<1>7. \A n \in DOMAIN L : <<n, L[n].id>> \in Pairs
  <2>1. PICK D \in SUBSET Networks : L \in [D -> [id : Ids, comment : Ids]]
    BY DEF Listings
  <2> QED BY <2>1 DEF Pairs
<1>8. ASSUME NEW m, NEW marker PROVE Candidates(L, m, marker) \in SUBSET Pairs
  BY <1>7 DEF Candidates
<1>9. \A S \in SUBSET Networks : \A c :
         {<<n, L[n].id>> : n \in {n \in S \cap DOMAIN L : L[n].comment = c}} \in SUBSET Pairs
  BY <1>7
<1> QED BY <1>2, <1>3, <1>5, <1>6, <1>7, <1>8, <1>9

(* Every step and every failure of a request. *)
LEMMA LedgerDue ==
    ASSUME StoreTyped
    PROVE  [m \in Due |-> ledger[m]] \in Markers
<1>1. DOMAIN ledger \in SUBSET Requests /\ \A m \in DOMAIN ledger : ledger[m] \in Marker
  BY MarkersTyped DEF StoreTyped
<1>2. [m \in Due |-> ledger[m]] \in [Due -> Marker] /\ Due \in SUBSET Requests
  BY <1>1 DEF Due
<1> QED BY <1>2 DEF Markers

(* What a scan of all records finds. *)
IpsInForce(kv, now) == UNION {UNION {kv[u][i].ips : i \in InForce(kv, u, now)} : u \in Invites}

IpsExpired(kv, now) == UNION {UNION {kv[u][i].ips : i \in Expired(kv, u, now)} : u \in Invites}

PlanAt(kv, now) == [u \in {u \in Invites : Expired(kv, u, now) # {}} |-> Current(kv, u, now)]

LEMMA ScanTyped ==
    ASSUME StoreTyped, NEW kv \in Records, NEW now
    PROVE  /\ IpsInForce(kv, now) \in SUBSET Networks
           /\ IpsExpired(kv, now) \in SUBSET Networks
           /\ PlanAt(kv, now) \in Plans
<1>1. ASSUME NEW u \in Invites
      PROVE  /\ \A i \in DOMAIN kv[u] : kv[u][i].ips \in SUBSET Networks
             /\ Current(kv, u, now) \in Groups
  <2>1. kv[u] \in Groups /\ \A i \in DOMAIN kv[u] : kv[u][i] \in Group
    BY ReadsTyped DEF StoreTyped
  <2>2. InForce(kv, u, now) \in SUBSET (DOMAIN kv[u])
    BY DEF InForce
  <2> QED BY <2>1, <2>2, AtGroups DEF Group, Current
<1> DEFINE touched == {u \in Invites : Expired(kv, u, now) # {}}
<1>2. [u \in touched |-> Current(kv, u, now)] \in [touched -> Groups] /\ touched \in SUBSET Invites
  BY <1>1
<1>3. [u \in touched |-> Current(kv, u, now)] \in Plans
  BY <1>2 DEF Plans
<1> QED BY <1>1, <1>3 DEF InForce, Expired, IpsInForce, IpsExpired, PlanAt

LEMMA WithoutLeaseFits ==
    ASSUME StoreTyped, Jobs, NEW r \in Actors, req[r].pc = "release", NEW s
    PROVE  WithoutLease(r, s) \in Work /\ Fits(r, WithoutLease(r, s)) /\ WithoutLease(r, s).now \subseteq past
<1>1. req[r] \in Work /\ Fits(r, req[r]) /\ req[r].now \subseteq past /\ req[r].outcome \in Outcomes
  BY AtWork DEF Outcomes, Work
<1>2. CASE req[r].hold = {s}
  BY <1>1, <1>2, EndsFit DEF WithoutLease
<1>3. CASE req[r].hold # {s}
  <2>1. WithoutLease(r, s) = [req[r] EXCEPT !.hold = req[r].hold \ {s}]
    BY <1>3 DEF WithoutLease
  <2>2. WithoutLease(r, s) \in Work
    BY <1>1, <2>1, WorkFields, WorkClosed
  <2>3. Fits(r, WithoutLease(r, s)) /\ WithoutLease(r, s).now = req[r].now
    BY <1>1, <2>1 DEF Work, Fits, KindOfPlace, Working, Scope, ByInvite, RestoresEntry, HasGroup,
              Waiting, Creating, Moving, Settling, Cleaning
  <2> QED BY <1>1, <2>2, <2>3
<1> QED BY <1>2, <1>3

LEMMA StepsGo ==
    ASSUME StoreTyped, Jobs, NEW r \in Actors, NEW L \in Listings, NEW kv \in Records, Moves(r, L, kv)
    PROVE  Goes(r)
<1>0. /\ req \in [Actors -> Work] /\ req[r] \in Work
      /\ Fits(r, req[r]) /\ req[r].now \subseteq past
      /\ Working(req[r]) /\ req[r].kind # "cleanup" => r \in Requests /\ req[r].uuid \in Invites
      /\ r # Nobody
      /\ "none" \in Outcomes /\ "ok" \in Outcomes /\ "failed" \in Outcomes /\ "busy" \in Outcomes
  BY AtWork, DistinctAssumption DEF Outcomes, Actors
<1>1. CASE ListsItems(r, L)
  <2>1. req' = [req EXCEPT ![r] = req'[r]]
    BY <1>0, <1>1 DEF ListsItems
  <2>2. req'[r] \in Work
    BY <1>0, <1>1, WorkFields, WorkClosed DEF ListsItems, Places, Waiting, Creating, Moving, Settling, Cleaning
  <2>3. Fits(r, req'[r]) /\ req'[r].now \subseteq past
    BY <1>0, <1>1 DEF ListsItems, Work, Fits, KindOfPlace, Working, Scope, ByInvite, RestoresEntry, HasGroup,
              Waiting, Creating, Moving, Settling, Cleaning
  <2> QED BY <2>1, <2>2, <2>3, GoesOn
<1>2. CASE Registers(r)
  <2>1. CASE LedgerHasRoom
    <3>1. req' = [req EXCEPT ![r].pc = "create"] /\ req[r].pc = "register"
      BY <1>2, <2>1 DEF Registers
    <3>2. req' = [req EXCEPT ![r] = req'[r]]
      BY <1>0, <3>1
    <3>3. req'[r] \in Work
      BY <1>0, <1>2, <2>1, <3>1, WorkFields, WorkClosed DEF Places, Waiting, Creating, Moving, Settling, Cleaning
    <3>4. Fits(r, req'[r]) /\ req'[r].now \subseteq past
      BY <1>0, <1>2, <2>1, <3>1 DEF Work, Fits, KindOfPlace, Working, Scope, ByInvite, RestoresEntry, HasGroup,
              Waiting, Creating, Moving, Settling, Cleaning
    <3> QED BY <3>2, <3>3, <3>4, GoesOn
  <2>2. CASE ~LedgerHasRoom
    BY <1>0, <1>2, <2>2, EndsGo DEF Registers
  <2> QED BY <1>2, <2>1, <2>2
<1>3. CASE Creates(r)
  <2>1. req' = [req EXCEPT ![r] = req'[r]]
    BY <1>0, <1>3 DEF Creates
  <2>2. req'[r] \in Work
    BY <1>0, <1>3, WorkFields, WorkClosed DEF Creates, Places, Waiting, Creating, Moving, Settling, Cleaning
  <2>3. Fits(r, req'[r]) /\ req'[r].now \subseteq past
    BY <1>0, <1>3 DEF Creates, Work, Fits, KindOfPlace, Working, Scope, ByInvite, RestoresEntry, HasGroup,
              Waiting, Creating, Moving, Settling, Cleaning
  <2> QED BY <2>1, <2>2, <2>3, GoesOn
<1>4. CASE Relists(r, L)
  <2>1. {<<n, L[n].id>> : n \in {n \in req[r].todo \cap DOMAIN L : L[n].comment = r}} \in SUBSET Pairs
    BY <1>0, WorkFields, ReadsTyped
  <2>2. req' = [req EXCEPT ![r] = req'[r]]
    BY <1>0, <1>4 DEF Relists
  <2>3. req'[r] \in Work
    BY <1>0, <1>4, <2>1, WorkFields, WorkClosed DEF Relists, Places, Waiting, Creating, Moving, Settling, Cleaning
  <2>4. Fits(r, req'[r]) /\ req'[r].now \subseteq past
    BY <1>0, <1>4, <2>1 DEF Relists, Work, Fits, KindOfPlace, Working, Scope, ByInvite, RestoresEntry, HasGroup,
              Waiting, Creating, Moving, Settling, Cleaning
  <2> QED BY <2>2, <2>3, <2>4, GoesOn
<1>5. CASE NotesItems(r)
  <2>1. r \in Requests /\ {} \in SUBSET Pairs
    BY <1>0, <1>5 DEF NotesItems, Working, Waiting, Fits, KindOfPlace, Creating
  <2>2. req' = [req EXCEPT ![r] = req'[r]]
    BY <1>0, <1>5 DEF NotesItems
  <2>3. req'[r] \in Work
    BY <1>0, <1>5, <2>1, WorkFields, WorkClosed DEF NotesItems, Places, Waiting, Creating, Moving, Settling, Cleaning
  <2>4. Fits(r, req'[r]) /\ req'[r].now \subseteq past
    BY <1>0, <1>5, <2>1 DEF NotesItems, Work, Fits, KindOfPlace, Working, Scope, ByInvite, RestoresEntry, HasGroup,
              Waiting, Creating, Moving, Settling, Cleaning
  <2> QED BY <2>2, <2>3, <2>4, GoesOn
<1>6. CASE ReadsRecords(r, kv)
  <2>1. CASE req[r].kind \in {"add", "extend"}
    <3>1. kv[req[r].uuid] \in Groups
      BY <1>0, <1>6, <2>1, ReadsTyped DEF ReadsRecords, Working, Waiting, Fits, KindOfPlace
    <3>2. req' = [req EXCEPT ![r].copy = kv[req[r].uuid], ![r].pc = "put"] /\ req[r].pc = "read"
      BY <1>6, <2>1, <3>1 DEF ReadsRecords
    <3>3. req' = [req EXCEPT ![r] = req'[r]]
      BY <1>0, <3>2
    <3>4. req'[r] \in Work
      BY <1>0, <1>6, <2>1, <3>1, <3>2, WorkFields, WorkClosed DEF Places, Waiting, Creating, Moving, Settling, Cleaning
    <3>5. Fits(r, req'[r]) /\ req'[r].now \subseteq past
      BY <1>0, <1>6, <2>1, <3>1, <3>2 DEF Work, Fits, KindOfPlace, Working, Scope, ByInvite, RestoresEntry, HasGroup,
              Waiting, Creating, Moving, Settling, Cleaning
    <3> QED BY <3>3, <3>4, <3>5, GoesOn
  <2>2. CASE req[r].kind = "restore"
    <3>1. kv[req[r].uuid] \in Groups
      BY <1>0, <1>6, <2>2, ReadsTyped DEF ReadsRecords, Working, Waiting, Fits, KindOfPlace
    <3>2. req' = [req EXCEPT ![r].copy = kv[req[r].uuid], ![r].pc = "list"] /\ req[r].pc = "read"
      BY <1>6, <2>2, <3>1 DEF ReadsRecords
    <3>3. req' = [req EXCEPT ![r] = req'[r]]
      BY <1>0, <3>2
    <3>4. req'[r] \in Work
      BY <1>0, <1>6, <2>2, <3>1, <3>2, WorkFields, WorkClosed DEF Places, Waiting, Creating, Moving, Settling, Cleaning
    <3>5. Fits(r, req'[r]) /\ req'[r].now \subseteq past
      BY <1>0, <1>6, <2>2, <3>1, <3>2 DEF Work, Fits, KindOfPlace, Working, Scope, ByInvite, RestoresEntry, HasGroup,
              Waiting, Creating, Moving, Settling, Cleaning
    <3> QED BY <3>3, <3>4, <3>5, GoesOn
  <2>3. CASE req[r].kind = "delete" /\ Named(kv[req[r].uuid], req[r].gid) = {}
    BY <1>0, <1>6, <2>3, EndsGo DEF ReadsRecords
  <2>4. CASE req[r].kind = "delete" /\ Named(kv[req[r].uuid], req[r].gid) # {}
    <3>1. kv[req[r].uuid] \in Groups
      BY <1>0, <1>6, <2>4, ReadsTyped DEF ReadsRecords, Working, Waiting, Fits, KindOfPlace
    <3>2. Find(kv[req[r].uuid], req[r].gid) \in Group
      BY <3>1, <1>6, <2>4, AtGroups DEF Find, Named
    <3>3. Find(kv[req[r].uuid], req[r].gid).ips \in SUBSET Networks
      BY <3>2 DEF Group
    <3>4. req' = [req EXCEPT ![r].copy = kv[req[r].uuid], ![r].ips = Find(kv[req[r].uuid], req[r].gid).ips, ![r].pc = "protect"] /\ req[r].pc = "read"
      BY <1>6, <2>4, <3>1, <3>2, <3>3 DEF ReadsRecords
    <3>5. req' = [req EXCEPT ![r] = req'[r]]
      BY <1>0, <3>4
    <3>6. req'[r] \in Work
      BY <1>0, <1>6, <2>4, <3>1, <3>2, <3>3, <3>4, WorkFields, WorkClosed DEF Places, Waiting, Creating, Moving, Settling, Cleaning
    <3>7. Fits(r, req'[r]) /\ req'[r].now \subseteq past
      BY <1>0, <1>6, <2>4, <3>1, <3>2, <3>3, <3>4 DEF Work, Fits, KindOfPlace, Working, Scope, ByInvite, RestoresEntry, HasGroup,
              Waiting, Creating, Moving, Settling, Cleaning
    <3> QED BY <3>5, <3>6, <3>7, GoesOn
  <2> QED BY <1>0, <1>6, <2>1, <2>2, <2>3, <2>4 DEF ReadsRecords, Fits, KindOfPlace
<1>7. CASE PutsRecords(r)
  <2>1. CASE req[r].mark = r
    <3>1. req' = [req EXCEPT ![r].pc = "finalize"] /\ req[r].pc = "put"
      BY <1>7, <2>1 DEF PutsRecords
    <3>2. req' = [req EXCEPT ![r] = req'[r]]
      BY <1>0, <3>1
    <3>3. req'[r] \in Work
      BY <1>0, <1>7, <2>1, <3>1, WorkFields, WorkClosed DEF Places, Waiting, Creating, Moving, Settling, Cleaning
    <3>4. Fits(r, req'[r]) /\ req'[r].now \subseteq past
      BY <1>0, <1>7, <2>1, <3>1 DEF Work, Fits, KindOfPlace, Working, Scope, ByInvite, RestoresEntry, HasGroup,
              Waiting, Creating, Moving, Settling, Cleaning
    <3> QED BY <3>2, <3>3, <3>4, GoesOn
  <2>2. CASE req[r].mark # r /\ req[r].kind = "restore"
    <3>1. req' = [req EXCEPT ![r].pc = "empty"] /\ req[r].pc = "put"
      BY <1>7, <2>2 DEF PutsRecords
    <3>2. req' = [req EXCEPT ![r] = req'[r]]
      BY <1>0, <3>1
    <3>3. req'[r] \in Work
      BY <1>0, <1>7, <2>2, <3>1, WorkFields, WorkClosed DEF Places, Waiting, Creating, Moving, Settling, Cleaning
    <3>4. Fits(r, req'[r]) /\ req'[r].now \subseteq past
      BY <1>0, <1>7, <2>2, <3>1 DEF Work, Fits, KindOfPlace, Working, Scope, ByInvite, RestoresEntry, HasGroup,
              Waiting, Creating, Moving, Settling, Cleaning
    <3> QED BY <3>2, <3>3, <3>4, GoesOn
  <2>3. CASE req[r].mark # r /\ req[r].kind # "restore"
    BY <1>0, <1>7, <2>3, EndsGo DEF PutsRecords
  <2> QED BY <1>7, <2>1, <2>2, <2>3
<1>8. CASE Finalizes(r)
  <2>1. CASE req[r].kind = "restore"
    <3>1. req' = [req EXCEPT ![r].pc = "empty"] /\ req[r].pc = "finalize"
      BY <1>8, <2>1 DEF Finalizes
    <3>2. req' = [req EXCEPT ![r] = req'[r]]
      BY <1>0, <3>1
    <3>3. req'[r] \in Work
      BY <1>0, <1>8, <2>1, <3>1, WorkFields, WorkClosed DEF Places, Waiting, Creating, Moving, Settling, Cleaning
    <3>4. Fits(r, req'[r]) /\ req'[r].now \subseteq past
      BY <1>0, <1>8, <2>1, <3>1 DEF Work, Fits, KindOfPlace, Working, Scope, ByInvite, RestoresEntry, HasGroup,
              Waiting, Creating, Moving, Settling, Cleaning
    <3> QED BY <3>2, <3>3, <3>4, GoesOn
  <2>2. CASE req[r].kind # "restore"
    BY <1>0, <1>8, <2>2, EndsGo DEF Finalizes
  <2> QED BY <1>8, <2>1, <2>2
<1>9. CASE ReadsMarker(r)
  <2>1. CASE r \in DOMAIN ledger
    <3>1. r \in Requests /\ ledger[r] \in Marker
      BY <1>0, <1>9, <2>1, MarkersTyped DEF StoreTyped
    <3>2. With(<<>>, r, ledger[r]) \in Markers
      BY <3>1, MarkersTyped, EmptyTyped
    <3>3. req' = [req EXCEPT ![r].batch = With(<<>>, r, ledger[r]), ![r].pc = "candidates"] /\ req[r].pc = "marker"
      BY <1>9, <2>1, <3>1, <3>2 DEF ReadsMarker
    <3>4. req' = [req EXCEPT ![r] = req'[r]]
      BY <1>0, <3>3
    <3>5. req'[r] \in Work
      BY <1>0, <1>9, <2>1, <3>1, <3>2, <3>3, WorkFields, WorkClosed DEF Places, Waiting, Creating, Moving, Settling, Cleaning
    <3>6. Fits(r, req'[r]) /\ req'[r].now \subseteq past
      BY <1>0, <1>9, <2>1, <3>1, <3>2, <3>3 DEF Work, Fits, KindOfPlace, Working, Scope, ByInvite, RestoresEntry, HasGroup,
              Waiting, Creating, Moving, Settling, Cleaning
    <3> QED BY <3>4, <3>5, <3>6, GoesOn
  <2>2. CASE r \notin DOMAIN ledger
    BY <1>0, <1>9, <2>2, EndsGo DEF ReadsMarker
  <2> QED BY <1>9, <2>1, <2>2
<1>10. CASE ClaimsMarkers(r)
  <2>1. [m \in Due |-> ledger[m]] \in Markers
    BY LedgerDue
  <2>2. req' = [req EXCEPT ![r] = req'[r]]
    BY <1>0, <1>10 DEF ClaimsMarkers
  <2>3. req'[r] \in Work
    BY <1>0, <1>10, <2>1, WorkFields, WorkClosed DEF ClaimsMarkers, Places, Waiting, Creating, Moving, Settling, Cleaning
  <2>4. Fits(r, req'[r]) /\ req'[r].now \subseteq past
    BY <1>0, <1>10, <2>1 DEF ClaimsMarkers, Work, Fits, KindOfPlace, Working, Scope, ByInvite, RestoresEntry, HasGroup,
              Waiting, Creating, Moving, Settling, Cleaning
  <2> QED BY <2>2, <2>3, <2>4, GoesOn
<1>11. CASE FindsCandidates(r, L)
  <2>1. PICK m \in DOMAIN req[r].batch :
          \/ req' = [req EXCEPT ![r] = AfterMarker(r, m)]
          \/ req' = [req EXCEPT ![r].pc = "references", ![r].mark = m,
                               ![r].found = Candidates(L, m, req[r].batch[m])]
    BY <1>11 DEF FindsCandidates
  <2>2. req[r].pc = "candidates" /\ m \in Requests
    BY <1>0, <1>11, <2>1, WorkFields, MarkersTyped DEF FindsCandidates
  <2>3. CASE req' = [req EXCEPT ![r] = AfterMarker(r, m)]
    BY <1>0, <2>2, <2>3, AfterMarkerFits, GoesOn DEF Settling
  <2>4. CASE req' = [req EXCEPT ![r].pc = "references", ![r].mark = m,
                               ![r].found = Candidates(L, m, req[r].batch[m])]
    <3>1. Candidates(L, m, req[r].batch[m]) \in SUBSET Pairs
      BY ReadsTyped
    <3>2. req' = [req EXCEPT ![r] = req'[r]]
      BY <1>0, <2>4
    <3>3. req'[r] \in Work
      BY <1>0, <2>2, <2>4, <3>1, WorkClosed DEF Places, Waiting, Creating, Moving, Settling, Cleaning
    <3>4. Fits(r, req'[r]) /\ req'[r].now \subseteq past
      BY <1>0, <2>1, <2>2, <2>4 DEF Work, Fits, KindOfPlace, Working, Scope, ByInvite, RestoresEntry, HasGroup,
              Waiting, Creating, Moving, Settling, Cleaning
    <3> QED BY <3>2, <3>3, <3>4, GoesOn
  <2> QED BY <2>1, <2>3, <2>4
<1>12. CASE ReadsReferences(r, kv)
  <2>1. req' = [req EXCEPT ![r] = req'[r]]
    BY <1>0, <1>12 DEF ReadsReferences
  <2>2. req'[r] \in Work
    BY <1>0, <1>12, WorkFields, WorkClosed, ReadsTyped DEF ReadsReferences, Places, Waiting, Creating, Moving, Settling, Cleaning
  <2>3. Fits(r, req'[r]) /\ req'[r].now \subseteq past
    BY <1>0, <1>12 DEF ReadsReferences, Work, Fits, KindOfPlace, Working, Scope, ByInvite, RestoresEntry, HasGroup,
              Waiting, Creating, Moving, Settling, Cleaning
  <2> QED BY <2>1, <2>2, <2>3, GoesOn
<1>13. CASE DropsAbandoned(r)
  <2>1. req' = [req EXCEPT ![r] = req'[r]]
    BY <1>0, <1>13 DEF DropsAbandoned
  <2>2. req'[r] \in Work
    BY <1>0, <1>13, WorkFields, WorkClosed DEF DropsAbandoned, Places, Waiting, Creating, Moving, Settling, Cleaning
  <2>3. Fits(r, req'[r]) /\ req'[r].now \subseteq past
    BY <1>0, <1>13 DEF DropsAbandoned, Work, Fits, KindOfPlace, Working, Scope, ByInvite, RestoresEntry, HasGroup,
              Waiting, Creating, Moving, Settling, Cleaning
  <2> QED BY <2>1, <2>2, <2>3, GoesOn
<1>14. CASE Resolves(r)
  BY <1>0, <1>14, AfterMarkerFits, GoesOn DEF Resolves, Settling
<1>15. CASE ReadsProtected(r, kv)
  <2>1. req' = [req EXCEPT ![r] = req'[r]]
    BY <1>0, <1>15 DEF ReadsProtected
  <2>2. req'[r] \in Work
    BY <1>0, <1>15, WorkFields, WorkClosed, ReadsTyped DEF ReadsProtected, Places, Waiting, Creating, Moving, Settling, Cleaning
  <2>3. Fits(r, req'[r]) /\ req'[r].now \subseteq past
    BY <1>0, <1>15 DEF ReadsProtected, Work, Fits, KindOfPlace, Working, Scope, ByInvite, RestoresEntry, HasGroup,
              Waiting, Creating, Moving, Settling, Cleaning
  <2> QED BY <2>1, <2>2, <2>3, GoesOn
<1>16. CASE RemovesNetworks(r, L)
  <2>1. req' = [req EXCEPT ![r] = req'[r]]
    BY <1>0, <1>16 DEF RemovesNetworks
  <2>2. req'[r] \in Work
    BY <1>0, <1>16, WorkFields, WorkClosed DEF RemovesNetworks, AfterRemoval, Places, Waiting, Creating, Moving, Settling, Cleaning
  <2>3. Fits(r, req'[r]) /\ req'[r].now \subseteq past
    BY <1>0, <1>16 DEF RemovesNetworks, AfterRemoval, Work, Fits, KindOfPlace, Working, Scope, ByInvite, RestoresEntry, HasGroup,
              Waiting, Creating, Moving, Settling, Cleaning
  <2> QED BY <2>1, <2>2, <2>3, GoesOn
<1>17. CASE ReadsTrash(r)
  <2>1. CASE req[r].kind = "delete"
    <3>1. trash \in SUBSET Binned
      BY DEF StoreTyped
    <3>2. req' = [req EXCEPT ![r].bin = trash, ![r].pc = "save"] /\ req[r].pc = "bin"
      BY <1>17, <2>1, <3>1 DEF ReadsTrash
    <3>3. req' = [req EXCEPT ![r] = req'[r]]
      BY <1>0, <3>2
    <3>4. req'[r] \in Work
      BY <1>0, <1>17, <2>1, <3>1, <3>2, WorkFields, WorkClosed DEF Places, Waiting, Creating, Moving, Settling, Cleaning
    <3>5. Fits(r, req'[r]) /\ req'[r].now \subseteq past
      BY <1>0, <1>17, <2>1, <3>1, <3>2 DEF Work, Fits, KindOfPlace, Working, Scope, ByInvite, RestoresEntry, HasGroup,
              Waiting, Creating, Moving, Settling, Cleaning
    <3> QED BY <3>3, <3>4, <3>5, GoesOn
  <2>2. CASE req[r].kind # "delete" /\ {b \in trash : b.id = req[r].gid} = {}
    BY <1>0, <1>17, <2>2, EndsGo DEF ReadsTrash
  <2>3. CASE req[r].kind = "restore" /\ {b \in trash : b.id = req[r].gid} # {}
    <3>1. trash \in SUBSET Binned
      BY DEF StoreTyped
    <3>2. EntryOf(trash, req[r].gid) \in trash
      BY <1>17, <2>3 DEF EntryOf
    <3>3. PICK ips \in SUBSET Networks : ips = EntryOf(trash, req[r].gid).group.ips
      BY <3>2, ReadsTyped DEF Group
    <3>4. req' = [req EXCEPT ![r].bin = trash, ![r].ips = ips, ![r].pc = "read"] /\ req[r].pc = "bin"
      BY <1>17, <2>3, <3>1, <3>2, <3>3 DEF ReadsTrash
    <3>5. req' = [req EXCEPT ![r] = req'[r]]
      BY <1>0, <3>4
    <3>6. req'[r] \in Work
      BY <1>0, <1>17, <2>3, <3>1, <3>2, <3>3, <3>4, WorkFields, WorkClosed DEF Places, Waiting, Creating, Moving, Settling, Cleaning
    <3>7. Fits(r, req'[r]) /\ req'[r].now \subseteq past
      BY <1>0, <1>17, <2>3, <3>1, <3>2, <3>3, <3>4 DEF Work, Fits, KindOfPlace, Working, Scope, ByInvite, RestoresEntry, HasGroup,
              Waiting, Creating, Moving, Settling, Cleaning
    <3> QED BY <3>5, <3>6, <3>7, GoesOn
  <2>4. CASE req[r].kind = "purge" /\ {b \in trash : b.id = req[r].gid} # {}
    <3>1. trash \in SUBSET Binned
      BY DEF StoreTyped
    <3>2. EntryOf(trash, req[r].gid) \in trash
      BY <1>17, <2>4 DEF EntryOf
    <3>3. PICK ips \in SUBSET Networks : ips = EntryOf(trash, req[r].gid).group.ips
      BY <3>2, ReadsTyped DEF Group
    <3>4. req' = [req EXCEPT ![r].bin = trash, ![r].ips = ips, ![r].pc = "protect"] /\ req[r].pc = "bin"
      BY <1>17, <2>4, <3>1, <3>2, <3>3 DEF ReadsTrash
    <3>5. req' = [req EXCEPT ![r] = req'[r]]
      BY <1>0, <3>4
    <3>6. req'[r] \in Work
      BY <1>0, <1>17, <2>4, <3>1, <3>2, <3>3, <3>4, WorkFields, WorkClosed DEF Places, Waiting, Creating, Moving, Settling, Cleaning
    <3>7. Fits(r, req'[r]) /\ req'[r].now \subseteq past
      BY <1>0, <1>17, <2>4, <3>1, <3>2, <3>3, <3>4 DEF Work, Fits, KindOfPlace, Working, Scope, ByInvite, RestoresEntry, HasGroup,
              Waiting, Creating, Moving, Settling, Cleaning
    <3> QED BY <3>5, <3>6, <3>7, GoesOn
  <2> QED BY <1>0, <1>17, <2>1, <2>2, <2>3, <2>4 DEF ReadsTrash, Fits, KindOfPlace
<1>18. CASE SavesTrash(r)
  <2>1. CASE trash = req[r].bin
    <3>1. req' = [req EXCEPT ![r].pc = "put"] /\ req[r].pc = "save"
      BY <1>18, <2>1 DEF SavesTrash
    <3>2. req' = [req EXCEPT ![r] = req'[r]]
      BY <1>0, <3>1
    <3>3. req'[r] \in Work
      BY <1>0, <1>18, <2>1, <3>1, WorkFields, WorkClosed DEF Places, Waiting, Creating, Moving, Settling, Cleaning
    <3>4. Fits(r, req'[r]) /\ req'[r].now \subseteq past
      BY <1>0, <1>18, <2>1, <3>1 DEF Work, Fits, KindOfPlace, Working, Scope, ByInvite, RestoresEntry, HasGroup,
              Waiting, Creating, Moving, Settling, Cleaning
    <3> QED BY <3>2, <3>3, <3>4, GoesOn
  <2>2. CASE trash # req[r].bin
    BY <1>0, <1>18, <2>2, EndsGo DEF SavesTrash
  <2> QED BY <1>18, <2>1, <2>2
<1>19. CASE EmptiesTrash(r)
  BY <1>0, <1>19, EndsGo DEF EmptiesTrash
<1>20. CASE Scans(r, kv)
  <2>1. IpsInForce(kv, req[r].now) \in SUBSET Networks
    BY ScanTyped
  <2>2. IpsExpired(kv, req[r].now) \in SUBSET Networks
    BY ScanTyped
  <2>3. PlanAt(kv, req[r].now) \in Plans
    BY ScanTyped
  <2>4. req' = [req EXCEPT ![r] = req'[r]]
    BY <1>0, <1>20 DEF Scans
  <2>5. req'[r] \in Work
    BY <1>0, <1>20, <2>1, <2>2, <2>3, WorkFields, WorkClosed DEF Scans, IpsInForce, IpsExpired, PlanAt, Places, Waiting, Creating, Moving, Settling, Cleaning
  <2>6. Fits(r, req'[r]) /\ req'[r].now \subseteq past
    BY <1>0, <1>20, <2>1, <2>2, <2>3 DEF Scans, Work, Fits, KindOfPlace, Working, Scope, ByInvite, RestoresEntry, HasGroup,
              Waiting, Creating, Moving, Settling, Cleaning
  <2> QED BY <2>4, <2>5, <2>6, GoesOn
<1>21. CASE PutsUpdate(r)
  <2>1. PICK u : req' = [req EXCEPT ![r].plan = Without(req[r].plan, {u}),
                            ![r].pc = IF DOMAIN req[r].plan = {u} THEN "comments" ELSE req[r].pc]
    BY <1>0, <1>21 DEF PutsUpdate
  <2>2. Without(req[r].plan, {u}) \in Plans /\ req[r].pc = "update"
    BY <1>0, <1>21, WorkFields, PlansTyped DEF PutsUpdate
  <2>3. req' = [req EXCEPT ![r] = req'[r]]
    BY <1>0, <2>1
  <2>4. req'[r] \in Work
    BY <1>0, <2>1, <2>2, WorkClosed DEF Places, Waiting, Creating, Moving, Settling, Cleaning
  <2>5. Fits(r, req'[r]) /\ req'[r].now \subseteq past
    BY <1>0, <2>1, <2>2 DEF Work, Fits, KindOfPlace, Working, Scope, ByInvite, RestoresEntry, HasGroup,
              Waiting, Creating, Moving, Settling, Cleaning
  <2> QED BY <2>3, <2>4, <2>5, GoesOn
<1>22. CASE ListsComments(r)
  <2>1. DOMAIN ledger \in SUBSET Requests
    BY MarkersTyped DEF StoreTyped
  <2>2. req' = [req EXCEPT ![r] = req'[r]]
    BY <1>0, <1>22 DEF ListsComments
  <2>3. req'[r] \in Work
    BY <1>0, <1>22, <2>1, WorkFields, WorkClosed DEF ListsComments, Places, Waiting, Creating, Moving, Settling, Cleaning
  <2>4. Fits(r, req'[r]) /\ req'[r].now \subseteq past
    BY <1>0, <1>22, <2>1 DEF ListsComments, Work, Fits, KindOfPlace, Working, Scope, ByInvite, RestoresEntry, HasGroup,
              Waiting, Creating, Moving, Settling, Cleaning
  <2> QED BY <2>2, <2>3, <2>4, GoesOn
<1>23. CASE Surveys(r, kv)
  <2>1. req' = [req EXCEPT ![r] = req'[r]]
    BY <1>0, <1>23 DEF Surveys
  <2>2. req'[r] \in Work
    BY <1>0, <1>23, WorkFields, WorkClosed, ReadsTyped DEF Surveys, Places, Waiting, Creating, Moving, Settling, Cleaning
  <2>3. Fits(r, req'[r]) /\ req'[r].now \subseteq past
    BY <1>0, <1>23 DEF Surveys, Work, Fits, KindOfPlace, Working, Scope, ByInvite, RestoresEntry, HasGroup,
              Waiting, Creating, Moving, Settling, Cleaning
  <2> QED BY <2>1, <2>2, <2>3, GoesOn
<1>24. CASE Sweeps(r, L)
  BY <1>0, <1>24, EndsGo DEF Sweeps
<1>25. CASE Claims(r)
  <2>1. CASE CanClaim(r, ScopeOf(r))
    <3>1. req[r].pc = "claim" /\ ScopeOf(r) \in Scopes /\ ScopeOf(r) = Scope(req[r])
      BY <1>0, <1>25, <2>1 DEF Claims, ScopeOf, Scopes, Scope, ByInvite, Fits
    <3>2. PICK c \in {"list", "read", "bin", "markers"} :
            /\ c = First(req[r].kind)
            /\ c = "list" => req[r].kind = "add"
            /\ c = "read" => req[r].kind \in {"extend", "delete"}
            /\ c = "bin" => req[r].kind \in {"restore", "purge"}
            /\ c = "markers" => req[r].kind = "cleanup"
      BY <1>0, <3>1 DEF Fits, Work, First
    <3>3. req' = [req EXCEPT ![r].pc = c, ![r].hold = {ScopeOf(r)}]
      BY <1>25, <2>1, <3>1, <3>2 DEF Claims
    <3>4. req' = [req EXCEPT ![r] = req'[r]]
      BY <1>0, <3>3
    <3>5. req'[r] \in Work
      BY <1>0, <1>25, <2>1, <3>1, <3>2, <3>3, WorkFields, WorkClosed DEF Places, Waiting, Creating, Moving, Settling, Cleaning
    <3>6. Fits(r, req'[r]) /\ req'[r].now \subseteq past
      BY <1>0, <1>25, <2>1, <3>1, <3>2, <3>3 DEF Work, Fits, KindOfPlace, Working, Scope, ByInvite, RestoresEntry, HasGroup,
              Waiting, Creating, Moving, Settling, Cleaning
    <3> QED BY <3>4, <3>5, <3>6, GoesOn
  <2>2. CASE ~CanClaim(r, ScopeOf(r))
    BY <1>0, <1>25, <2>2, EndsGo DEF Claims
  <2> QED BY <1>25, <2>1, <2>2
<1>26. CASE Releases(r)
  <2>1. PICK s : req' = [req EXCEPT ![r] = WithoutLease(r, s)]
    BY <1>26 DEF Releases
  <2>2. req[r].pc = "release"
    BY <1>26 DEF Releases
  <2> QED BY <1>0, <2>1, <2>2, WithoutLeaseFits, GoesOn
<1>27. CASE Upgrades(r)
  <2>1. CASE CanClaim(r, All)
    <3>1. req[r].hold \cup {All} \in SUBSET Scopes
      BY <1>0, WorkFields DEF Scopes
    <3>2. req' = [req EXCEPT ![r].pc = "marker", ![r].hold = req[r].hold \cup {All}] /\ req[r].pc = "upgrade"
      BY <1>27, <2>1, <3>1 DEF Upgrades
    <3>3. req' = [req EXCEPT ![r] = req'[r]]
      BY <1>0, <3>2
    <3>4. req'[r] \in Work
      BY <1>0, <1>27, <2>1, <3>1, <3>2, WorkFields, WorkClosed DEF Places, Waiting, Creating, Moving, Settling, Cleaning
    <3>5. Fits(r, req'[r]) /\ req'[r].now \subseteq past
      BY <1>0, <1>27, <2>1, <3>1, <3>2 DEF Work, Fits, KindOfPlace, Working, Scope, ByInvite, RestoresEntry, HasGroup,
              Waiting, Creating, Moving, Settling, Cleaning
    <3> QED BY <3>3, <3>4, <3>5, GoesOn
  <2>2. CASE ~CanClaim(r, All)
    BY <1>0, <1>27, <2>2, EndsGo DEF Upgrades
  <2> QED BY <1>27, <2>1, <2>2
<1> QED BY <1>1, <1>2, <1>3, <1>4, <1>5, <1>6, <1>7, <1>8, <1>9, <1>10, <1>11, <1>12, <1>13, <1>14, <1>15, <1>16, <1>17, <1>18, <1>19, <1>20, <1>21, <1>22, <1>23, <1>24, <1>25, <1>26, <1>27 DEF Moves, Looks

LEMMA FailsGo ==
    ASSUME StoreTyped, Jobs, NEW r \in Actors, NEW L \in Listings, Falters(r, L)
    PROVE  Goes(r)
<1>0. /\ req \in [Actors -> Work] /\ req[r] \in Work
      /\ Fits(r, req[r]) /\ req[r].now \subseteq past
      /\ Working(req[r]) /\ req[r].kind # "cleanup" => r \in Requests /\ req[r].uuid \in Invites
      /\ r # Nobody
      /\ "none" \in Outcomes /\ "ok" \in Outcomes /\ "failed" \in Outcomes /\ "busy" \in Outcomes
  BY AtWork, DistinctAssumption DEF Outcomes, Actors
<1>1. CASE ClaimReplyLost(r)
  BY <1>0, <1>1, EndsGo DEF ClaimReplyLost
<1>2. CASE ReleaseFails(r)
  <2>1. PICK s : req' = [req EXCEPT ![r] = WithoutLease(r, s)]
    BY <1>2 DEF ReleaseFails
  <2>2. req[r].pc = "release"
    BY <1>2 DEF ReleaseFails
  <2> QED BY <1>0, <2>1, <2>2, WithoutLeaseFits, GoesOn
<1>3. CASE ReadFails(r)
  <2>1. CASE req' = [req EXCEPT ![r] = Ending(r, "failed")]
    BY <1>0, <2>1, EndsGo
  <2>2. CASE /\ req[r].pc \in {"relist", "note"}
             /\ req' = [req EXCEPT ![r].pc = "upgrade", ![r].mark = r, ![r].found = {}]
    <3>1. r \in Requests /\ {} \in SUBSET Pairs
      BY <1>0, <2>2 DEF Working, Waiting, Fits, KindOfPlace, Creating
    <3>2. req' = [req EXCEPT ![r] = req'[r]]
      BY <1>0, <2>2
    <3>3. req'[r] \in Work
      BY <1>0, <2>2, <3>1, WorkClosed DEF Places, Waiting, Creating, Moving, Settling, Cleaning
    <3>4. Fits(r, req'[r]) /\ req'[r].now \subseteq past
      BY <1>0, <2>2, <3>1 DEF Work, Fits, KindOfPlace, Working, Scope, ByInvite, RestoresEntry, HasGroup,
              Waiting, Creating, Moving, Settling, Cleaning
    <3> QED BY <3>2, <3>3, <3>4, GoesOn
  <2> QED BY <1>3, <2>1, <2>2 DEF ReadFails
<1>4. CASE RegisterFails(r)
  BY <1>0, <1>4, EndsGo DEF RegisterFails
<1>5. CASE CreateFails(r)
  <2>1. req' = [req EXCEPT ![r].pc = "relist"] /\ req[r].pc = "create"
    BY <1>5 DEF CreateFails
  <2>2. req' = [req EXCEPT ![r] = req'[r]]
    BY <1>0, <2>1
  <2>3. req'[r] \in Work
    BY <1>0, <2>1, WorkClosed DEF Places, Waiting, Creating, Moving, Settling, Cleaning
  <2>4. Fits(r, req'[r]) /\ req'[r].now \subseteq past
    BY <1>0, <2>1 DEF Work, Fits, KindOfPlace, Working, Scope, ByInvite, RestoresEntry, HasGroup,
            Waiting, Creating, Moving, Settling, Cleaning
  <2> QED BY <2>2, <2>3, <2>4, GoesOn
<1>6. CASE PutFails(r)
  <2>1. CASE req' = [req EXCEPT ![r] = Ending(r, "failed")]
    BY <1>0, <2>1, EndsGo
  <2>2. CASE /\ req[r].pc = "put" /\ req[r].mark = r
             /\ req' = [req EXCEPT ![r].pc = "upgrade"]
    <3>1. req' = [req EXCEPT ![r] = req'[r]]
      BY <1>0, <2>2
    <3>2. req'[r] \in Work
      BY <1>0, <2>2, WorkClosed DEF Places, Waiting, Creating, Moving, Settling, Cleaning
    <3>3. Fits(r, req'[r]) /\ req'[r].now \subseteq past
      BY <1>0, <2>2 DEF Work, Fits, KindOfPlace, Working, Scope, ByInvite, RestoresEntry, HasGroup,
              Waiting, Creating, Moving, Settling, Cleaning
    <3> QED BY <3>1, <3>2, <3>3, GoesOn
  <2> QED BY <1>6, <2>1, <2>2 DEF PutFails
<1>7. CASE FinalizeFails(r)
  <2>1. CASE req[r].kind = "restore"
    <3>1. req' = [req EXCEPT ![r].pc = "empty"] /\ req[r].pc = "finalize"
      BY <1>7, <2>1 DEF FinalizeFails
    <3>2. req' = [req EXCEPT ![r] = req'[r]]
      BY <1>0, <3>1
    <3>3. req'[r] \in Work
      BY <1>0, <3>1, WorkClosed DEF Places, Waiting, Creating, Moving, Settling, Cleaning
    <3>4. Fits(r, req'[r]) /\ req'[r].now \subseteq past
      BY <1>0, <2>1, <3>1 DEF Work, Fits, KindOfPlace, Working, Scope, ByInvite, RestoresEntry, HasGroup,
              Waiting, Creating, Moving, Settling, Cleaning
    <3> QED BY <3>2, <3>3, <3>4, GoesOn
  <2>2. CASE req[r].kind # "restore"
    BY <1>0, <1>7, <2>2, EndsGo DEF FinalizeFails
  <2> QED BY <2>1, <2>2
<1>8. CASE TrashFails(r)
  BY <1>0, <1>8, EndsGo DEF TrashFails
<1>9. CASE CompensationFails(r)
  <2>1. PICK m : req' = [req EXCEPT ![r] = AfterMarker(r, m)]
    BY <1>9 DEF CompensationFails
  <2>2. req[r].pc \in Settling
    BY <1>9 DEF CompensationFails, Settling
  <2> QED BY <1>0, <2>1, <2>2, AfterMarkerFits, GoesOn
<1>10. CASE DeleteFails(r, L)
  <2>1. CASE req[r].pc = "drop"
    BY <1>0, <1>10, <2>1, AfterMarkerFits, GoesOn DEF DeleteFails, Settling
  <2>2. CASE req[r].pc # "drop"
    BY <1>0, <1>10, <2>2, EndsGo DEF DeleteFails
  <2> QED BY <2>1, <2>2
<1>11. CASE CutOff(r)
  BY <1>0, <1>11, EndsGo DEF CutOff
<1> QED BY <1>1, <1>2, <1>3, <1>4, <1>5, <1>6, <1>7, <1>8, <1>9, <1>10, <1>11 DEF Falters

(* A request begins, with a group and an invite, or a run with a time.        *)
LEMMA BeginsGo ==
    ASSUME StoreTyped, Jobs, NEW r \in Actors, Starts(r) \/ CronStarts(r)
    PROVE  Goes(r)
<1>0. req \in [Actors -> Work]
  BY AtWork
<1>1. CASE Starts(r)
  <2>1. PICK kind \in Kinds, u \in Invites, gid \in Names, S \in SUBSET Networks :
          /\ CASE kind = "add" -> S # {} /\ gid = u
               [] kind \in {"extend", "delete"} ->
                     S = {} /\ \E i \in DOMAIN records[u] : records[u][i].id = gid
               [] OTHER -> S = {} /\ \E b \in trash : b.id = gid /\ b.uuid = u
          /\ req' = [req EXCEPT ![r] = [Blank EXCEPT !.kind = kind, !.pc = "claim", !.uuid = u,
                                                     !.gid = gid, !.ips = S]]
    BY <1>1 DEF Starts
  <2> DEFINE w == [Blank EXCEPT !.kind = kind, !.pc = "claim", !.uuid = u, !.gid = gid, !.ips = S]
  <2>2. r \in Requests /\ r \notin Crons
    BY <1>1, DistinctAssumption DEF Starts
  <2>3. kind \in {"add", "extend", "delete", "restore", "purge"}
    BY <2>1, KindAssumption
  <2>4. w \in Work
    BY <2>3, EmptyTyped DEF Blank, Work, Places, Waiting
  <2>5. /\ w.kind = kind /\ w.pc = "claim" /\ w.uuid \in Invites /\ w.outcome = "none"
        /\ w.mark = Nobody /\ w.now = {}
    BY DEF Blank
  <2> HIDE DEF w
  <2>6. req' = [req EXCEPT ![r] = w]
    BY <2>1 DEF w
  <2>7. req' = [req EXCEPT ![r] = req'[r]] /\ req'[r] = w
    BY <1>0, <2>6
  <2>8. Fits(r, w)
    BY <2>2, <2>3, <2>5 DEF Fits, KindOfPlace, Working, Scope, ByInvite, RestoresEntry, HasGroup,
            Waiting, Creating, Moving, Settling, Cleaning
  <2> QED BY <2>4, <2>5, <2>7, <2>8, GoesOn
<1>2. CASE CronStarts(r)
  <2> DEFINE w == [Blank EXCEPT !.kind = "cleanup", !.pc = "claim", !.now = past]
  <2>1. past \in SUBSET Names /\ r \in Crons
    BY <1>2 DEF StoreTyped, CronStarts
  <2>2. w \in Work
    BY <2>1, EmptyTyped DEF Blank, Work, Places, Waiting
  <2>3. w.kind = "cleanup" /\ w.pc = "claim" /\ w.outcome = "none" /\ w.mark = Nobody /\ w.now = past
    BY DEF Blank
  <2> HIDE DEF w
  <2>4. req' = [req EXCEPT ![r] = w]
    BY <1>2 DEF CronStarts, w
  <2>5. req' = [req EXCEPT ![r] = req'[r]] /\ req'[r] = w
    BY <1>0, <2>4
  <2>6. Fits(r, w)
    BY <2>1, <2>3 DEF Fits, KindOfPlace, Working, Scope, ByInvite, RestoresEntry, HasGroup,
            Waiting, Creating, Moving, Settling, Cleaning
  <2> QED BY <2>2, <2>3, <2>5, <2>6, GoesOn
<1> QED BY <1>1, <1>2

LEMMA DoesGo ==
    ASSUME StoreTyped, Jobs, NEW r \in Actors, NEW L \in Listings, NEW kv \in Records, Does(r, L, kv)
    PROVE  Goes(r)
BY StepsGo, FailsGo, BeginsGo DEF Does

(* Nobody else's job is disturbed. *)
LEMMA JobsGoOn ==
    ASSUME StoreTyped, Jobs, NEW r \in Actors, Goes(r), past \subseteq past'
    PROVE  Jobs' /\ req' \in [Actors -> Work]
<1>1. ASSUME NEW q \in Actors PROVE Fits(q, req'[q]) /\ req'[q].now \subseteq past'
  <2>1. CASE q = r
    BY <2>1 DEF Goes
  <2>2. CASE q # r
    BY <2>2 DEF Goes, Jobs
  <2> QED BY <2>1, <2>2
<1> QED BY <1>1 DEF Jobs, Goes

-----------------------------------------------------------------------------
(* What requests write has its shape. *)
LEMMA NextGroupsTyped ==
    ASSUME StoreTyped, Jobs, NEW r \in Actors, req[r].pc = "put"
    PROVE  NextGroups(r) \in Groups
<1>1. /\ req[r].copy \in Groups /\ req[r].ips \in SUBSET Networks /\ req[r].bin \in SUBSET Binned
      /\ Fits(r, req[r])
  BY AtWork, WorkFields
<1>2. r \in Requests /\ r \in Names /\ Working(req[r]) /\ req[r].kind \in {"add", "extend", "restore", "delete"}
  BY <1>1 DEF Fits, KindOfPlace, Working, Waiting, Actors, Names
<1>3. CASE req[r].kind = "add"
  <2>1. [id |-> r, ips |-> req[r].ips, until |-> r] \in Group
    BY <1>1, <1>2 DEF Group
  <2> QED BY <1>1, <1>3, <2>1, KeptGroups DEF NextGroups
<1>4. CASE req[r].kind = "restore"
  <2>1. Entry(r) \in req[r].bin
    BY <1>1, <1>2, <1>4 DEF Fits, RestoresEntry, Entry, Settling
  <2>2. Entry(r).group \in Group
    BY <1>1, <2>1 DEF Binned
  <2> QED BY <1>1, <1>4, <2>2, KeptGroups DEF NextGroups
<1>5. CASE req[r].kind = "extend"
  <2> DEFINE copy == req[r].copy
             next(i) == IF copy[i].id = req[r].gid THEN [copy[i] EXCEPT !.until = r] ELSE copy[i]
  <2>1. copy \in Seq(Group) /\ DOMAIN copy = 1..Len(copy) /\ Len(copy) \in Nat /\ Len(copy) <= MaxGroups
    BY <1>1 DEF Groups
  <2>2. ASSUME NEW i \in DOMAIN copy PROVE next(i) \in Group
    <3>1. copy[i] \in Group
      BY <2>1
    <3> QED BY <1>2, <3>1 DEF Group
  <2>3. NextGroups(r) = [i \in DOMAIN copy |-> next(i)]
    BY <1>5 DEF NextGroups
  <2> HIDE DEF next, copy
  <2>4. NextGroups(r) \in [1..Len(copy) -> Group]
    BY <2>1, <2>2, <2>3
  <2>5. NextGroups(r) \in Seq(Group) /\ Len(NextGroups(r)) = Len(copy)
    BY <2>1, <2>4
  <2> QED BY <2>1, <2>5 DEF Groups
<1>6. CASE req[r].kind = "delete"
  <2> DEFINE I == DOMAIN req[r].copy \ Named(req[r].copy, req[r].gid)
  <2>1. I \in SUBSET (DOMAIN req[r].copy) /\ NextGroups(r) = At(req[r].copy, I)
    BY <1>6 DEF NextGroups
  <2> QED BY <1>1, <2>1, AtGroups
<1> QED BY <1>2, <1>3, <1>4, <1>5, <1>6

LEMMA DeletedTyped ==
    ASSUME StoreTyped, Jobs, NEW r \in Actors, req[r].pc = "save"
    PROVE  Deleted(r) \subseteq Binned
<1>1. /\ req[r].copy \in Groups /\ Fits(r, req[r]) /\ r \in Requests /\ req[r].uuid \in Invites
      /\ req[r].kind = "delete"
  BY AtWork, WorkFields DEF Fits, KindOfPlace, Working, Waiting
<1>2. Named(req[r].copy, req[r].gid) # {} /\ Named(req[r].copy, req[r].gid) \in SUBSET (DOMAIN req[r].copy)
  BY <1>1 DEF Fits, HasGroup, Named
<1>3. Find(req[r].copy, req[r].gid) \in Group
  BY <1>1, <1>2, AtGroups DEF Find
<1> QED BY <1>1, <1>3 DEF Deleted, Binned

LEMMA LedgerTyped ==
    ASSUME StoreTyped
    PROVE  /\ \A S : Without(ledger, S) \in Markers
           /\ \A status \in {"young", "due", "leased"} : \A m : Postponed(m, status) \in Markers
           /\ [m \in DOMAIN ledger |->
                 IF m \in Due THEN [ledger[m] EXCEPT !.status = "leased"] ELSE ledger[m]] \in Markers
           /\ \A m \in DOMAIN ledger, F \in SUBSET Pairs : [ledger EXCEPT ![m].items = F] \in Markers
           /\ \A m \in DOMAIN ledger, status \in {"young", "due", "leased"} :
                 [ledger EXCEPT ![m].status = status] \in Markers
<1>1. PICK D \in SUBSET Requests : ledger \in [D -> Marker]
  BY DEF StoreTyped, Markers
<1>2. \A v \in Marker, status \in {"young", "due", "leased"} : [v EXCEPT !.status = status] \in Marker
  BY DEF Marker
<1>3. \A v \in Marker, F \in SUBSET Pairs : [v EXCEPT !.items = F] \in Marker
  BY DEF Marker
<1>4. ASSUME NEW m \in DOMAIN ledger, NEW status \in {"young", "due", "leased"}
      PROVE  [ledger EXCEPT ![m].status = status] \in Markers
  <2>1. [ledger EXCEPT ![m].status = status] \in [D -> Marker]
    BY <1>1, <1>2
  <2> QED BY <2>1 DEF Markers
<1>5. ASSUME NEW m \in DOMAIN ledger, NEW F \in SUBSET Pairs
      PROVE  [ledger EXCEPT ![m].items = F] \in Markers
  <2>1. [ledger EXCEPT ![m].items = F] \in [D -> Marker]
    BY <1>1, <1>3
  <2> QED BY <2>1 DEF Markers
<1>6. \A status \in {"young", "due", "leased"} : \A m : Postponed(m, status) \in Markers
  BY <1>4 DEF Postponed, StoreTyped
<1>7. [m \in DOMAIN ledger |->
         IF m \in Due THEN [ledger[m] EXCEPT !.status = "leased"] ELSE ledger[m]] \in Markers
  <2>1. \A m \in DOMAIN ledger :
           (IF m \in Due THEN [ledger[m] EXCEPT !.status = "leased"] ELSE ledger[m]) \in Marker
    BY <1>1, <1>2
  <2>2. [m \in DOMAIN ledger |->
           IF m \in Due THEN [ledger[m] EXCEPT !.status = "leased"] ELSE ledger[m]] \in [D -> Marker]
    BY <1>1, <2>1
  <2> QED BY <2>2 DEF Markers
<1>8. \A S : Without(ledger, S) \in Markers
  BY MarkersTyped DEF StoreTyped
<1> QED BY <1>4, <1>5, <1>6, <1>7, <1>8

LEMMA RegisteredTyped ==
    ASSUME StoreTyped, Jobs, NEW r \in Actors, req[r].pc = "register"
    PROVE  With(ledger, r, MarkerOf(r)) \in Markers
<1>1. r \in Requests /\ req[r].todo \in SUBSET Networks
  BY AtWork, WorkFields DEF Fits, KindOfPlace, Working, Waiting, Creating
<1>2. MarkerOf(r) \in Marker
  BY <1>1 DEF MarkerOf, Marker
<1> QED BY <1>1, <1>2, MarkersTyped DEF StoreTyped

LEMMA CallTyped ==
    ASSUME StoreTyped, Jobs, NEW r \in Actors, NEW L \in Listings
    PROVE  DeleteCall(r, L) \in SUBSET Pairs
<1>1. req[r].found \in SUBSET Pairs
  BY AtWork, WorkFields
<1>2. \A n \in DOMAIN L : <<n, L[n].id>> \in Pairs
  BY ReadsTyped DEF StoreTyped
<1> QED BY <1>1, <1>2 DEF DeleteCall, Abandoned, Unprotected, Orphans

(* The store keeps its shape under every step of a request. *)
ShapesKept ==
    /\ list' \in Listings
    /\ flight' \subseteq Flight /\ \A o \in flight' : o.op = "create" => o.by \in Requests
    /\ records' \in Records
    /\ trash' \subseteq Binned
    /\ ledger' \in Markers
    /\ past' = past

LEMMA StepsKeepShapes ==
    ASSUME StoreTyped, Jobs, NEW r \in Actors, NEW L \in Listings, NEW kv \in Records,
           Starts(r) \/ CronStarts(r) \/ Moves(r, L, kv)
    PROVE  ShapesKept
<1>0. /\ list \in Listings /\ flight \subseteq Flight /\ \A o \in flight : o.op = "create" => o.by \in Requests
      /\ records \in [Invites -> Groups]
      /\ trash \subseteq Binned /\ ledger \in Markers /\ req[r] \in Work
  BY AtWork DEF StoreTyped, Records
<1>1. CASE UNCHANGED <<cloud, store, ledger, past>>
  BY <1>0, <1>1 DEF ShapesKept, Records, cloud, store
<1>2. CASE Registers(r)
  BY <1>0, <1>2, RegisteredTyped DEF Registers, ShapesKept, Records, cloud, store
<1>3. CASE Creates(r)
  <2>1. r \in Requests /\ req[r].todo \in SUBSET Networks
    BY <1>0, <1>3, AtWork, WorkFields DEF Creates, Fits, KindOfPlace, Working, Waiting, Creating
  <2> QED BY <1>0, <1>3, <2>1, ListTyped DEF Creates, ShapesKept, Records, store
<1>4. CASE NotesItems(r)
  BY <1>0, <1>4, LedgerTyped, WorkFields DEF NotesItems, ShapesKept, Records, cloud, store
<1>5. CASE PutsRecords(r)
  BY <1>0, <1>5, NextGroupsTyped DEF PutsRecords, ShapesKept, Records, cloud
<1>6. CASE Finalizes(r)
  BY <1>0, <1>6, LedgerTyped DEF Finalizes, ShapesKept, Records, cloud, store
<1>7. CASE ClaimsMarkers(r)
  BY <1>0, <1>7, LedgerTyped DEF ClaimsMarkers, ShapesKept, Records, cloud, store
<1>8. CASE FindsCandidates(r, L)
  BY <1>0, <1>8, LedgerTyped DEF FindsCandidates, ShapesKept, Records, cloud, store
<1>9. CASE DropsAbandoned(r)
  BY <1>0, <1>9, ListTyped DEF DropsAbandoned, ShapesKept, Records, store
<1>10. CASE Resolves(r)
  BY <1>0, <1>10, LedgerTyped DEF Resolves, ShapesKept, Records, cloud, store
<1>11. CASE RemovesNetworks(r, L)
  BY <1>0, <1>11, ListTyped DEF RemovesNetworks, ShapesKept, Records, store
<1>12. CASE SavesTrash(r)
  BY <1>0, <1>12, DeletedTyped DEF SavesTrash, ShapesKept, Records, cloud
<1>13. CASE EmptiesTrash(r)
  BY <1>0, <1>13 DEF EmptiesTrash, ShapesKept, Records, cloud
<1>14. CASE PutsUpdate(r)
  BY <1>0, <1>14, WorkFields, PlansTyped DEF PutsUpdate, ShapesKept, Records, cloud
<1>15. CASE Sweeps(r, L)
  BY <1>0, <1>15, ListTyped DEF Sweeps, ShapesKept, Records, store
<1> QED BY <1>1, <1>2, <1>3, <1>4, <1>5, <1>6, <1>7, <1>8, <1>9, <1>10, <1>11, <1>12, <1>13, <1>14, <1>15
       DEF Moves, Looks, Starts, CronStarts, Claims, Releases, ListsItems, Relists, ReadsRecords, Upgrades, ReadsMarker,
           ReadsReferences, ReadsProtected, ReadsTrash, Scans, ListsComments, Surveys

LEMMA FailsKeepShapes ==
    ASSUME StoreTyped, Jobs, NEW r \in Actors, NEW L \in Listings, Falters(r, L)
    PROVE  ShapesKept
<1>0. /\ list \in Listings /\ flight \subseteq Flight /\ \A o \in flight : o.op = "create" => o.by \in Requests
      /\ records \in [Invites -> Groups]
      /\ trash \subseteq Binned /\ ledger \in Markers /\ req[r] \in Work
  BY AtWork DEF StoreTyped, Records
<1>1. CASE UNCHANGED <<cloud, store, ledger, past>>
  BY <1>0, <1>1 DEF ShapesKept, Records, cloud, store
<1>2. CASE RegisterFails(r)
  BY <1>0, <1>2, RegisteredTyped DEF RegisterFails, Trouble, Costs, ShapesKept, Records, cloud, store
<1>3. CASE CreateFails(r)
  <2> DEFINE new == [op |-> "create", by |-> r, ips |-> req[r].todo, items |-> {}]
  <2>1. new \in Flight /\ new.by = r
    BY <1>0, WorkFields DEF Flight
  <2>2. r \in Requests
    BY <1>3, AtWork DEF CreateFails, Fits, KindOfPlace, Working, Waiting, Creating
  <2>3. flight' = flight \cup {new}
    BY <1>3 DEF CreateFails
  <2> HIDE DEF new
  <2>4. flight' \subseteq Flight /\ \A o \in flight' : o.op = "create" => o.by \in Requests
    BY <1>0, <2>1, <2>2, <2>3
  <2> QED BY <1>0, <1>3, <2>4 DEF CreateFails, Trouble, Costs, ShapesKept, Records, store
<1>4. CASE PutFails(r)
  <2>1. CASE /\ req[r].pc = "put"
             /\ records' \in {records, [records EXCEPT ![req[r].uuid] = NextGroups(r)]}
    BY <1>0, <1>4, <2>1, NextGroupsTyped DEF PutFails, Trouble, Costs, ShapesKept, Records, cloud
  <2>2. CASE \E u \in DOMAIN req[r].plan : records' \in {records, [records EXCEPT ![u] = req[r].plan[u]]}
    BY <1>0, <1>4, <2>2, WorkFields, PlansTyped DEF PutFails, Trouble, Costs, ShapesKept, Records, cloud
  <2> QED BY <1>4, <2>1, <2>2 DEF PutFails
<1>5. CASE TrashFails(r)
  BY <1>0, <1>5, DeletedTyped DEF TrashFails, Trouble, Costs, ShapesKept, Records, cloud
<1>6. CASE CompensationFails(r)
  BY <1>0, <1>6, LedgerTyped DEF CompensationFails, Trouble, Costs, ShapesKept, Records, cloud, store
<1>7. CASE DeleteFails(r, L)
  <2> DEFINE new == [op |-> "delete", by |-> r, ips |-> {}, items |-> DeleteCall(r, L)]
  <2>1. new \in Flight /\ new.op = "delete"
    BY CallTyped DEF Flight
  <2>2. flight' = flight \/ flight' = flight \cup {new}
    BY <1>7 DEF DeleteFails
  <2> HIDE DEF new
  <2>3. flight' \subseteq Flight /\ \A o \in flight' : o.op = "create" => o.by \in Requests
    BY <1>0, <2>1, <2>2
  <2> QED BY <1>0, <1>7, <2>3, ListTyped, LedgerTyped DEF DeleteFails, Trouble, Costs, ShapesKept, Records, store
<1> QED BY <1>1, <1>2, <1>3, <1>4, <1>5, <1>6, <1>7
       DEF Falters, Trouble, Costs, ClaimReplyLost, ReleaseFails, ReadFails, FinalizeFails, CutOff

-----------------------------------------------------------------------------
(* Most steps name nothing new: markers keep what they were made for, and     *)
(* neither list nor calls under way have a comment they did not have.         *)
StoreCalm ==
    /\ DOMAIN ledger' \subseteq DOMAIN ledger
    /\ \A m \in DOMAIN ledger' : ledger'[m].values = ledger[m].values
    /\ \A n \in DOMAIN list' : n \in DOMAIN list /\ list'[n].comment = list[n].comment
    /\ \A o \in flight' : o.op = "create" => o \in flight

WorkCalm(r) ==
    /\ \A m \in DOMAIN req'[r].batch :
          \/ m \in DOMAIN req[r].batch /\ req'[r].batch[m] = req[r].batch[m]
          \/ m \in DOMAIN ledger /\ req'[r].batch[m] = ledger[m]
    /\ r \in Requests =>
          /\ BeforeMarker(req'[r]) => BeforeMarker(req[r])
          /\ req'[r].pc \in {"register", "create", "relist", "note"} => req'[r].todo \subseteq req'[r].ips
          /\ WithMarker(req'[r]) =>
                \/ WithMarker(req[r]) /\ req'[r].todo = req[r].todo /\ req'[r].ips = req[r].ips
                \/ BeforeMarker(req[r])

LEMMA CalmKeepsMarkers ==
    ASSUME MarkersSound, NEW r \in Actors, \A q \in Actors \ {r} : req'[q] = req[q], StoreCalm, WorkCalm(r)
    PROVE  MarkersSound'
<1>1. \A q \in Requests : q \in Actors
  BY DEF Actors
<1>2. ASSUME NEW m \in Requests, Unborn(m) PROVE Unborn(m)'
  <2>1. m \notin DOMAIN ledger' /\ \A n \in DOMAIN list' : list'[n].comment # m
    BY <1>2 DEF Unborn, StoreCalm
  <2>2. \A o \in flight' : o.op = "create" => o.by # m
    BY <1>2 DEF Unborn, StoreCalm
  <2>3. ASSUME NEW q \in Actors PROVE m \notin DOMAIN req'[q].batch
    BY <1>2 DEF Unborn, WorkCalm
  <2> QED BY <2>1, <2>2, <2>3 DEF Unborn
<1>3. MarkersPending'
  <2> SUFFICES ASSUME NEW q \in Requests, BeforeMarker(req'[q]) PROVE Unborn(q)'
    BY DEF MarkersPending
  <2>1. BeforeMarker(req[q])
    BY <1>1 DEF WorkCalm
  <2> QED BY <1>2, <2>1 DEF MarkersSound, MarkersPending
<1>4. TodoWanted'
  BY <1>1 DEF TodoWanted, MarkersSound, WorkCalm
<1>5. MarkerIsOwn'
  <2> SUFFICES ASSUME NEW q \in Requests, q \in DOMAIN ledger', WithMarker(req'[q])
               PROVE  ledger'[q].values = req'[q].todo /\ req'[q].todo \subseteq req'[q].ips
    BY DEF MarkerIsOwn
  <2>1. q \in DOMAIN ledger /\ ledger'[q].values = ledger[q].values
    BY DEF StoreCalm
  <2>2. ~BeforeMarker(req[q])
    BY <2>1 DEF MarkersSound, MarkersPending, Unborn
  <2>3. WithMarker(req[q]) /\ req'[q].todo = req[q].todo /\ req'[q].ips = req[q].ips
    BY <1>1, <2>2 DEF WorkCalm
  <2> QED BY <2>1, <2>3 DEF MarkersSound, MarkerIsOwn
<1>6. NamedAreMarked'
  BY DEF NamedAreMarked, MarkersSound, StoreCalm
<1>7. BatchIsLedger'
  <2> SUFFICES ASSUME NEW q \in Actors, NEW m \in Requests, m \in DOMAIN req'[q].batch, m \in DOMAIN ledger'
               PROVE  req'[q].batch[m].values = ledger'[m].values
    BY DEF BatchIsLedger
  <2>1. m \in DOMAIN ledger /\ ledger'[m].values = ledger[m].values
    BY DEF StoreCalm
  <2>2. \/ m \in DOMAIN req[q].batch /\ req'[q].batch[m] = req[q].batch[m]
        \/ req'[q].batch[m] = ledger[m]
    BY DEF WorkCalm
  <2> QED BY <2>1, <2>2 DEF MarkersSound, BatchIsLedger
<1> QED BY <1>3, <1>4, <1>5, <1>6, <1>7 DEF MarkersSound

(* How markers, items and requests change without a new name. *)
LEMMA RemainingCalm ==
    ASSUME NEW items
    PROVE  \A n \in DOMAIN Remaining(items) :
              n \in DOMAIN list /\ <<n, list[n].id>> \notin items /\ Remaining(items)[n] = list[n]
BY DEF Remaining, Without

LEMMA LedgerCalm ==
    ASSUME StoreTyped, NEW f,
           \/ \E S : f = Without(ledger, S)
           \/ \E m, status : f = Postponed(m, status)
           \/ f = [m \in DOMAIN ledger |->
                      IF m \in Due THEN [ledger[m] EXCEPT !.status = "leased"] ELSE ledger[m]]
           \/ \E m \in DOMAIN ledger : \E F : f = [ledger EXCEPT ![m].items = F]
           \/ \E m \in DOMAIN ledger : \E status : f = [ledger EXCEPT ![m].status = status]
           \/ f = ledger
    PROVE  DOMAIN f \subseteq DOMAIN ledger /\ \A m \in DOMAIN f : f[m].values = ledger[m].values
<1>1. \A m \in DOMAIN ledger : ledger[m] \in Marker
  BY MarkersTyped DEF StoreTyped
<1>2. \A v \in Marker : \A x : [v EXCEPT !.status = x].values = v.values /\ [v EXCEPT !.items = x].values = v.values
  BY DEF Marker
<1>3. CASE \E S : f = Without(ledger, S)
  BY <1>3 DEF Without
<1>4. CASE \E m \in DOMAIN ledger : \E status : f = [ledger EXCEPT ![m].status = status]
  BY <1>1, <1>2, <1>4
<1>5. CASE \E m, status : f = Postponed(m, status)
  <2>1. PICK m, status : f = Postponed(m, status)
    BY <1>5
  <2>2. CASE m \in DOMAIN ledger
    BY <1>1, <1>2, <2>1, <2>2 DEF Postponed
  <2>3. CASE m \notin DOMAIN ledger
    BY <2>1, <2>3 DEF Postponed
  <2> QED BY <2>2, <2>3
<1>6. CASE \E m \in DOMAIN ledger : \E F : f = [ledger EXCEPT ![m].items = F]
  BY <1>1, <1>2, <1>6
<1>7. CASE f = [m \in DOMAIN ledger |->
                   IF m \in Due THEN [ledger[m] EXCEPT !.status = "leased"] ELSE ledger[m]]
  BY <1>1, <1>2, <1>7
<1> QED BY <1>3, <1>4, <1>5, <1>6, <1>7

LEMMA EndsCalm ==
    ASSUME NEW r \in Actors, NEW outcome,
           req'[r] = Ending(r, outcome) \/ req'[r] = Finished(r, outcome)
    PROVE  WorkCalm(r)
<1>1. Blank.batch = <<>> /\ DOMAIN Blank.batch = {}
  BY DEF Blank
<1>2. DOMAIN req'[r].batch = {} /\ (r \in Requests => req'[r].pc \in {"release", "done"})
  BY <1>1, DistinctAssumption DEF Ending, Finished, Blank
<1> QED BY <1>2 DEF WorkCalm, BeforeMarker, WithMarker

LEMMA AfterMarkerCalm ==
    ASSUME StoreTyped, NEW r \in Actors, NEW m, req'[r] = AfterMarker(r, m)
    PROVE  WorkCalm(r)
<1>1. CASE r \in Crons
  <2>1. r \notin Requests
    BY <1>1, DistinctAssumption
  <2>2. req[r] \in Work
    BY DEF StoreTyped
  <2>3. req'[r].batch = Without(req[r].batch, {m})
    BY <1>1, <2>2 DEF AfterMarker, Work
  <2>4. \A x \in DOMAIN req'[r].batch : x \in DOMAIN req[r].batch /\ req'[r].batch[x] = req[r].batch[x]
    BY <2>3 DEF Without
  <2> QED BY <2>1, <2>4 DEF WorkCalm
<1>2. CASE r \notin Crons
  BY <1>2, EndsCalm DEF AfterMarker
<1> QED BY <1>1, <1>2

(* Every step but the registering and the creating is calm. *)
Novel(r) == Registers(r) \/ RegisterFails(r) \/ Creates(r) \/ CreateFails(r)

LEMMA StepsStoreCalm ==
    ASSUME StoreTyped, NEW r \in Actors, NEW L, NEW kv, Does(r, L, kv), ~Novel(r)
    PROVE  StoreCalm
<1>0. \A o : o \in flight \/ o = [op |-> "delete", by |-> r, ips |-> {}, items |-> DeleteCall(r, L)]
          => (o.op = "create" => o \in flight)
  OBVIOUS
<1>1. CASE UNCHANGED <<cloud, ledger>>
  BY <1>1 DEF StoreCalm, cloud
<1>2. CASE NotesItems(r)
  BY <1>2, LedgerCalm DEF NotesItems, StoreCalm, cloud
<1>3. CASE Finalizes(r)
  BY <1>3, LedgerCalm DEF Finalizes, StoreCalm, cloud
<1>4. CASE ClaimsMarkers(r)
  BY <1>4, LedgerCalm DEF ClaimsMarkers, StoreCalm, cloud
<1>5. CASE FindsCandidates(r, L)
  <2>1. UNCHANGED <<list, flight>> /\ (ledger' = ledger \/ \E m, status : ledger' = Postponed(m, status))
    BY <1>5 DEF FindsCandidates, cloud
  <2> QED BY <2>1, LedgerCalm DEF StoreCalm
<1>6. CASE Resolves(r)
  BY <1>6, LedgerCalm DEF Resolves, StoreCalm, cloud
<1>7. CASE CompensationFails(r)
  BY <1>7, LedgerCalm DEF CompensationFails, StoreCalm, cloud
<1>8. CASE DropsAbandoned(r)
  BY <1>8, RemainingCalm DEF DropsAbandoned, StoreCalm
<1>9. CASE RemovesNetworks(r, L)
  BY <1>9, RemainingCalm DEF RemovesNetworks, StoreCalm
<1>10. CASE Sweeps(r, L)
  BY <1>10, RemainingCalm DEF Sweeps, StoreCalm
<1>11. CASE DeleteFails(r, L)
  <2>1. DOMAIN ledger' \subseteq DOMAIN ledger /\ \A m \in DOMAIN ledger' : ledger'[m].values = ledger[m].values
    BY <1>11, LedgerCalm DEF DeleteFails
  <2>2. \A n \in DOMAIN list' : n \in DOMAIN list /\ list'[n].comment = list[n].comment
    <3>1. list' = list \/ list' = Remaining(DeleteCall(r, L))
      BY <1>11 DEF DeleteFails
    <3>2. \A n \in DOMAIN Remaining(DeleteCall(r, L)) : n \in DOMAIN list /\ Remaining(DeleteCall(r, L))[n] = list[n]
      BY RemainingCalm
    <3> QED BY <3>1, <3>2
  <2>3. \A o \in flight' : o \in flight \/ o = [op |-> "delete", by |-> r, ips |-> {}, items |-> DeleteCall(r, L)]
    BY <1>11 DEF DeleteFails
  <2> QED BY <1>0, <2>1, <2>2, <2>3 DEF StoreCalm
<1> QED BY <1>1, <1>2, <1>3, <1>4, <1>5, <1>6, <1>7, <1>8, <1>9, <1>10, <1>11
       DEF Novel, Does, Moves, Looks, Falters, Starts, CronStarts, Claims, Releases, ListsItems, Relists, ReadsRecords, PutsRecords, Upgrades,
           ReadsMarker, ReadsReferences, ReadsProtected, ReadsTrash, SavesTrash, EmptiesTrash, Scans, PutsUpdate,
           ListsComments, Surveys, ClaimReplyLost, ReleaseFails, ReadFails, PutFails, FinalizeFails, TrashFails, CutOff

LEMMA StepsWorkCalm ==
    ASSUME StoreTyped, Jobs, MarkersSound, NEW r \in Actors, NEW L, NEW kv, Does(r, L, kv), ~Novel(r)
    PROVE  WorkCalm(r)
<1>0. /\ req \in [Actors -> Work] /\ req[r] \in Work /\ Fits(r, req[r])
      /\ DOMAIN <<>> = {} /\ Blank.batch = <<>> /\ r # Nobody
      /\ (r \in Requests /\ req[r].pc = "relist") => req[r].todo \subseteq req[r].ips
  <2>1. DOMAIN <<>> = {} /\ Blank.batch = <<>> /\ r # Nobody
    BY DistinctAssumption DEF Blank, Actors
  <2>2. (r \in Requests /\ req[r].pc = "relist") => req[r].todo \subseteq req[r].ips
    BY DEF MarkersSound, TodoWanted
  <2> QED BY <2>1, <2>2, AtWork
<1>1. CASE Starts(r)
  <2>1. PICK kind \in Kinds, u \in Invites, gid \in Names, S \in SUBSET Networks :
          /\ CASE kind = "add" -> S # {} /\ gid = u
               [] kind \in {"extend", "delete"} ->
                     S = {} /\ \E i \in DOMAIN records[u] : records[u][i].id = gid
               [] OTHER -> S = {} /\ \E b \in trash : b.id = gid /\ b.uuid = u
          /\ req' = [req EXCEPT ![r] = [Blank EXCEPT !.kind = kind, !.pc = "claim", !.uuid = u,
                                                     !.gid = gid, !.ips = S]]
    BY <1>1 DEF Starts
  <2>2. req[r].pc = "idle" /\ req'[r].pc = "claim" /\ req'[r].batch = <<>>
    BY <1>0, <1>1, <2>1 DEF Starts, Blank
  <2> QED BY <1>0, <2>2 DEF WorkCalm, BeforeMarker, WithMarker
<1>2. CASE CronStarts(r)
  BY <1>0, <1>2 DEF CronStarts, Blank, WorkCalm, BeforeMarker, WithMarker, Work
<1>3. CASE ListsItems(r, L)
  BY <1>0, <1>3 DEF ListsItems, WorkCalm, BeforeMarker, WithMarker, Work
<1>4. CASE Relists(r, L)
  BY <1>0, <1>4 DEF Relists, WorkCalm, BeforeMarker, WithMarker, Work
<1>5. CASE NotesItems(r)
  BY <1>0, <1>5 DEF NotesItems, WorkCalm, BeforeMarker, WithMarker, Work
<1>6. CASE ReadsReferences(r, kv)
  BY <1>0, <1>6 DEF ReadsReferences, WorkCalm, BeforeMarker, WithMarker, Work
<1>7. CASE DropsAbandoned(r)
  BY <1>0, <1>7 DEF DropsAbandoned, WorkCalm, BeforeMarker, WithMarker, Work
<1>8. CASE ReadsProtected(r, kv)
  BY <1>0, <1>8 DEF ReadsProtected, WorkCalm, BeforeMarker, WithMarker, Work
<1>9. CASE RemovesNetworks(r, L)
  BY <1>0, <1>9 DEF RemovesNetworks, WorkCalm, BeforeMarker, WithMarker, Work, AfterRemoval, Fits, KindOfPlace
<1>10. CASE Scans(r, kv)
  BY <1>0, <1>10 DEF Scans, WorkCalm, BeforeMarker, WithMarker, Work
<1>11. CASE ListsComments(r)
  BY <1>0, <1>11 DEF ListsComments, WorkCalm, BeforeMarker, WithMarker, Work
<1>12. CASE Surveys(r, kv)
  BY <1>0, <1>12 DEF Surveys, WorkCalm, BeforeMarker, WithMarker, Work
<1>13. CASE EmptiesTrash(r)
  BY <1>0, <1>13, EndsCalm DEF EmptiesTrash
<1>14. CASE Sweeps(r, L)
  BY <1>0, <1>14, EndsCalm DEF Sweeps
<1>15. CASE TrashFails(r)
  BY <1>0, <1>15, EndsCalm DEF TrashFails
<1>16. CASE CutOff(r)
  BY <1>0, <1>16, EndsCalm DEF CutOff
<1>17. CASE ClaimReplyLost(r)
  BY <1>0, <1>17, EndsCalm DEF ClaimReplyLost
<1>18. CASE ReadsRecords(r, kv)
  <2>1. CASE \E outcome : req'[r] = Ending(r, outcome) \/ req'[r] = Finished(r, outcome)
    BY <2>1, EndsCalm
  <2>2. CASE ~\E outcome : req'[r] = Ending(r, outcome) \/ req'[r] = Finished(r, outcome)
    BY <1>0, <1>18, <2>2 DEF ReadsRecords, Fits, KindOfPlace, WorkCalm, BeforeMarker, WithMarker, Work
  <2> QED BY <2>1, <2>2
<1>19. CASE PutsRecords(r)
  <2>1. CASE \E outcome : req'[r] = Ending(r, outcome) \/ req'[r] = Finished(r, outcome)
    BY <2>1, EndsCalm
  <2>2. CASE ~\E outcome : req'[r] = Ending(r, outcome) \/ req'[r] = Finished(r, outcome)
    BY <1>0, <1>19, <2>2 DEF PutsRecords, Fits, KindOfPlace, WorkCalm, BeforeMarker, WithMarker, Work
  <2> QED BY <2>1, <2>2
<1>20. CASE Finalizes(r)
  <2>1. CASE \E outcome : req'[r] = Ending(r, outcome) \/ req'[r] = Finished(r, outcome)
    BY <2>1, EndsCalm
  <2>2. CASE ~\E outcome : req'[r] = Ending(r, outcome) \/ req'[r] = Finished(r, outcome)
    BY <1>0, <1>20, <2>2 DEF Finalizes, WorkCalm, BeforeMarker, WithMarker, Work
  <2> QED BY <2>1, <2>2
<1>21. CASE Upgrades(r)
  <2>1. CASE \E outcome : req'[r] = Ending(r, outcome) \/ req'[r] = Finished(r, outcome)
    BY <2>1, EndsCalm
  <2>2. CASE ~\E outcome : req'[r] = Ending(r, outcome) \/ req'[r] = Finished(r, outcome)
    BY <1>0, <1>21, <2>2 DEF Upgrades, WorkCalm, BeforeMarker, WithMarker, Work
  <2> QED BY <2>1, <2>2
<1>22. CASE ReadsTrash(r)
  <2>1. CASE \E outcome : req'[r] = Ending(r, outcome) \/ req'[r] = Finished(r, outcome)
    BY <2>1, EndsCalm
  <2>2. CASE ~\E outcome : req'[r] = Ending(r, outcome) \/ req'[r] = Finished(r, outcome)
    BY <1>0, <1>22, <2>2 DEF ReadsTrash, Fits, KindOfPlace, WorkCalm, BeforeMarker, WithMarker, Work
  <2> QED BY <2>1, <2>2
<1>23. CASE ReadFails(r)
  <2>1. CASE \E outcome : req'[r] = Ending(r, outcome) \/ req'[r] = Finished(r, outcome)
    BY <2>1, EndsCalm
  <2>2. CASE ~\E outcome : req'[r] = Ending(r, outcome) \/ req'[r] = Finished(r, outcome)
    BY <1>0, <1>23, <2>2 DEF ReadFails, WorkCalm, BeforeMarker, WithMarker, Work
  <2> QED BY <2>1, <2>2
<1>24. CASE PutFails(r)
  <2>1. CASE \E outcome : req'[r] = Ending(r, outcome) \/ req'[r] = Finished(r, outcome)
    BY <2>1, EndsCalm
  <2>2. CASE ~\E outcome : req'[r] = Ending(r, outcome) \/ req'[r] = Finished(r, outcome)
    BY <1>0, <1>24, <2>2 DEF PutFails, WorkCalm, BeforeMarker, WithMarker, Work
  <2> QED BY <2>1, <2>2
<1>25. CASE FinalizeFails(r)
  <2>1. CASE \E outcome : req'[r] = Ending(r, outcome) \/ req'[r] = Finished(r, outcome)
    BY <2>1, EndsCalm
  <2>2. CASE ~\E outcome : req'[r] = Ending(r, outcome) \/ req'[r] = Finished(r, outcome)
    BY <1>0, <1>25, <2>2 DEF FinalizeFails, WorkCalm, BeforeMarker, WithMarker, Work
  <2> QED BY <2>1, <2>2
<1>26. CASE SavesTrash(r)
  <2>1. CASE trash = req[r].bin
    BY <1>0, <1>26, <2>1 DEF SavesTrash, WorkCalm, BeforeMarker, WithMarker, Work, Fits, KindOfPlace
  <2>2. CASE trash # req[r].bin
    BY <1>0, <1>26, <2>2, EndsCalm DEF SavesTrash
  <2> QED BY <2>1, <2>2
<1>27. CASE Claims(r)
  <2>1. CASE req'[r] = Finished(r, "busy")
    BY <2>1, EndsCalm
  <2>2. CASE req'[r] # Finished(r, "busy")
    <3>1. /\ req[r].pc = "claim" /\ req'[r].pc = First(req[r].kind)
          /\ req'[r].kind = req[r].kind /\ req'[r].batch = req[r].batch
      BY <1>0, <1>27, <2>2 DEF Claims, Work
    <3>2. First(req[r].kind) \in {"list", "bin", "markers"} \/ (First(req[r].kind) = "read" /\ req[r].kind # "add")
      BY <1>0, <3>1 DEF First, Fits, Work
    <3> QED BY <3>1, <3>2 DEF WorkCalm, BeforeMarker, WithMarker
  <2> QED BY <2>1, <2>2
<1>28. CASE Releases(r)
  <2>1. PICK s : req' = [req EXCEPT ![r] = WithoutLease(r, s)]
    BY <1>28 DEF Releases
  <2>2. CASE req[r].hold = {s}
    BY <1>0, <2>1, <2>2, EndsCalm DEF WithoutLease
  <2>3. CASE req[r].hold # {s}
    BY <1>0, <1>28, <2>1, <2>3 DEF Releases, WithoutLease, WorkCalm, BeforeMarker, WithMarker, Work
  <2> QED BY <2>2, <2>3
<1>29. CASE ReleaseFails(r)
  <2>1. PICK s : req' = [req EXCEPT ![r] = WithoutLease(r, s)]
    BY <1>29 DEF ReleaseFails
  <2>2. CASE req[r].hold = {s}
    BY <1>0, <2>1, <2>2, EndsCalm DEF WithoutLease
  <2>3. CASE req[r].hold # {s}
    BY <1>0, <1>29, <2>1, <2>3 DEF ReleaseFails, WithoutLease, WorkCalm, BeforeMarker, WithMarker, Work
  <2> QED BY <2>2, <2>3
<1>30. CASE ReadsMarker(r)
  <2>1. CASE r \in DOMAIN ledger
    <3>1. req'[r].batch = With(<<>>, r, ledger[r]) /\ req'[r].pc = "candidates"
      BY <1>0, <1>30, <2>1 DEF ReadsMarker, Work
    <3>2. DOMAIN <<>> = {}
      OBVIOUS
    <3>3. DOMAIN req'[r].batch = {r} /\ req'[r].batch[r] = ledger[r]
      BY <3>1, <3>2 DEF With
    <3> QED BY <2>1, <3>1, <3>3 DEF WorkCalm, BeforeMarker, WithMarker
  <2>2. CASE r \notin DOMAIN ledger
    BY <1>0, <1>30, <2>2, EndsCalm DEF ReadsMarker
  <2> QED BY <2>1, <2>2
<1>31. CASE ClaimsMarkers(r)
  <2>1. req'[r].batch = [m \in Due |-> ledger[m]] /\ req'[r].pc \in {"scan", "candidates"}
    BY <1>0, <1>31 DEF ClaimsMarkers, Work
  <2>2. \A m \in DOMAIN req'[r].batch : m \in DOMAIN ledger /\ req'[r].batch[m] = ledger[m]
    BY <2>1 DEF Due
  <2> QED BY <2>1, <2>2 DEF WorkCalm, BeforeMarker, WithMarker
<1>32. CASE FindsCandidates(r, L)
  <2>1. PICK m :
          \/ req' = [req EXCEPT ![r] = AfterMarker(r, m)]
          \/ req' = [req EXCEPT ![r].pc = "references", ![r].mark = m,
                               ![r].found = Candidates(L, m, req[r].batch[m])]
    BY <1>32 DEF FindsCandidates
  <2>2. CASE req' = [req EXCEPT ![r] = AfterMarker(r, m)]
    BY <1>0, <2>2, AfterMarkerCalm
  <2>3. CASE req' = [req EXCEPT ![r].pc = "references", ![r].mark = m,
                               ![r].found = Candidates(L, m, req[r].batch[m])]
    BY <1>0, <2>3 DEF WorkCalm, BeforeMarker, WithMarker, Work
  <2> QED BY <2>1, <2>2, <2>3
<1>33. CASE Resolves(r)
  BY <1>0, <1>33, AfterMarkerCalm DEF Resolves
<1>34. CASE CompensationFails(r)
  BY <1>0, <1>34, AfterMarkerCalm DEF CompensationFails
<1>35. CASE DeleteFails(r, L)
  <2>1. CASE req[r].pc = "drop"
    BY <1>0, <1>35, <2>1, AfterMarkerCalm DEF DeleteFails
  <2>2. CASE req[r].pc # "drop"
    BY <1>0, <1>35, <2>2, EndsCalm DEF DeleteFails
  <2> QED BY <2>1, <2>2
<1>36. CASE PutsUpdate(r)
  <2>1. PICK u : req' = [req EXCEPT ![r].plan = Without(req[r].plan, {u}),
                            ![r].pc = IF DOMAIN req[r].plan = {u} THEN "comments" ELSE req[r].pc]
    BY <1>0, <1>36 DEF PutsUpdate
  <2>2. req[r].pc = "update"
    BY <1>36 DEF PutsUpdate
  <2> QED BY <1>0, <2>1, <2>2 DEF WorkCalm, BeforeMarker, WithMarker, Work
<1> QED BY <1>1, <1>2, <1>3, <1>4, <1>5, <1>6, <1>7, <1>8, <1>9, <1>10, <1>11, <1>12, <1>13, <1>14, <1>15, <1>16, <1>17, <1>18, <1>19, <1>20, <1>21, <1>22, <1>23, <1>24, <1>25, <1>26, <1>27, <1>28, <1>29, <1>30, <1>31, <1>32, <1>33, <1>34, <1>35, <1>36 DEF Does, Moves, Looks, Falters, Novel

(* A new marker names nothing that was there before it. *)
LEMMA RegisteringSound ==
    ASSUME StoreTyped, Jobs, MarkersSound, NEW r \in Actors, Registers(r) \/ RegisterFails(r)
    PROVE  MarkersSound'
<1>0. /\ req \in [Actors -> Work] /\ req[r] \in Work /\ r \in Requests /\ req[r].pc = "register"
      /\ DOMAIN <<>> = {} /\ Blank.batch = <<>>
  BY AtWork DEF Registers, RegisterFails, Fits, KindOfPlace, Working, Waiting, Creating, Blank
<1>1. /\ \A q \in Actors \ {r} : req'[q] = req[q]
      /\ UNCHANGED <<list, flight>>
      /\ ledger' = ledger \/ ledger' = With(ledger, r, MarkerOf(r))
  BY <1>0 DEF Registers, RegisterFails, cloud
<1>2. Unborn(r)
  BY <1>0 DEF MarkersSound, MarkersPending, BeforeMarker
<1>3. CASE ledger' = ledger /\ req' = [req EXCEPT ![r] = Ending(r, "failed")]
  <2>1. StoreCalm
    BY <1>1, <1>3 DEF StoreCalm
  <2>2. WorkCalm(r)
    BY <1>0, <1>3, EndsCalm
  <2> QED BY <1>1, <2>1, <2>2, CalmKeepsMarkers
<1>4. CASE /\ ledger' = With(ledger, r, MarkerOf(r))
           /\ \/ req' = [req EXCEPT ![r].pc = "create"]
              \/ req' = [req EXCEPT ![r] = Ending(r, "failed")]
  <2>1. /\ DOMAIN ledger' = DOMAIN ledger \cup {r}
        /\ ledger'[r].values = req[r].todo
        /\ \A m \in DOMAIN ledger : m # r /\ ledger'[m] = ledger[m]
    BY <1>2, <1>4 DEF With, MarkerOf, Unborn
  <2>2. /\ req'[r].pc \in {"create", "release"}
        /\ DOMAIN req'[r].batch \subseteq DOMAIN req[r].batch
        /\ \A m \in DOMAIN req'[r].batch : req'[r].batch[m] = req[r].batch[m]
        /\ req'[r].pc = "create" => req'[r].todo = req[r].todo /\ req'[r].ips = req[r].ips
    <3>1. CASE req' = [req EXCEPT ![r].pc = "create"]
      BY <1>0, <3>1 DEF Work
    <3>2. CASE req' = [req EXCEPT ![r] = Ending(r, "failed")]
      <4>1. req'[r] = Ending(r, "failed")
        BY <1>0, <3>2
      <4>2. req'[r].pc = "release" /\ req'[r].batch = <<>>
        BY <4>1 DEF Ending, Blank
      <4> QED BY <1>0, <4>2
    <3> QED BY <1>4, <3>1, <3>2
  <2>3. \A q \in Requests : q \in Actors
    BY DEF Actors
  <2>4. MarkersPending'
    <3> SUFFICES ASSUME NEW q \in Requests, BeforeMarker(req'[q]) PROVE Unborn(q)'
      BY DEF MarkersPending
    <3>1. q # r
      BY <2>2 DEF BeforeMarker
    <3>2. Unborn(q)
      BY <1>1, <2>3, <3>1 DEF MarkersSound, MarkersPending
    <3> QED BY <1>1, <2>1, <2>2, <3>1, <3>2 DEF Unborn
  <2>5. TodoWanted'
    BY <1>0, <1>1, <2>2, <2>3 DEF MarkersSound, TodoWanted
  <2>6. MarkerIsOwn'
    <3> SUFFICES ASSUME NEW q \in Requests, q \in DOMAIN ledger', WithMarker(req'[q])
                 PROVE  ledger'[q].values = req'[q].todo /\ req'[q].todo \subseteq req'[q].ips
      BY DEF MarkerIsOwn
    <3>1. CASE q = r
      BY <1>0, <2>1, <2>2, <3>1 DEF WithMarker, MarkersSound, TodoWanted
    <3>2. CASE q # r
      BY <1>1, <2>1, <2>3, <3>2 DEF MarkersSound, MarkerIsOwn
    <3> QED BY <3>1, <3>2
  <2>7. NamedAreMarked'
    BY <1>1, <1>2, <2>1 DEF MarkersSound, NamedAreMarked, Unborn
  <2>8. BatchIsLedger'
    <3> SUFFICES ASSUME NEW q \in Actors, NEW m \in Requests, m \in DOMAIN req'[q].batch, m \in DOMAIN ledger'
                 PROVE  req'[q].batch[m].values = ledger'[m].values
      BY DEF BatchIsLedger
    <3>1. m \in DOMAIN req[q].batch /\ req'[q].batch[m] = req[q].batch[m]
      BY <1>1, <2>2
    <3>2. m # r /\ m \in DOMAIN ledger
      BY <1>2, <2>1, <3>1 DEF Unborn
    <3> QED BY <2>1, <3>1, <3>2 DEF MarkersSound, BatchIsLedger
  <2> QED BY <2>4, <2>5, <2>6, <2>7, <2>8 DEF MarkersSound
<1> QED BY <1>1, <1>3, <1>4 DEF Registers, RegisterFails

(* What a create call puts on the list is what its marker was made for.       *)
LEMMA CreatedSound ==
    ASSUME NEW m, NEW S
    PROVE  \A n \in DOMAIN Created(m, S) :
              \/ n \in S /\ Created(m, S)[n].comment = m
              \/ n \in DOMAIN list /\ n \notin S /\ Created(m, S)[n] = list[n]
BY DEF Created

LEMMA CreatingSound ==
    ASSUME StoreTyped, Jobs, MarkersSound, NEW r \in Actors, Creates(r) \/ CreateFails(r)
    PROVE  MarkersSound'
<1>0. /\ req \in [Actors -> Work] /\ req[r] \in Work /\ r \in Requests /\ req[r].pc = "create"
  BY AtWork DEF Creates, CreateFails, Fits, KindOfPlace, Working, Waiting, Creating
<1>1. /\ req' = [req EXCEPT ![r].pc = "relist"]
      /\ ledger' = ledger
      /\ list' = list \/ list' = Created(r, req[r].todo)
      /\ flight' \subseteq flight \cup {[op |-> "create", by |-> r, ips |-> req[r].todo, items |-> {}]}
  BY DEF Creates, CreateFails
<1>2. /\ req'[r].pc = "relist" /\ req'[r].todo = req[r].todo /\ req'[r].ips = req[r].ips
      /\ req'[r].kind = req[r].kind /\ req'[r].batch = req[r].batch
      /\ \A q \in Actors \ {r} : req'[q] = req[q]
  BY <1>0, <1>1 DEF Work
<1>3. \A n \in DOMAIN list' : \/ n \in req[r].todo /\ list'[n].comment = r
                              \/ n \in DOMAIN list /\ list'[n] = list[n]
  BY <1>1, CreatedSound
<1>4. \A o \in flight' : o.op = "create" => o \in flight \/ (o.by = r /\ o.ips = req[r].todo)
  BY <1>1
<1>5. r \in DOMAIN ledger => ledger[r].values = req[r].todo
  BY <1>0 DEF MarkersSound, MarkerIsOwn, WithMarker
<1>6. \A q \in Requests : q \in Actors
  BY DEF Actors
<1>7. MarkersPending'
  <2> SUFFICES ASSUME NEW q \in Requests, BeforeMarker(req'[q]) PROVE Unborn(q)'
    BY DEF MarkersPending
  <2>1. q # r
    BY <1>2 DEF BeforeMarker
  <2>2. Unborn(q)
    BY <1>2, <1>6, <2>1 DEF MarkersSound, MarkersPending
  <2>3. \A n \in DOMAIN list' : list'[n].comment # q
    BY <1>3, <2>1, <2>2 DEF Unborn
  <2>4. \A o \in flight' : o.op = "create" => o.by # q
    BY <1>4, <2>1, <2>2 DEF Unborn
  <2>5. \A p \in Actors : q \notin DOMAIN req'[p].batch
    BY <1>2, <2>2 DEF Unborn
  <2> QED BY <1>1, <2>2, <2>3, <2>4, <2>5 DEF Unborn
<1>8. TodoWanted'
  BY <1>0, <1>2, <1>6 DEF MarkersSound, TodoWanted
<1>9. MarkerIsOwn'
  BY <1>0, <1>1, <1>2, <1>6 DEF MarkersSound, MarkerIsOwn, WithMarker
<1>10. NamedAreMarked'
  <2>1. \A n \in DOMAIN list' : list'[n].comment \in DOMAIN ledger => n \in ledger[list'[n].comment].values
    BY <1>3, <1>5 DEF MarkersSound, NamedAreMarked
  <2>2. \A o \in flight' : (o.op = "create" /\ o.by \in DOMAIN ledger) => o.ips \subseteq ledger[o.by].values
    BY <1>4, <1>5 DEF MarkersSound, NamedAreMarked
  <2> QED BY <1>1, <2>1, <2>2 DEF NamedAreMarked
<1>11. BatchIsLedger'
  BY <1>1, <1>2 DEF MarkersSound, BatchIsLedger
<1> QED BY <1>7, <1>8, <1>9, <1>10, <1>11 DEF MarkersSound

LEMMA LandingSound ==
    ASSUME StoreTyped, MarkersSound, NEW o \in flight, Lands(o)
    PROVE  MarkersSound'
<1>1. flight' \subseteq flight /\ ledger' = ledger /\ req' = req
  BY DEF Lands
<1>2. \A n \in DOMAIN list' : \/ o.op = "create" /\ n \in o.ips /\ list'[n].comment = o.by
                              \/ n \in DOMAIN list /\ list'[n] = list[n]
  <2>1. CASE o.op = "create"
    <3>1. list' = Created(o.by, o.ips)
      BY <2>1 DEF Lands
    <3> QED BY <2>1, <3>1, CreatedSound
  <2>2. CASE o.op # "create"
    <3>1. list' = Remaining(o.items)
      BY <2>2 DEF Lands
    <3> QED BY <3>1, RemainingCalm
  <2> QED BY <2>1, <2>2
<1>3. MarkersPending'
  <2> SUFFICES ASSUME NEW q \in Requests, BeforeMarker(req[q]) PROVE Unborn(q)'
    BY <1>1 DEF MarkersPending
  <2>1. Unborn(q)
    BY DEF MarkersSound, MarkersPending
  <2>2. \A n \in DOMAIN list' : list'[n].comment # q
    BY <1>2, <2>1 DEF Unborn
  <2> QED BY <1>1, <2>1, <2>2 DEF Unborn
<1>4. NamedAreMarked'
  <2>1. \A n \in DOMAIN list' : list'[n].comment \in DOMAIN ledger => n \in ledger[list'[n].comment].values
    BY <1>2 DEF MarkersSound, NamedAreMarked
  <2> QED BY <1>1, <2>1 DEF MarkersSound, NamedAreMarked
<1> QED BY <1>1, <1>3, <1>4 DEF MarkersSound, TodoWanted, MarkerIsOwn, BatchIsLedger

LEMMA StillSound ==
    ASSUME MarkersSound, UNCHANGED <<list, flight, ledger, req>>
    PROVE  MarkersSound'
BY DEF MarkersSound, MarkersPending, Unborn, TodoWanted, MarkerIsOwn, NamedAreMarked, BatchIsLedger

LEMMA DueSound ==
    ASSUME StoreTyped, MarkersSound, NEW m \in DOMAIN ledger, MarkerIsDue(m)
    PROVE  MarkersSound'
<1>1. DOMAIN ledger' \subseteq DOMAIN ledger /\ \A x \in DOMAIN ledger' : ledger'[x].values = ledger[x].values
  BY LedgerCalm DEF MarkerIsDue
<1>2. StoreCalm /\ req' = req
  BY <1>1 DEF MarkerIsDue, StoreCalm, cloud
<1>3. m \in Requests /\ m \in Actors
  BY MarkersTyped DEF StoreTyped, Actors
<1>4. WorkCalm(m)
  BY <1>2, <1>3 DEF WorkCalm, MarkersSound, TodoWanted
<1> QED BY <1>2, <1>3, <1>4, CalmKeepsMarkers

LEMMA MarkersStaySound ==
    ASSUME StoreTyped, Jobs, MarkersSound, NEW r \in Actors, Goes(r), NEW L, NEW kv, Does(r, L, kv)
    PROVE  MarkersSound'
<1>1. CASE Novel(r)
  BY <1>1, RegisteringSound, CreatingSound DEF Novel
<1>2. CASE ~Novel(r)
  <2>1. StoreCalm /\ WorkCalm(r)
    BY <1>2, StepsStoreCalm, StepsWorkCalm
  <2> QED BY <2>1, CalmKeepsMarkers DEF Goes
<1> QED BY <1>1, <1>2


-----------------------------------------------------------------------------
(* What happens beside the requests keeps shapes and jobs too.                *)
LEMMA OthersKeepShapes ==
    ASSUME StoreTyped, Jobs,
           \/ \E o \in flight : Lands(o)
           \/ \E s \in Scopes : LeaseExpires(s)
           \/ \E m \in DOMAIN ledger : MarkerIsDue(m)
           \/ \E d \in Names : DeadlinePasses(d)
           \/ Lingers \/ CatchesUp
           \/ UNCHANGED vars
    PROVE  StoreTyped' /\ Jobs'
<1>1. req' = req /\ past \subseteq past'
  BY DEF Lands, LeaseExpires, MarkerIsDue, DeadlinePasses, Lingers, CatchesUp, Trouble, Costs, vars, bounds, limits
<1>2. Jobs'
  BY <1>1 DEF Jobs
<1>3. past' \subseteq Names
  BY DEF Lands, LeaseExpires, MarkerIsDue, DeadlinePasses, Lingers, CatchesUp, Trouble, Costs, vars, bounds, limits, StoreTyped
<1>4. flight' \subseteq flight /\ records' = records /\ trash' = trash
  BY DEF Lands, LeaseExpires, MarkerIsDue, DeadlinePasses, Lingers, CatchesUp, vars, cloud, store
<1>5. ledger' \in Markers
  <2>1. CASE \E m \in DOMAIN ledger : MarkerIsDue(m)
    BY <2>1, LedgerTyped DEF MarkerIsDue
  <2>2. CASE ledger' = ledger
    BY <2>2 DEF StoreTyped
  <2> QED BY <2>1, <2>2 DEF Lands, LeaseExpires, DeadlinePasses, Lingers, CatchesUp, vars
<1>6. list' \in Listings
  <2>1. CASE \E o \in flight : Lands(o)
    <3>1. PICK o \in flight : Lands(o)
      BY <2>1
    <3>2. /\ list \in Listings /\ o \in Flight
          /\ o.op = "create" => o.by \in Requests
      BY DEF StoreTyped
    <3>3. o.ips \in SUBSET Networks
      BY <3>2 DEF Flight
    <3>4. CASE o.op = "create"
      BY <3>1, <3>2, <3>3, <3>4, ListTyped DEF Lands
    <3>5. CASE o.op # "create"
      BY <3>1, <3>2, <3>5, ListTyped DEF Lands
    <3> QED BY <3>4, <3>5
  <2>2. CASE list' = list
    BY <2>2 DEF StoreTyped
  <2> QED BY <2>1, <2>2 DEF LeaseExpires, MarkerIsDue, DeadlinePasses, Lingers, CatchesUp, vars, cloud
<1>7. \A o \in flight' : o \in Flight /\ (o.op = "create" => o.by \in Requests)
  BY <1>4 DEF StoreTyped
<1>8. \A old \in shown' : old.list \in Listings /\ old.records \in Records
  <2>1. CASE Lingers
    <3>1. shown' = {[list |-> list, records |-> records]} /\ list \in Listings /\ records \in Records
      BY <2>1 DEF Lingers, StoreTyped
    <3> QED BY <3>1
  <2>2. CASE shown' \subseteq shown
    BY <2>2 DEF StoreTyped
  <2> QED BY <2>1, <2>2 DEF Lands, LeaseExpires, MarkerIsDue, DeadlinePasses, CatchesUp, Trouble, vars, bounds, limits
<1> QED BY <1>1, <1>2, <1>3, <1>4, <1>5, <1>6, <1>7, <1>8 DEF StoreTyped

(* In the beginning there is at most one group and one item, and no request.  *)
LEMMA InitSound == Init => LeaseInv /\ StoreTyped /\ Jobs /\ MarkersSound /\ ViewsCurrent
<1> SUFFICES ASSUME Init PROVE LeaseInv /\ StoreTyped /\ Jobs /\ MarkersSound /\ ViewsCurrent
  OBVIOUS
<1>1. /\ flight = {} /\ trash = {} /\ ledger = <<>> /\ past = {} /\ DOMAIN <<>> = {}
      /\ req = [r \in Actors |-> Blank] /\ leases = [s \in Scopes |-> Nobody] /\ shown = {}
  BY DEF Init
<1>2. /\ Blank.pc = "idle" /\ Blank.hold = {} /\ Blank.now = {} /\ Blank.mark = Nobody
      /\ Blank.batch = <<>> /\ Blank.kind = "none" /\ Fields \subseteq DOMAIN Blank
  BY DEF Blank, Fields
<1>3. LeaseInv
  BY <1>1, <1>2 DEF LeaseInv, Shaped, HoldsItsLeases, OneOwner, Scopes
<1>4. PICK n \in Networks, holders \in SUBSET Invites, comment \in {Earlier, Foreign} :
        /\ records = [u \in Invites |-> IF u \in holders
                                        THEN <<[id |-> u, ips |-> {n}, until |-> u]>> ELSE <<>>]
        /\ list = IF holders = {} THEN <<>> ELSE With(<<>>, n, [id |-> comment, comment |-> comment])
  BY DEF Init
<1>5. list \in Listings /\ \A x \in DOMAIN list : list[x].comment \notin Requests
  <2> DEFINE item == [id |-> comment, comment |-> comment]
  <2>1. item \in [id : Ids, comment : Ids] /\ item.comment = comment /\ comment \notin Requests
    BY DistinctAssumption DEF Ids
  <2> HIDE DEF item
  <2>2. CASE holders = {}
    <3>1. <<>> \in [{} -> [id : Ids, comment : Ids]] /\ list = <<>>
      BY <1>4, <2>2
    <3> QED BY <1>1, <3>1 DEF Listings
  <2>3. CASE holders # {}
    <3>1. list = [x \in {n} |-> item]
      BY <1>1, <1>4, <2>3 DEF With, item
    <3>2. list \in [{n} -> [id : Ids, comment : Ids]]
      BY <2>1, <3>1
    <3> QED BY <2>1, <3>1, <3>2 DEF Listings
  <2> QED BY <2>2, <2>3
<1>6. records \in Records
  <2>1. ASSUME NEW u \in Invites PROVE <<[id |-> u, ips |-> {n}, until |-> u]>> \in Groups
    <3>1. [id |-> u, ips |-> {n}, until |-> u] \in Group
      BY DEF Group, Names
    <3> QED BY <3>1, BoundAssumption DEF Groups
  <2> QED BY <1>4, <2>1, EmptyTyped DEF Records
<1>7. StoreTyped
  BY <1>1, <1>5, <1>6, EmptyTyped, BlankTyped DEF StoreTyped
<1>8. Jobs
  BY <1>1, <1>2 DEF Jobs, Fits, KindOfPlace, Working, RestoresEntry, HasGroup, Waiting, Creating, Settling, Cleaning
<1>9. MarkersSound
  <2>1. \A m \in Requests : Unborn(m)
    BY <1>1, <1>2, <1>5 DEF Unborn
  <2>2. \A q \in Requests : req[q].pc = "idle"
    BY <1>1, <1>2 DEF Actors
  <2> QED BY <1>1, <2>1, <2>2
          DEF MarkersSound, MarkersPending, TodoWanted, MarkerIsOwn, NamedAreMarked, BatchIsLedger
<1>10. ViewsCurrent
  BY <1>1, <1>2 DEF ViewsCurrent, OwnView, FullView, Copying, Listed, KeysKept, MarkKnown, Creating
<1> QED BY <1>3, <1>7, <1>8, <1>9, <1>10


-----------------------------------------------------------------------------
(* A step of one request and the views of the others: what it changes is      *)
(* covered by the leases it holds.                                           *)
Spares(r) ==
    /\ Working(req[r]) \/ UNCHANGED <<list, records, trash, ledger>>
    /\ \A u \in Invites : records'[u] = records[u] \/ u \in req[r].hold \/ All \in req[r].hold
    /\ DOMAIN list \subseteq DOMAIN list' \/ All \in req[r].hold

Views(r) == OwnView(req[r]) /\ FullView(r)

LEMMA NothingChanged ==
    ASSUME NEW q, req'[q] = req[q], Views(q), UNCHANGED <<list, records, trash>>, DOMAIN ledger' = DOMAIN ledger
    PROVE  Views(q)'
<1>1. /\ ReferencedAtAll(records)' = ReferencedAtAll(records)
      /\ Referenced(records, req[q].uuid, req[q].gid)' = Referenced(records, req[q].uuid, req[q].gid)
      /\ IpsInForce(records, req[q].now)' = IpsInForce(records, req[q].now)
      /\ \A u : Current(records, u, req[q].now)' = Current(records, u, req[q].now)
      /\ Deleted(q)' = Deleted(q)
      /\ IpsOf(records[req[q].uuid])' = IpsOf(records[req[q].uuid])
  BY DEF ReferencedAtAll, IpsOf, Referenced, Others, Named, IpsInForce, InForce, Expired, IsExpired, Current, Deleted
<1>2. OwnView(req[q])'
  BY <1>1 DEF Views, OwnView, Copying, Listed
<1>3. KeysKept(req[q])'
  BY <1>1 DEF Views, FullView, KeysKept, IpsInForce
<1>4. MarkKnown(req[q])'
  BY <1>1 DEF Views, FullView, MarkKnown
<1>5. FullView(q)'
  BY <1>1, <1>3, <1>4 DEF Views, FullView
<1> QED BY <1>2, <1>5 DEF Views

(* Whoever holds no maintenance lease claims nothing of other invites.        *)
LEMMA InvitesView ==
    ASSUME NEW q \in Actors, Fits(q, req[q]), All \notin req[q].hold
    PROVE  /\ req[q].pc \notin {"references", "drop", "resolve", "remove", "update", "sweep"}
           /\ ~(req[q].kind = "delete" /\ req[q].pc = "put")
BY DEF Fits, KindOfPlace, Working, Scope, ByInvite, Waiting, Creating, Moving, Settling, Cleaning

LEMMA OthersView ==
    ASSUME LeaseInv, StoreTyped, Jobs, ~stray, NEW r \in Actors, NEW q \in Actors \ {r},
           Spares(r), req'[q] = req[q], Views(q)
    PROVE  Views(q)'
<1>1. /\ Fits(r, req[r]) /\ Fits(q, req[q])
      /\ req[r].hold \cap req[q].hold = {}
      /\ All \in req[r].hold => req[q].hold = {}
      /\ All \in req[q].hold => req[r].hold = {}
  BY LeaseInvExcludes DEF LeasesExclude, Jobs
<1>2. CASE ~Working(req[r])
  BY <1>2, NothingChanged DEF Spares
<1>3. CASE Working(req[r]) /\ ~Working(req[q])
  BY <1>3 DEF Views, OwnView, Copying, Listed, FullView, KeysKept, MarkKnown,
            Working, Waiting, Creating, Moving, Settling, Cleaning
<1>4. CASE Working(req[r]) /\ Working(req[q])
  <2>1. req[r].hold # {} /\ req[q].hold # {}
    BY <1>1, <1>4 DEF Fits
  <2>2. All \notin req[q].hold /\ All \notin req[r].hold
    BY <1>1, <2>1
  <2>3. req[q].uuid \in req[q].hold /\ req[q].uuid \in Invites
    BY <1>1, <1>4, <2>2 DEF Fits, Scope, ByInvite
  <2>4. records'[req[q].uuid] = records[req[q].uuid] /\ DOMAIN list \subseteq DOMAIN list'
    BY <1>1, <2>2, <2>3 DEF Spares
  <2>5. IpsOf(records[req[q].uuid])' = IpsOf(records[req[q].uuid])
    BY <2>4 DEF IpsOf
  <2>6. OwnView(req[q])'
    BY <2>4, <2>5 DEF Views, OwnView, Copying, Listed
  <2>7. FullView(q)'
    BY <1>1, <2>2, InvitesView DEF FullView, KeysKept, MarkKnown
  <2> QED BY <2>6, <2>7 DEF Views
<1> QED BY <1>2, <1>3, <1>4


LEMMA StepsSpare ==
    ASSUME StoreTyped, Jobs, NEW r \in Actors, NEW L, NEW kv, Does(r, L, kv)
    PROVE  Spares(r) /\ stray' = stray /\ shown' = shown
<1>0. Fits(r, req[r])
  BY DEF Jobs
<1>1. stray' = stray /\ shown' = shown
  BY DEF Trouble, Does, Starts, CronStarts, Moves, Looks, Falters, bounds, limits,
         Claims, Releases, ListsItems, Registers, Creates, Relists, NotesItems, ReadsRecords, PutsRecords, Finalizes,
         Upgrades, ReadsMarker, ClaimsMarkers, FindsCandidates, ReadsReferences, DropsAbandoned, Resolves,
         ReadsProtected, RemovesNetworks, ReadsTrash, SavesTrash, EmptiesTrash, Scans, PutsUpdate, ListsComments,
         Surveys, Sweeps, ClaimReplyLost, ReleaseFails, ReadFails, RegisterFails, CreateFails, PutFails,
         FinalizeFails, TrashFails, CompensationFails, DeleteFails, CutOff
<1>2. Working(req[r]) \/ UNCHANGED <<list, records, trash, ledger>>
  BY DEF Working, Waiting, cloud, store, DeleteCall, Does, Starts, CronStarts, Moves, Looks, Falters,
         Claims, Releases, ListsItems, Registers, Creates, Relists, NotesItems, ReadsRecords, PutsRecords, Finalizes,
         Upgrades, ReadsMarker, ClaimsMarkers, FindsCandidates, ReadsReferences, DropsAbandoned, Resolves,
         ReadsProtected, RemovesNetworks, ReadsTrash, SavesTrash, EmptiesTrash, Scans, PutsUpdate, ListsComments,
         Surveys, Sweeps, ClaimReplyLost, ReleaseFails, ReadFails, RegisterFails, CreateFails, PutFails,
         FinalizeFails, TrashFails, CompensationFails, DeleteFails, CutOff
<1>3. req[r].pc \in Cleaning \cup {"drop", "remove"} => All \in req[r].hold
  BY <1>0 DEF Fits, KindOfPlace, Working, Scope, ByInvite, Waiting, Creating, Moving, Settling, Cleaning
<1>4. req[r].pc = "put" => req[r].uuid \in req[r].hold \/ All \in req[r].hold
  BY <1>0 DEF Fits, KindOfPlace, Working, Scope, ByInvite, Waiting, Creating, Moving, Settling, Cleaning
<1>5. \A u \in Invites : records'[u] = records[u] \/ u \in req[r].hold \/ All \in req[r].hold
  <2>1. CASE PutsRecords(r) \/ PutFails(r) \/ PutsUpdate(r)
    <3>1. CASE req[r].pc = "put"
      BY <1>4, <2>1, <3>1 DEF PutsRecords, PutFails, PutsUpdate, StoreTyped, Records
    <3>2. CASE req[r].pc # "put"
      BY <1>3, <2>1, <3>2 DEF PutsRecords, PutFails, PutsUpdate, Cleaning
    <3> QED BY <3>1, <3>2
  <2>2. CASE ~(PutsRecords(r) \/ PutFails(r) \/ PutsUpdate(r))
    <3>1. records' = records
      BY <2>2 DEF store, Does, Starts, CronStarts, Moves, Looks, Falters,
         Claims, Releases, ListsItems, Registers, Creates, Relists, NotesItems, ReadsRecords, Finalizes,
         Upgrades, ReadsMarker, ClaimsMarkers, FindsCandidates, ReadsReferences, DropsAbandoned, Resolves,
         ReadsProtected, RemovesNetworks, ReadsTrash, SavesTrash, EmptiesTrash, Scans, ListsComments,
         Surveys, Sweeps, ClaimReplyLost, ReleaseFails, ReadFails, RegisterFails, CreateFails,
         FinalizeFails, TrashFails, CompensationFails, DeleteFails, CutOff
    <3> QED BY <3>1
  <2> QED BY <2>1, <2>2
<1>6. DOMAIN list \subseteq DOMAIN list' \/ All \in req[r].hold
  <2>1. CASE Creates(r)
    BY <2>1 DEF Creates, Created
  <2>2. CASE DropsAbandoned(r) \/ RemovesNetworks(r, L) \/ Sweeps(r, L) \/ DeleteFails(r, L)
    BY <1>3, <2>2 DEF DropsAbandoned, RemovesNetworks, Sweeps, DeleteFails, DeleteCall, Cleaning
  <2>3. CASE ~(Creates(r) \/ DropsAbandoned(r) \/ RemovesNetworks(r, L) \/ Sweeps(r, L) \/ DeleteFails(r, L))
    <3>1. list' = list
      BY <2>3 DEF cloud, Does, Starts, CronStarts, Moves, Looks, Falters,
         Claims, Releases, ListsItems, Registers, Relists, NotesItems, ReadsRecords, PutsRecords, Finalizes,
         Upgrades, ReadsMarker, ClaimsMarkers, FindsCandidates, ReadsReferences, Resolves,
         ReadsProtected, ReadsTrash, SavesTrash, EmptiesTrash, Scans, PutsUpdate, ListsComments,
         Surveys, ClaimReplyLost, ReleaseFails, ReadFails, RegisterFails, CreateFails, PutFails,
         FinalizeFails, TrashFails, CompensationFails, CutOff
    <3> QED BY <3>1
  <2> QED BY <2>1, <2>2, <2>3
<1> QED BY <1>1, <1>2, <1>5, <1>6 DEF Spares

(* At most places a request claims nothing. *)
Claimless == Waiting \cup {"upgrade", "marker", "empty", "candidates", "markers", "scan", "comments", "survey"}

LEMMA ClaimlessView ==
    ASSUME NEW r, req'[r].pc \in Claimless
    PROVE  Views(r)'
BY DEF Claimless, Views, OwnView, Copying, Listed, FullView, KeysKept, MarkKnown, Waiting, Creating


LEMMA EndsClaimless ==
    ASSUME StoreTyped, NEW r \in Actors,
           \/ \E outcome : req' = [req EXCEPT ![r] = Ending(r, outcome)] \/ req' = [req EXCEPT ![r] = Finished(r, outcome)]
           \/ \E m : req' = [req EXCEPT ![r] = AfterMarker(r, m)]
    PROVE  req'[r].pc \in Claimless
<1>1. req \in [Actors -> Work] /\ req[r] \in Work
  BY DEF StoreTyped
<1>2. \A outcome : Ending(r, outcome).pc = "release" /\ Finished(r, outcome).pc \in {"idle", "done"}
  BY DEF Ending, Finished, Blank
<1>3. \A m : AfterMarker(r, m).pc \in {"scan", "candidates", "release"}
  BY <1>1, <1>2 DEF AfterMarker, Work
<1> QED BY <1>1, <1>2, <1>3 DEF Claimless, Waiting

(* Adding networks: what is missing is registered, created and found again.   *)
LEMMA AddingView ==
    ASSUME StoreTyped, Jobs, NEW r \in Actors, Views(r),
           \/ ListsItems(r, list) \/ Registers(r) \/ Creates(r) \/ CreateFails(r) \/ Relists(r, list) \/ NotesItems(r)
    PROVE  Views(r)'
<1>0. req \in [Actors -> Work] /\ req[r] \in Work /\ req[r].kind \in {"add", "restore"}
  BY AtWork DEF ListsItems, Registers, Creates, CreateFails, Relists, NotesItems, Fits, KindOfPlace, Creating
<1> DEFINE Same == /\ req'[r].kind = req[r].kind /\ req'[r].uuid = req[r].uuid /\ req'[r].ips = req[r].ips
                   /\ req'[r].copy = req[r].copy
<1>1. CASE ListsItems(r, list)
  <2>1. /\ Same /\ UNCHANGED <<list, records>>
        /\ req'[r].todo = req[r].ips \ DOMAIN list
        /\ req'[r].pc \in {"register", "read", "put"}
        /\ req'[r].pc \in {"read", "put"} => req[r].ips \subseteq DOMAIN list
        /\ req'[r].pc = "put" => req[r].kind = "restore"
    BY <1>0, <1>1 DEF ListsItems, Work, cloud, store
  <2> QED BY <1>0, <1>1, <2>1
          DEF ListsItems, Views, OwnView, Copying, Listed, FullView, KeysKept, MarkKnown, Creating
<1>2. CASE Registers(r)
  <2>1. CASE LedgerHasRoom
    <3>1. req' = [req EXCEPT ![r].pc = "create"] /\ req[r].pc = "register" /\ UNCHANGED <<list, records>>
      BY <1>2, <2>1 DEF Registers, cloud, store
    <3>2. Same /\ req'[r].pc = "create" /\ req'[r].todo = req[r].todo
      BY <1>0, <3>1 DEF Work
    <3> QED BY <1>0, <3>1, <3>2 DEF Views, OwnView, Copying, Listed, FullView, KeysKept, MarkKnown, Creating
  <2>2. CASE ~LedgerHasRoom
    BY <1>2, <2>2, EndsClaimless, ClaimlessView DEF Registers
  <2> QED BY <2>1, <2>2
<1>3. CASE Creates(r) \/ CreateFails(r)
  <2>1. req' = [req EXCEPT ![r].pc = "relist"] /\ req[r].pc = "create" /\ records' = records
    BY <1>3 DEF Creates, CreateFails, store
  <2>2. DOMAIN list \subseteq DOMAIN list'
    BY <1>3 DEF Creates, CreateFails, Created
  <2>3. Same /\ req'[r].pc = "relist" /\ req'[r].todo = req[r].todo
    BY <1>0, <2>1 DEF Work
  <2> QED BY <1>0, <2>1, <2>2, <2>3 DEF Views, OwnView, Copying, Listed, FullView, KeysKept, MarkKnown, Creating
<1>4. CASE Relists(r, list)
  <2>1. Same /\ UNCHANGED <<list, records>> /\ req[r].pc = "relist" /\ req'[r].pc = "note" /\ req'[r].todo = req[r].todo
    BY <1>0, <1>4 DEF Relists, Work, cloud, store
  <2>2. req'[r].found = {<<n, list[n].id>> : n \in {n \in req[r].todo \cap DOMAIN list : list[n].comment = r}}
    BY <1>0, <1>4 DEF Relists, Work
  <2>3. {x[1] : x \in req'[r].found} \subseteq DOMAIN list
    BY <2>2
  <2> QED BY <1>0, <2>1, <2>3 DEF Views, OwnView, Copying, Listed, FullView, KeysKept, MarkKnown, Creating
<1>5. CASE NotesItems(r)
  <2>1. /\ Same /\ UNCHANGED <<list, records>> /\ req[r].pc = "note"
        /\ \/ req'[r].pc = "upgrade"
           \/ AllFound(r) /\ req'[r].pc = "read" /\ req[r].kind = "add"
           \/ AllFound(r) /\ req'[r].pc = "put" /\ req[r].kind = "restore"
    BY <1>0, <1>5 DEF NotesItems, Work, cloud, store
  <2>2. CASE req'[r].pc = "upgrade"
    BY <2>2, ClaimlessView DEF Claimless
  <2>3. CASE AllFound(r)
    <3>1. req[r].todo \subseteq DOMAIN list
      BY <2>1, <2>3 DEF Views, OwnView, AllFound
    <3>2. req[r].ips \subseteq DOMAIN list
      BY <2>1, <3>1 DEF Views, OwnView
    <3>3. req'[r].pc \in {"read", "put"} => Views(r)'
      BY <1>0, <2>1, <3>2 DEF Views, OwnView, Copying, Listed, FullView, KeysKept, MarkKnown, Creating
    <3> QED BY <2>1, <2>2, <3>3
  <2> QED BY <2>1, <2>2, <2>3
<1> QED BY <1>1, <1>2, <1>3, <1>4, <1>5

(* Records: the copy is the one that is replaced.                             *)
LEMMA RecordsView ==
    ASSUME StoreTyped, Jobs, NEW r \in Actors, Views(r), ReadsRecords(r, records) \/ PutsRecords(r)
    PROVE  Views(r)'
<1>0. /\ req \in [Actors -> Work] /\ req[r] \in Work /\ Fits(r, req[r])
      /\ r \in Requests /\ req[r].uuid \in Invites
      /\ req[r].kind \in {"add", "extend", "restore", "delete"}
  <2>1. Working(req[r]) /\ req[r].kind \in {"add", "extend", "restore", "delete"}
    BY AtWork DEF ReadsRecords, PutsRecords, Fits, KindOfPlace, Working, Waiting
  <2> QED BY <2>1, AtWork
<1>1. CASE ReadsRecords(r, records)
  <2>1. CASE req' = [req EXCEPT ![r] = Ending(r, "ok")]
    BY <2>1, EndsClaimless, ClaimlessView
  <2>2. CASE req' # [req EXCEPT ![r] = Ending(r, "ok")]
    <3>1. /\ UNCHANGED <<list, records>> /\ req[r].pc = "read"
          /\ req'[r].kind = req[r].kind /\ req'[r].uuid = req[r].uuid
          /\ req'[r].copy = records[req[r].uuid]
          /\ \/ req'[r].pc = "put" /\ req[r].kind \in {"add", "extend"} /\ req'[r].ips = req[r].ips
             \/ req'[r].pc = "list" /\ req[r].kind = "restore"
             \/ req'[r].pc = "protect" /\ req[r].kind = "delete"
      BY <1>0, <1>1, <2>2 DEF ReadsRecords, Work, cloud, store
    <3> QED BY <1>0, <3>1 DEF Views, OwnView, Copying, Listed, FullView, KeysKept, MarkKnown, Creating
  <2> QED BY <2>1, <2>2
<1>2. CASE PutsRecords(r)
  <2>1. CASE req[r].mark = r
    <3>1. /\ req' = [req EXCEPT ![r].pc = "finalize"] /\ req[r].pc = "put" /\ list' = list
          /\ records' = [records EXCEPT ![req[r].uuid] = NextGroups(r)]
      BY <1>0, <1>2, <2>1 DEF PutsRecords, cloud
    <3>2. /\ req'[r].pc = "finalize" /\ req'[r].kind = req[r].kind /\ req'[r].uuid = req[r].uuid
          /\ req'[r].ips = req[r].ips
      BY <1>0, <3>1 DEF Work
    <3>3. req[r].kind \in {"add", "restore"}
      BY <1>0, <2>1, DistinctAssumption DEF Fits
    <3>4. records'[req[r].uuid] = NextGroups(r)
      BY <1>0, <3>1 DEF StoreTyped, Records
    <3>5. req[r].ips \subseteq IpsOf(NextGroups(r))
      <4>1. req[r].copy \in Groups /\ req[r].ips \in SUBSET Networks /\ r \in Names
        BY <1>0, WorkFields DEF Names
      <4>2. CASE req[r].kind = "add"
        <5>1. [id |-> r, ips |-> req[r].ips, until |-> r] \in Group
          BY <4>1 DEF Group
        <5> QED BY <4>1, <4>2, <5>1, KeptGroups DEF NextGroups
      <4>3. CASE req[r].kind = "restore"
        <5>1. Entry(r) \in req[r].bin /\ req[r].ips = Entry(r).group.ips
          BY <1>0, <3>1, <4>3 DEF Fits, RestoresEntry, Working, Waiting, Settling, Entry
        <5>2. Entry(r).group \in Group
          BY <1>0, <5>1, WorkFields DEF Binned
        <5> QED BY <4>1, <4>3, <5>1, <5>2, KeptGroups DEF NextGroups
      <4> QED BY <3>3, <4>2, <4>3
    <3> QED BY <1>0, <3>1, <3>2, <3>3, <3>4, <3>5
            DEF Views, OwnView, Copying, Listed, FullView, KeysKept, MarkKnown, Creating
  <2>2. CASE req[r].mark # r /\ req[r].kind = "restore"
    <3>1. req'[r].pc = "empty"
      BY <1>0, <1>2, <2>2 DEF PutsRecords, Work
    <3> QED BY <3>1, ClaimlessView DEF Claimless
  <2>3. CASE req[r].mark # r /\ req[r].kind # "restore"
    BY <1>2, <2>3, EndsClaimless, ClaimlessView DEF PutsRecords
  <2> QED BY <2>1, <2>2, <2>3
<1> QED BY <1>1, <1>2


(* Settling a marker: what bears its name is found, and dropped or recorded.  *)
LEMMA SettlingView ==
    ASSUME StoreTyped, Jobs, MarkersSound, NEW r \in Actors, Views(r),
           FindsCandidates(r, list) \/ ReadsReferences(r, records) \/ DropsAbandoned(r)
    PROVE  Views(r)'
<1>0. req \in [Actors -> Work] /\ req[r] \in Work
  BY AtWork
<1>1. CASE FindsCandidates(r, list)
  <2>1. PICK m \in DOMAIN req[r].batch :
          \/ req' = [req EXCEPT ![r] = AfterMarker(r, m)]
          \/ /\ req' = [req EXCEPT ![r].pc = "references", ![r].mark = m,
                                  ![r].found = Candidates(list, m, req[r].batch[m])]
             /\ UNCHANGED ledger
    BY <1>1 DEF FindsCandidates
  <2>2. CASE req' = [req EXCEPT ![r] = AfterMarker(r, m)]
    BY <2>2, EndsClaimless, ClaimlessView
  <2>3. CASE /\ req' = [req EXCEPT ![r].pc = "references", ![r].mark = m,
                                  ![r].found = Candidates(list, m, req[r].batch[m])]
             /\ UNCHANGED ledger
    <3>1. /\ req'[r].pc = "references" /\ req'[r].mark = m
          /\ req'[r].found = Candidates(list, m, req[r].batch[m]) /\ list' = list
      BY <1>0, <1>1, <2>3 DEF FindsCandidates, Work, cloud
    <3>2. m \in Requests
      BY <1>0, WorkFields, MarkersTyped
    <3>3. ASSUME NEW n \in DOMAIN list, list[n].comment = m, m \in DOMAIN ledger
          PROVE  <<n, list[n].id>> \in Candidates(list, m, req[r].batch[m])
      <4>1. n \in ledger[m].values
        BY <3>3 DEF MarkersSound, NamedAreMarked
      <4>2. n \in req[r].batch[m].values
        BY <3>2, <3>3, <4>1 DEF MarkersSound, BatchIsLedger
      <4> QED BY <3>3, <4>2 DEF Candidates
    <3>4. MarkKnown(req[r])'
      BY <2>3, <3>1, <3>3 DEF MarkKnown
    <3> QED BY <3>1, <3>4 DEF Views, OwnView, Copying, Listed, FullView, KeysKept, Creating
  <2> QED BY <2>1, <2>2, <2>3
<1>2. CASE ReadsReferences(r, records)
  <2>1. /\ UNCHANGED <<list, records, ledger>> /\ req[r].pc = "references" /\ req'[r].pc = "drop"
        /\ req'[r].keys = ReferencedAtAll(records) /\ req'[r].mark = req[r].mark /\ req'[r].found = req[r].found
    BY <1>0, <1>2 DEF ReadsReferences, Work, cloud, store
  <2>2. ReferencedAtAll(records)' = ReferencedAtAll(records)
    BY <2>1 DEF ReferencedAtAll, IpsOf
  <2>3. MarkKnown(req[r])'
    BY <2>1 DEF Views, FullView, MarkKnown
  <2> QED BY <2>1, <2>2, <2>3 DEF Views, OwnView, Copying, Listed, FullView, KeysKept, Creating
<1>3. CASE DropsAbandoned(r)
  <2>1. /\ UNCHANGED <<records, ledger>> /\ req[r].pc = "drop" /\ req'[r].pc = "resolve"
        /\ req'[r].mark = req[r].mark /\ list' = Remaining(Abandoned(r))
    BY <1>0, <1>3 DEF DropsAbandoned, Work, store
  <2>2. ReferencedAtAll(records)' = ReferencedAtAll(records)
    BY <2>1 DEF ReferencedAtAll, IpsOf
  <2>3. \A n \in DOMAIN list' : n \in DOMAIN list /\ list'[n] = list[n] /\ <<n, list[n].id>> \notin Abandoned(r)
    BY <2>1, RemainingCalm
  <2>4. ASSUME NEW n \in DOMAIN list', list'[n].comment = req[r].mark, req[r].mark \in DOMAIN ledger
        PROVE  n \in ReferencedAtAll(records)
    <3>1. n \in DOMAIN list /\ list[n].comment = req[r].mark /\ <<n, list[n].id>> \notin Abandoned(r)
      BY <2>3, <2>4
    <3>2. <<n, list[n].id>> \in req[r].found
      BY <2>1, <2>4, <3>1 DEF Views, FullView, MarkKnown
    <3>3. n \in req[r].keys
      BY <3>1, <3>2 DEF Abandoned
    <3> QED BY <2>1, <3>3 DEF Views, FullView, KeysKept
  <2>5. MarkKnown(req[r])'
    BY <2>1, <2>2, <2>4 DEF MarkKnown
  <2> QED BY <2>1, <2>5 DEF Views, OwnView, Copying, Listed, FullView, KeysKept, Creating
<1> QED BY <1>1, <1>2, <1>3

(* Deleting, purging and restoring: the networks that stay are known, and the *)
(* trash has the group before the records lose it.                           *)
LEMMA RemovingView ==
    ASSUME StoreTyped, Jobs, NEW r \in Actors, Views(r),
           ReadsProtected(r, records) \/ RemovesNetworks(r, list) \/ ReadsTrash(r) \/ SavesTrash(r)
    PROVE  Views(r)'
<1>0. req \in [Actors -> Work] /\ req[r] \in Work /\ Fits(r, req[r])
  BY AtWork
<1> DEFINE Same == /\ req'[r].kind = req[r].kind /\ req'[r].uuid = req[r].uuid /\ req'[r].gid = req[r].gid
                   /\ req'[r].copy = req[r].copy
<1>1. CASE ReadsProtected(r, records)
  <2>1. /\ Same /\ UNCHANGED <<list, records>> /\ req[r].pc = "protect" /\ req'[r].pc = "remove"
        /\ req'[r].keys = IF req[r].kind = "delete" THEN Referenced(records, req[r].uuid, req[r].gid) ELSE ReferencedAtAll(records)
        /\ req[r].kind \in {"delete", "purge"}
    BY <1>0, <1>1 DEF ReadsProtected, Work, cloud, store, Fits, KindOfPlace
  <2>2. /\ ReferencedAtAll(records)' = ReferencedAtAll(records)
        /\ Referenced(records, req[r].uuid, req[r].gid)' = Referenced(records, req'[r].uuid, req'[r].gid)
    BY <2>1 DEF ReferencedAtAll, IpsOf, Referenced, Others, Named
  <2>3. Referenced(records, req[r].uuid, req[r].gid)' = Referenced(records, req[r].uuid, req[r].gid)
    BY <2>1, <2>2
  <2>4. KeysKept(req[r])'
    BY <2>1, <2>2, <2>3 DEF KeysKept
  <2> QED BY <2>1, <2>4 DEF Views, OwnView, Copying, Listed, FullView, MarkKnown, Creating
<1>2. CASE RemovesNetworks(r, list)
  <2>1. /\ Same /\ records' = records /\ req[r].pc = "remove" /\ req'[r].pc = AfterRemoval(r)
        /\ req'[r].plan = req[r].plan /\ req'[r].now = req[r].now
        /\ req[r].kind \in {"delete", "purge", "cleanup"}
    BY <1>0, <1>2 DEF RemovesNetworks, Work, store, Fits, KindOfPlace
  <2>2. \A u : Current(records, u, req[r].now)' = Current(records, u, req[r].now)
    BY <2>1 DEF Current, InForce, Expired, IsExpired
  <2>3. CASE req[r].kind = "delete"
    BY <2>1, <2>3 DEF AfterRemoval, Views, OwnView, Copying, Listed, FullView, KeysKept, MarkKnown, Creating
  <2>4. CASE req[r].kind = "purge"
    BY <2>1, <2>4, ClaimlessView DEF AfterRemoval, Claimless
  <2>5. CASE req[r].kind = "cleanup"
    BY <2>1, <2>2, <2>5 DEF AfterRemoval, Views, OwnView, Copying, Listed, FullView, KeysKept, MarkKnown, Creating
  <2> QED BY <2>1, <2>3, <2>4, <2>5
<1>3. CASE ReadsTrash(r)
  <2>1. CASE req' = [req EXCEPT ![r] = Ending(r, "ok")]
    BY <2>1, EndsClaimless, ClaimlessView
  <2>2. CASE req' # [req EXCEPT ![r] = Ending(r, "ok")]
    <3>1. /\ Same /\ UNCHANGED <<list, records>> /\ req[r].pc = "bin"
          /\ \/ req[r].kind = "delete" /\ req'[r].pc = "save"
             \/ req[r].kind = "restore" /\ req'[r].pc = "read"
             \/ req[r].kind = "purge" /\ req'[r].pc = "protect"
      BY <1>0, <1>3, <2>2 DEF ReadsTrash, Work, cloud, store, Fits, KindOfPlace
    <3> QED BY <3>1 DEF Views, OwnView, Copying, Listed, FullView, KeysKept, MarkKnown, Creating
  <2> QED BY <2>1, <2>2
<1>4. CASE SavesTrash(r)
  <2>1. CASE trash = req[r].bin
    <3>1. req' = [req EXCEPT ![r].pc = "put"]
      BY <1>4, <2>1 DEF SavesTrash
    <3>2. /\ Same /\ UNCHANGED <<list, records>> /\ req[r].pc = "save" /\ req'[r].pc = "put"
          /\ trash' = trash \cup Deleted(r) /\ req[r].kind = "delete"
      BY <1>0, <1>4, <2>1, <3>1 DEF SavesTrash, Work, cloud, Fits, KindOfPlace
    <3>3. Deleted(r)' = Deleted(r)
      BY <3>2 DEF Deleted
    <3> QED BY <3>2, <3>3 DEF Views, OwnView, Copying, Listed, FullView, KeysKept, MarkKnown, Creating
  <2>2. CASE trash # req[r].bin
    BY <1>4, <2>2, EndsClaimless, ClaimlessView DEF SavesTrash
  <2> QED BY <2>1, <2>2
<1> QED BY <1>1, <1>2, <1>3, <1>4

(* The scheduled cleanup: what it found in force is what it leaves.           *)
LEMMA CleaningView ==
    ASSUME StoreTyped, Jobs, NEW r \in Actors, Views(r), Scans(r, records) \/ PutsUpdate(r) \/ Surveys(r, records)
    PROVE  Views(r)'
<1>0. req \in [Actors -> Work] /\ req[r] \in Work /\ Fits(r, req[r]) /\ req[r].kind = "cleanup"
  BY AtWork DEF Scans, PutsUpdate, Surveys, Fits, KindOfPlace, Cleaning
<1>1. CASE Scans(r, records)
  <2>1. /\ UNCHANGED <<list, records>> /\ req'[r].pc = "remove" /\ req'[r].now = req[r].now
        /\ req'[r].kind = "cleanup"
        /\ req'[r].keys = IpsInForce(records, req[r].now) /\ req'[r].plan = PlanAt(records, req[r].now)
    BY <1>0, <1>1 DEF Scans, Work, cloud, store, IpsInForce, PlanAt
  <2>2. /\ \A u : Current(records, u, req[r].now)' = Current(records, u, req[r].now)
        /\ IpsInForce(records, req[r].now)' = IpsInForce(records, req[r].now)
    BY <2>1 DEF Current, InForce, Expired, IsExpired, IpsInForce
  <2>3. \A u \in DOMAIN req'[r].plan : req'[r].plan[u] = Current(records, u, req[r].now)
    BY <2>1 DEF PlanAt
  <2>4. KeysKept(req[r])'
    BY <2>1, <2>2 DEF KeysKept, IpsInForce
  <2> QED BY <2>1, <2>2, <2>3, <2>4 DEF Views, OwnView, Copying, Listed, FullView, MarkKnown, Creating
<1>2. CASE PutsUpdate(r)
  <2>1. PICK u \in DOMAIN req[r].plan :
          /\ records' = [records EXCEPT ![u] = req[r].plan[u]]
          /\ req' = [req EXCEPT ![r].plan = Without(req[r].plan, {u}),
                                ![r].pc = IF DOMAIN req[r].plan = {u} THEN "comments" ELSE req[r].pc]
    BY <1>2 DEF PutsUpdate
  <2>2. /\ req[r].pc = "update" /\ req'[r].pc \in {"update", "comments"} /\ req'[r].now = req[r].now
        /\ req'[r].kind = "cleanup" /\ req'[r].plan = Without(req[r].plan, {u})
    BY <1>0, <1>2, <2>1 DEF PutsUpdate, Work
  <2>3. \A v \in DOMAIN req'[r].plan : v \in DOMAIN req[r].plan /\ v # u /\ req'[r].plan[v] = req[r].plan[v]
    BY <2>2 DEF Without
  <2>4. DOMAIN req[r].plan \subseteq Invites /\ records \in [Invites -> Groups]
    BY <1>0, WorkFields, PlansTyped DEF StoreTyped, Records
  <2>5. ASSUME NEW v \in DOMAIN req'[r].plan
        PROVE  req'[r].plan[v] = Current(records, v, req[r].now)'
    <3>1. records'[v] = records[v] /\ req'[r].plan[v] = Current(records, v, req[r].now)
      BY <1>0, <2>1, <2>2, <2>3, <2>4 DEF Views, FullView
    <3>2. Current(records, v, req[r].now)' = Current(records, v, req[r].now)
      BY <2>2, <3>1 DEF Current, InForce, Expired, IsExpired
    <3> QED BY <3>1, <3>2
  <2> QED BY <2>2, <2>5 DEF Views, OwnView, Copying, Listed, FullView, KeysKept, MarkKnown, Creating
<1>3. CASE Surveys(r, records)
  <2>1. /\ records' = records /\ req'[r].pc = "sweep" /\ req'[r].keys = ReferencedAtAll(records)
    BY <1>0, <1>3 DEF Surveys, Work, store
  <2>2. ReferencedAtAll(records)' = ReferencedAtAll(records)
    BY <2>1 DEF ReferencedAtAll, IpsOf
  <2> QED BY <2>1, <2>2 DEF Views, OwnView, Copying, Listed, FullView, KeysKept, MarkKnown, Creating
<1> QED BY <1>1, <1>2, <1>3


(* Every other step ends at a place where nothing is claimed, or begins.      *)
LEMMA PlainView ==
    ASSUME StoreTyped, Jobs, NEW r \in Actors, NEW L,
           \/ Starts(r) \/ CronStarts(r) \/ Claims(r) \/ Releases(r) \/ Finalizes(r) \/ Upgrades(r) \/ ReadsMarker(r)
           \/ ClaimsMarkers(r) \/ Resolves(r) \/ EmptiesTrash(r) \/ ListsComments(r) \/ Sweeps(r, L)
           \/ Falters(r, L) /\ ~CreateFails(r)
    PROVE  Views(r)'
<1>0. req \in [Actors -> Work] /\ req[r] \in Work /\ Fits(r, req[r])
  BY AtWork
<1> DEFINE Ends == \/ \E outcome : \/ req' = [req EXCEPT ![r] = Ending(r, outcome)]
                                   \/ req' = [req EXCEPT ![r] = Finished(r, outcome)]
                   \/ \E m : req' = [req EXCEPT ![r] = AfterMarker(r, m)]
<1>1. CASE Ends
  BY <1>1, EndsClaimless, ClaimlessView
<1>2. CASE Starts(r)
  <2>1. PICK kind \in Kinds, u \in Invites, gid \in Names, S \in SUBSET Networks :
          /\ CASE kind = "add" -> S # {} /\ gid = u
               [] kind \in {"extend", "delete"} ->
                     S = {} /\ \E i \in DOMAIN records[u] : records[u][i].id = gid
               [] OTHER -> S = {} /\ \E b \in trash : b.id = gid /\ b.uuid = u
          /\ req' = [req EXCEPT ![r] = [Blank EXCEPT !.kind = kind, !.pc = "claim", !.uuid = u,
                                                     !.gid = gid, !.ips = S]]
    BY <1>2 DEF Starts
  <2>2. req'[r].pc = "claim"
    BY <1>0, <2>1 DEF Blank
  <2> QED BY <2>2, ClaimlessView DEF Claimless, Waiting
<1>3. CASE CronStarts(r)
  <2>1. req'[r].pc = "claim"
    BY <1>0, <1>3 DEF CronStarts, Blank
  <2> QED BY <2>1, ClaimlessView DEF Claimless, Waiting
<1>4. CASE Claims(r)
  <2>1. CASE CanClaim(r, ScopeOf(r))
    <3>1. /\ req[r].pc = "claim" /\ req'[r].pc = First(req[r].kind) /\ req'[r].kind = req[r].kind
      BY <1>0, <1>4, <2>1 DEF Claims, Work
    <3>2. \/ req[r].kind = "add" /\ First(req[r].kind) = "list"
          \/ req[r].kind \in {"extend", "delete"} /\ First(req[r].kind) = "read"
          \/ req[r].kind \in {"restore", "purge"} /\ First(req[r].kind) = "bin"
          \/ req[r].kind = "cleanup" /\ First(req[r].kind) = "markers"
      BY <1>0, <3>1 DEF First, Fits, Work
    <3> QED BY <3>1, <3>2 DEF Views, OwnView, Copying, Listed, FullView, KeysKept, MarkKnown, Creating
  <2>2. CASE ~CanClaim(r, ScopeOf(r))
    BY <1>1, <1>4, <2>2 DEF Claims
  <2> QED BY <2>1, <2>2
<1>5. CASE Releases(r) \/ ReleaseFails(r)
  <2>1. PICK s : req' = [req EXCEPT ![r] = WithoutLease(r, s)] /\ req[r].pc = "release"
    BY <1>5 DEF Releases, ReleaseFails
  <2>2. CASE req[r].hold = {s}
    BY <1>1, <2>1, <2>2 DEF WithoutLease
  <2>3. CASE req[r].hold # {s}
    <3>1. req'[r].pc = "release"
      BY <1>0, <2>1, <2>3 DEF WithoutLease, Work
    <3> QED BY <3>1, ClaimlessView DEF Claimless, Waiting
  <2> QED BY <2>2, <2>3
<1>6. CASE Finalizes(r) \/ FinalizeFails(r)
  <2>1. CASE req[r].kind = "restore"
    <3>1. req'[r].pc = "empty"
      BY <1>0, <1>6, <2>1 DEF Finalizes, FinalizeFails, Work
    <3> QED BY <3>1, ClaimlessView DEF Claimless
  <2>2. CASE req[r].kind # "restore"
    BY <1>1, <1>6, <2>2 DEF Finalizes, FinalizeFails
  <2> QED BY <2>1, <2>2
<1>7. CASE Upgrades(r)
  <2>1. CASE CanClaim(r, All)
    <3>1. req'[r].pc = "marker"
      BY <1>0, <1>7, <2>1 DEF Upgrades, Work
    <3> QED BY <3>1, ClaimlessView DEF Claimless
  <2>2. CASE ~CanClaim(r, All)
    BY <1>1, <1>7, <2>2 DEF Upgrades
  <2> QED BY <2>1, <2>2
<1>8. CASE ReadsMarker(r)
  <2>1. CASE r \in DOMAIN ledger
    <3>1. req'[r].pc = "candidates"
      BY <1>0, <1>8, <2>1 DEF ReadsMarker, Work
    <3> QED BY <3>1, ClaimlessView DEF Claimless
  <2>2. CASE r \notin DOMAIN ledger
    BY <1>1, <1>8, <2>2 DEF ReadsMarker
  <2> QED BY <2>1, <2>2
<1>9. CASE ClaimsMarkers(r)
  <2>1. req'[r].pc \in {"scan", "candidates"}
    BY <1>0, <1>9 DEF ClaimsMarkers, Work
  <2> QED BY <2>1, ClaimlessView DEF Claimless
<1>10. CASE ListsComments(r)
  <2>1. req'[r].pc = "survey"
    BY <1>0, <1>10 DEF ListsComments, Work
  <2> QED BY <2>1, ClaimlessView DEF Claimless
<1>11. CASE ReadFails(r) \/ PutFails(r)
  <2>1. CASE ~Ends
    <3>1. req'[r].pc = "upgrade"
      <4>1. CASE ReadFails(r)
        BY <1>0, <2>1, <4>1 DEF ReadFails, Work
      <4>2. CASE PutFails(r)
        BY <1>0, <2>1, <4>2 DEF PutFails, Work
      <4> QED BY <1>11, <4>1, <4>2
    <3> QED BY <3>1, ClaimlessView DEF Claimless
  <2> QED BY <1>1, <2>1
<1>12. CASE DeleteFails(r, L)
  BY <1>1, <1>12 DEF DeleteFails
<1>13. CASE \/ Resolves(r) \/ EmptiesTrash(r) \/ Sweeps(r, L) \/ ClaimReplyLost(r) \/ RegisterFails(r)
            \/ TrashFails(r) \/ CompensationFails(r) \/ CutOff(r)
  <2>1. Ends
    BY <1>13 DEF Resolves, EmptiesTrash, Sweeps, ClaimReplyLost, RegisterFails, TrashFails, CompensationFails, CutOff
  <2> QED BY <1>1, <2>1
<1> QED BY <1>2, <1>3, <1>4, <1>5, <1>6, <1>7, <1>8, <1>9, <1>10, <1>11, <1>12, <1>13 DEF Falters

(* Who reads something old is known for it, and a run that begins is not.     *)
LEMMA MisledBy ==
    ASSUME NEW r \in Actors
    PROVE  /\ Starts(r) \/ Steps(r) \/ Fails(r) => misled' = misled
           /\ CronStarts(r) => misled' = misled \ {r}
           /\ ReadsOld(r) => misled' = misled \cup {r}
<1>1. Starts(r) => misled' = misled
  BY DEF Starts, bounds
<1>2. Steps(r) => misled' = misled
  BY DEF Steps, bounds, Claims, Releases, Registers, Creates, NotesItems, PutsRecords, Finalizes, Upgrades,
         ReadsMarker, ClaimsMarkers, DropsAbandoned, Resolves, ReadsTrash, SavesTrash, EmptiesTrash,
         PutsUpdate, ListsComments
<1>3. Fails(r) => misled' = misled
  BY DEF Fails, ClaimReplyLost, ReleaseFails, ReadFails, RegisterFails, CreateFails, PutFails, FinalizeFails,
         TrashFails, CompensationFails, CutOff
<1> QED BY <1>1, <1>2, <1>3 DEF CronStarts, ReadsOld

(* What a read shows has its shape, be it old.                                *)
LEMMA ShowsTyped ==
    ASSUME StoreTyped, NEW r \in Actors,
           Starts(r) \/ CronStarts(r) \/ Steps(r) \/ Fails(r) \/ ReadsOld(r)
    PROVE  \E L \in Listings : \E kv \in Records : Does(r, L, kv)
<1>1. list \in Listings /\ records \in [Invites -> Groups]
      /\ \A old \in shown : old.list \in Listings /\ old.records \in [Invites -> Groups]
  BY DEF StoreTyped, Records
<1>2. CASE ReadsOld(r)
  <2>1. PICK old \in shown : \E L \in {list, old.list}, S \in SUBSET Invites :
                    Does(r, L, [u \in Invites |-> IF u \in S THEN old.records[u] ELSE records[u]])
    BY <1>2, EachDoes
  <2>2. PICK L \in {list, old.list}, S \in SUBSET Invites :
                    Does(r, L, [u \in Invites |-> IF u \in S THEN old.records[u] ELSE records[u]])
    BY <2>1
  <2>3. [u \in Invites |-> IF u \in S THEN old.records[u] ELSE records[u]] \in Records
    BY <1>1 DEF Records
  <2> QED BY <1>1, <2>2, <2>3
<1>3. CASE Starts(r) \/ CronStarts(r) \/ Steps(r) \/ Fails(r)
  BY <1>1, <1>3, EachDoes DEF Records
<1> QED BY <1>2, <1>3

LEMMA StepsView ==
    ASSUME LeaseInv, StoreTyped, Jobs, MarkersSound, ~stray, ViewsCurrent, NEW r \in Actors, Goes(r),
           Starts(r) \/ CronStarts(r) \/ Steps(r) \/ Fails(r) \/ ReadsOld(r)
    PROVE  ViewsCurrent'
<1>1. ASSUME r \notin misled' PROVE Views(r)'
  <2>1. CASE Starts(r) \/ CronStarts(r)
    BY <2>1, PlainView
  <2>2. CASE Steps(r) \/ Fails(r)
    <3>1. Views(r)
      BY <1>1, <2>2, MisledBy DEF ViewsCurrent, Views
    <3>2. CASE Steps(r)
      BY <3>1, <3>2, AddingView, RecordsView, SettlingView, RemovingView, CleaningView, PlainView DEF Steps, Looks
    <3>3. CASE Fails(r)
      BY <3>1, <3>3, AddingView, PlainView DEF Fails, Falters
    <3> QED BY <2>2, <3>2, <3>3
  <2> QED BY <1>1, <2>1, <2>2, MisledBy
<1>2. ASSUME NEW q \in Actors \ {r}, q \notin misled' PROVE Views(q)'
  <2>1. PICK L \in Listings : \E kv \in Records : Does(r, L, kv)
    BY ShowsTyped
  <2>2. Spares(r)
    BY <2>1, StepsSpare
  <2>3. q \notin misled
    BY <1>2, MisledBy
  <2>4. Views(q)
    BY <2>3 DEF ViewsCurrent, Views
  <2> QED BY <2>2, <2>4, OthersView DEF Goes
<1> QED BY <1>1, <1>2 DEF ViewsCurrent, Views

(* A create that takes effect late, but before the re-list, adds to the list  *)
(* under the lease of the request that waits for it.                         *)
LEMMA LandsView ==
    ASSUME LeaseInv, StoreTyped, Jobs, ViewsCurrent, NEW o \in flight, Lands(o), ~stray'
    PROVE  ViewsCurrent'
<1>1. /\ ~stray /\ o.op = "create" /\ req[o.by].pc = "relist" /\ req' = req /\ misled' = misled
      /\ UNCHANGED <<records, trash, ledger>> /\ list' = Created(o.by, o.ips)
  <2>1. o.op \in {"create", "delete"}
    BY DEF StoreTyped, Flight
  <2> QED BY <2>1 DEF Lands, store
<1>2. o.by \in Actors /\ o.by \in Requests
  BY <1>1 DEF StoreTyped, Actors
<1>3. DOMAIN list \subseteq DOMAIN list'
  BY <1>1 DEF Created
<1>4. Spares(o.by)
  BY <1>1, <1>3 DEF Spares, Working, Waiting
<1>5. ASSUME o.by \notin misled PROVE Views(o.by)'
  BY <1>1, <1>2, <1>3, <1>5 DEF ViewsCurrent, Views, OwnView, Copying, Listed, FullView, KeysKept, MarkKnown, Creating
<1>6. ASSUME NEW q \in Actors \ {o.by}, q \notin misled PROVE Views(q)'
  BY <1>1, <1>2, <1>4, <1>6, OthersView DEF ViewsCurrent, Views
<1> QED BY <1>1, <1>2, <1>5, <1>6 DEF ViewsCurrent, Views

LEMMA UntouchedView ==
    ASSUME ViewsCurrent, UNCHANGED <<list, records, trash, req, misled>>, DOMAIN ledger' = DOMAIN ledger
    PROVE  ViewsCurrent'
BY NothingChanged DEF ViewsCurrent, Views

(* The invariant of the store. *)
THEOREM StoreStaysSound == Spec => []StoreInv
<1>1. Init => StoreInv
  BY InitSound DEF StoreInv
<1>2. StoreInv /\ [Next]_vars => StoreInv'
  <2> SUFFICES ASSUME StoreInv, [Next]_vars PROVE StoreInv'
    OBVIOUS
  <2>0. LeaseInv /\ StoreTyped /\ Jobs /\ MarkersSound /\ (~stray => ViewsCurrent)
    BY DEF StoreInv
  <2>1. ASSUME NEW r \in Actors, Starts(r) \/ CronStarts(r) \/ Steps(r) \/ Fails(r) \/ ReadsOld(r)
        PROVE  StoreInv'
    <3>0. PICK L \in Listings : \E kv \in Records : Does(r, L, kv)
      BY <2>0, <2>1, ShowsTyped
    <3>8. PICK kv \in Records : Does(r, L, kv)
      BY <3>0
    <3>1. LeaseInv'
      BY <2>0, <3>8, StartsKeeps, CronStartsKeeps, StepsKeep, FailsKeep DEF Does
    <3>2. Goes(r)
      BY <2>0, <3>8, DoesGo
    <3>3. ShapesKept
      BY <2>0, <3>8, StepsKeepShapes, FailsKeepShapes DEF Does
    <3>5. MarkersSound'
      BY <2>0, <3>8, <3>2, MarkersStaySound
    <3>6. stray' = stray /\ shown' = shown
      BY <2>0, <3>8, StepsSpare
    <3>4. Jobs' /\ StoreTyped'
      BY <2>0, <3>2, <3>3, <3>6, JobsGoOn DEF ShapesKept, StoreTyped
    <3>7. ~stray => ViewsCurrent'
      BY <2>0, <2>1, <3>2, StepsView
    <3> QED BY <3>1, <3>4, <3>5, <3>6, <3>7 DEF StoreInv
  <2>2. ASSUME NEW o \in flight, Lands(o) PROVE StoreInv'
    <3>1. LeaseInv'
      BY <2>0, <2>2, OthersKeep DEF Lands
    <3>2. Jobs' /\ StoreTyped' /\ MarkersSound'
      BY <2>0, <2>2, OthersKeepShapes, LandingSound
    <3>3. ~stray' => ViewsCurrent'
      BY <2>0, <2>2, LandsView DEF Lands
    <3> QED BY <3>1, <3>2, <3>3 DEF StoreInv
  <2>3. ASSUME NEW s \in Scopes, LeaseExpires(s) PROVE StoreInv'
    <3>1. UNCHANGED <<list, flight, records, trash, ledger, req, misled>> /\ (stray => stray')
      BY <2>3 DEF LeaseExpires, cloud, store, bounds, limits
    <3>2. LeaseInv'
      BY <2>0, <2>3, ExpiryKeeps
    <3>3. Jobs' /\ StoreTyped' /\ MarkersSound'
      BY <2>0, <2>3, <3>1, OthersKeepShapes, StillSound
    <3>4. ViewsCurrent => ViewsCurrent'
      BY <3>1, UntouchedView
    <3> QED BY <2>0, <3>1, <3>2, <3>3, <3>4 DEF StoreInv
  <2>4. ASSUME NEW m \in DOMAIN ledger, MarkerIsDue(m) PROVE StoreInv'
    <3>1. UNCHANGED <<list, records, trash, req, stray, misled>> /\ DOMAIN ledger' = DOMAIN ledger
      BY <2>4 DEF MarkerIsDue, cloud, store, bounds, limits
    <3>2. LeaseInv'
      BY <2>0, <2>4, OthersKeep DEF MarkerIsDue, bounds, limits
    <3>3. Jobs' /\ StoreTyped' /\ MarkersSound'
      BY <2>0, <2>4, OthersKeepShapes, DueSound
    <3>4. ViewsCurrent => ViewsCurrent'
      BY <3>1, UntouchedView
    <3> QED BY <2>0, <3>1, <3>2, <3>3, <3>4 DEF StoreInv
  <2>5. ASSUME (\E d \in Names : DeadlinePasses(d)) \/ Lingers \/ CatchesUp \/ UNCHANGED vars PROVE StoreInv'
    <3>1. UNCHANGED <<list, flight, records, trash, ledger, leases, req, stray, misled>>
      BY <2>5 DEF DeadlinePasses, Lingers, CatchesUp, vars, cloud, store, bounds, limits
    <3>2. LeaseInv'
      BY <2>0, <3>1, OthersKeep
    <3>3. Jobs' /\ StoreTyped' /\ MarkersSound'
      BY <2>0, <2>5, <3>1, OthersKeepShapes, StillSound
    <3>4. ViewsCurrent => ViewsCurrent'
      BY <3>1, UntouchedView
    <3> QED BY <2>0, <3>1, <3>2, <3>3, <3>4 DEF StoreInv
  <2> QED BY <2>1, <2>2, <2>3, <2>4, <2>5 DEF Next
<1> QED BY <1>1, <1>2, PTL DEF Spec


-----------------------------------------------------------------------------
(* A handler of admin.js that is about to write an invite's records has them  *)
(* as they are now, and the cleanup writes what is in force of them now: no   *)
(* update is lost between the calls, whatever fails and whoever overlaps,    *)
(* unless the writer itself was answered from an old copy.                   *)
THEOREM WritersAlwaysCurrent == Spec => []WritersCopyIsCurrent
<1>1. StoreInv => WritersCopyIsCurrent
  <2> SUFFICES ASSUME StoreInv, ~stray, NEW r \in Actors \ misled
               PROVE  /\ req[r].pc = "put" => req[r].copy = records[req[r].uuid]
                      /\ req[r].pc = "update" =>
                            \A u \in DOMAIN req[r].plan :
                               req[r].plan[u] = At(records[u],
                                      {i \in DOMAIN records[u] : ~Over(records[u][i], req[r].now)})
    BY DEF WritersCopyIsCurrent
  <2>1. OwnView(req[r]) /\ FullView(r) /\ Fits(r, req[r])
    BY DEF StoreInv, ViewsCurrent, Jobs
  <2>2. req[r].pc = "put" => req[r].copy = records[req[r].uuid]
    BY <2>1 DEF OwnView, Copying
  <2>3. ASSUME req[r].pc = "update", NEW u \in DOMAIN req[r].plan
        PROVE  req[r].plan[u] = At(records[u], {i \in DOMAIN records[u] : ~Over(records[u][i], req[r].now)})
    <3>1. req[r].plan[u] = Current(records, u, req[r].now)
      BY <2>1, <2>3 DEF FullView, Fits, KindOfPlace, Cleaning
    <3>2. InForce(records, u, req[r].now) = {i \in DOMAIN records[u] : ~Over(records[u][i], req[r].now)}
      BY DEF InForce, Expired, IsExpired, Over
    <3> QED BY <3>1, <3>2 DEF Current
  <2> QED BY <2>2, <2>3
<1> QED BY <1>1, StoreStaysSound, PTL

(* What a delete call names and the records show: it is called for at three   *)
(* places, and only a deletion's own group is not spared.                    *)
LEMMA CallSpares ==
    ASSUME StoreInv, ~stray, NEW r \in Actors \ misled, req[r].pc \in {"drop", "remove", "sweep"},
           NEW n \in DOMAIN list, <<n, list[n].id>> \in DeleteCall(r, list),
           NEW u \in Invites, NEW i \in DOMAIN records[u],
           n \in records[u][i].ips, ~Over(records[u][i], past)
    PROVE  \E q \in Actors : /\ req[q].kind = "delete" /\ req[q].pc = "remove"
                             /\ req[q].uuid = u /\ req[q].gid = records[u][i].id
<1>1. KeysKept(req[r]) /\ Fits(r, req[r]) /\ req[r].now \subseteq past /\ n \in ReferencedAtAll(records)
  BY DEF StoreInv, ViewsCurrent, FullView, Jobs, ReferencedAtAll, IpsOf
<1>2. n \notin req[r].keys
  BY DEF DeleteCall, Abandoned, Unprotected, Orphans
<1>3. req[r].pc = "remove" /\ req[r].kind \in {"delete", "cleanup"}
  BY <1>1, <1>2 DEF KeysKept, Fits, KindOfPlace
<1>4. CASE req[r].kind = "delete"
  <2>1. n \notin Referenced(records, req[r].uuid, req[r].gid)
    BY <1>1, <1>2, <1>3, <1>4 DEF KeysKept
  <2>2. i \notin Others(records, u, req[r].uuid, req[r].gid)
    BY <2>1 DEF Referenced
  <2>3. u = req[r].uuid /\ records[u][i].id = req[r].gid
    BY <2>2 DEF Others, Named
  <2> QED BY <1>3, <1>4, <2>3
<1>5. CASE req[r].kind = "cleanup"
  <2>1. i \in InForce(records, u, req[r].now)
    BY <1>1 DEF InForce, Expired, IsExpired, Over
  <2>2. n \in IpsInForce(records, req[r].now)
    BY <2>1 DEF IpsInForce
  <2> QED BY <1>1, <1>2, <1>3, <1>5, <2>2 DEF KeysKept, IpsInForce
<1> QED BY <1>3, <1>4, <1>5

(* The steps that take items off the list go by what the list showed.         *)
LEMMA CallShrinks ==
    ASSUME StoreInv, NEW r \in Actors, NEW L, NEW kv, Does(r, L, kv), NEW n \in DOMAIN list \ DOMAIN list'
    PROVE  /\ req[r].pc \in {"drop", "remove", "sweep"} /\ req'[r] # req[r]
           /\ <<n, list[n].id>> \in DeleteCall(r, L)
<1>0. req \in [Actors -> Work] /\ req[r] \in Work /\ Fits(r, req[r])
  BY AtWork DEF StoreInv
<1>1. \A items : n \notin DOMAIN Remaining(items) => <<n, list[n].id>> \in items
  BY DEF Remaining, Without
<1>2. CASE DropsAbandoned(r) \/ RemovesNetworks(r, L) \/ Sweeps(r, L) \/ DeleteFails(r, L)
  <2>1. req[r].pc \in {"drop", "remove", "sweep"} /\ list' = Remaining(DeleteCall(r, L))
    BY <1>2 DEF DropsAbandoned, RemovesNetworks, Sweeps, DeleteFails, DeleteCall
  <2>2. req'[r].pc # req[r].pc
    <3>1. CASE DropsAbandoned(r)
      BY <1>0, <3>1 DEF DropsAbandoned, Work
    <3>2. CASE RemovesNetworks(r, L)
      BY <1>0, <3>2 DEF RemovesNetworks, AfterRemoval, Work
    <3>3. CASE Sweeps(r, L)
      BY <1>0, <3>3 DEF Sweeps, Ending, Blank
    <3>4. CASE DeleteFails(r, L)
      <4>1. \/ \E outcome : req' = [req EXCEPT ![r] = Ending(r, outcome)]
            \/ \E m : req' = [req EXCEPT ![r] = AfterMarker(r, m)]
        BY <3>4 DEF DeleteFails
      <4>2. req'[r].pc \in Claimless
        BY <4>1, EndsClaimless DEF StoreInv
      <4> QED BY <2>1, <4>2 DEF Claimless, Waiting
    <3> QED BY <1>2, <3>1, <3>2, <3>3, <3>4
  <2> QED BY <1>1, <2>1, <2>2
<1>3. CASE Creates(r)
  BY <1>3 DEF Creates, Created
<1>4. CASE ~(Creates(r) \/ DropsAbandoned(r) \/ RemovesNetworks(r, L) \/ Sweeps(r, L) \/ DeleteFails(r, L))
  <2>1. list' = list
    BY <1>4 DEF cloud, Does, Starts, CronStarts, Moves, Looks, Falters,
         Claims, Releases, ListsItems, Registers, Relists, NotesItems, ReadsRecords, PutsRecords, Finalizes,
         Upgrades, ReadsMarker, ClaimsMarkers, FindsCandidates, ReadsReferences, Resolves,
         ReadsProtected, ReadsTrash, SavesTrash, EmptiesTrash, Scans, PutsUpdate, ListsComments,
         Surveys, ClaimReplyLost, ReleaseFails, ReadFails, RegisterFails, CreateFails, PutFails,
         FinalizeFails, TrashFails, CompensationFails, CutOff
  <2> QED BY <2>1
<1> QED BY <1>2, <1>3, <1>4

LEMMA ListShrinks ==
    ASSUME StoreInv, [Next]_vars, ~stray', NEW n \in DOMAIN list \ DOMAIN list'
    PROVE  ~stray /\ \E r \in Actors : \/ r \in misled' /\ req'[r] # req[r]
                                       \/ /\ r \notin misled /\ req[r].pc \in {"drop", "remove", "sweep"}
                                          /\ <<n, list[n].id>> \in DeleteCall(r, list)
<1>1. ASSUME NEW r \in Actors, Starts(r) \/ CronStarts(r) \/ Steps(r) \/ Fails(r) \/ ReadsOld(r)
      PROVE  ~stray /\ (\/ r \in misled' /\ req'[r] # req[r]
                        \/ /\ r \notin misled /\ req[r].pc \in {"drop", "remove", "sweep"}
                           /\ <<n, list[n].id>> \in DeleteCall(r, list))
  <2>1. PICK L \in Listings : \E kv \in Records : Does(r, L, kv)
    BY <1>1, ShowsTyped DEF StoreInv
  <2>2. PICK kv \in Records : Does(r, L, kv)
    BY <2>1
  <2>3. ~stray /\ req'[r] # req[r] /\ req[r].pc \in {"drop", "remove", "sweep"}
    BY <2>2, StepsSpare, CallShrinks DEF StoreInv
  <2>4. CASE r \notin misled'
    <3>1. ~ReadsOld(r) /\ ~CronStarts(r)
      BY <2>3, <2>4, MisledBy DEF CronStarts
    <3>2. r \notin misled /\ Does(r, list, records)
      BY <1>1, <2>4, <3>1, MisledBy, EachDoes
    <3> QED BY <2>3, <3>2, CallShrinks
  <2> QED BY <2>3, <2>4
<1>2. ASSUME NEW o \in flight, Lands(o) PROVE FALSE
  <2>1. list' = Created(o.by, o.ips)
    BY <1>2 DEF Lands, StoreInv, StoreTyped, Flight
  <2> QED BY <2>1 DEF Created
<1>3. CASE list' = list
  BY <1>3
<1> QED BY <1>1, <1>2, <1>3 DEF Next, LeaseExpires, MarkerIsDue, DeadlinePasses, Lingers, CatchesUp, vars, cloud

(* No deletion, purge, expiry, sweep or settled marker takes a network off    *)
(* the list that a group in force still names, of whatever invite, whatever   *)
(* fails and however the requests overlap, unless the one that does was       *)
(* itself answered from an old copy.                                         *)
THEOREM RemovalAlwaysSpares == Spec => RemovalSparesOthers
<1>1. StoreInv /\ [Next]_vars =>
        [~stray' => \A n \in DOMAIN list \ DOMAIN list', u \in Invites :
            \A i \in DOMAIN records[u] :
               LET g == records[u][i]
               IN  (n \in g.ips /\ ~Over(g, past)) =>
                      \E r \in Actors : \/ req'[r] # req[r] /\ r \in misled'
                                        \/ /\ req[r].kind = "delete" /\ req[r].pc = "remove"
                                           /\ req[r].uuid = u /\ req[r].gid = g.id]_vars
  <2> SUFFICES ASSUME StoreInv, [Next]_vars, ~stray', NEW n \in DOMAIN list \ DOMAIN list', NEW u \in Invites,
                      NEW i \in DOMAIN records[u], n \in records[u][i].ips, ~Over(records[u][i], past)
               PROVE  \E r \in Actors : \/ req'[r] # req[r] /\ r \in misled'
                                        \/ /\ req[r].kind = "delete" /\ req[r].pc = "remove"
                                           /\ req[r].uuid = u /\ req[r].gid = records[u][i].id
    OBVIOUS
  <2>1. PICK r \in Actors : \/ r \in misled' /\ req'[r] # req[r]
                            \/ /\ r \notin misled /\ req[r].pc \in {"drop", "remove", "sweep"}
                               /\ <<n, list[n].id>> \in DeleteCall(r, list)
    BY ListShrinks
  <2>2. ~stray
    BY ListShrinks
  <2>3. CASE r \in misled' /\ req'[r] # req[r]
    BY <2>3
  <2>4. CASE r \notin misled /\ req[r].pc \in {"drop", "remove", "sweep"} /\ <<n, list[n].id>> \in DeleteCall(r, list)
    BY <2>2, <2>4, CallSpares
  <2> QED BY <2>1, <2>3, <2>4
<1> QED BY <1>1, StoreStaysSound, PTL DEF Spec, RemovalSparesOthers


(* A request is told "ok" when it has written or settled; a visitor's or an   *)
(* admin's addition is then on the list and in the records.                  *)
LEMMA GrantStep ==
    ASSUME StoreInv, ~stray, NEW a \in Actors \ misled, NEW L, NEW kv, Does(a, L, kv),
           req[a].kind = "add", req[a].outcome = "none", req'[a].outcome = "ok"
    PROVE  req[a].ips \subseteq DOMAIN list' \cap IpsOf(records'[req[a].uuid])
<1>0. /\ req \in [Actors -> Work] /\ req[a] \in Work /\ Fits(a, req[a]) /\ OwnView(req[a])
      /\ records \in [Invites -> Groups]
  BY DEF StoreInv, ViewsCurrent, StoreTyped, Records, Jobs
<1> DEFINE Quiet == \/ req'[a].outcome = req[a].outcome
                    \/ \E outcome : outcome # "ok" /\ \/ req' = [req EXCEPT ![a] = Ending(a, outcome)]
                                                      \/ req' = [req EXCEPT ![a] = Finished(a, outcome)]
                    \/ \E m : req' = [req EXCEPT ![a] = AfterMarker(a, m)]
<1>1. ~Quiet
  <2>1. \A outcome : outcome # "ok" => Ending(a, outcome).outcome # "ok" /\ Finished(a, outcome).outcome # "ok"
    BY DEF Ending, Finished, Blank
  <2>2. \A m : AfterMarker(a, m).outcome # "ok"
    <3>1. Ending(a, "failed").outcome # "ok"
      BY <2>1
    <3>2. \A m : a \in Crons => AfterMarker(a, m).outcome = req[a].outcome
      BY <1>0 DEF AfterMarker, Work
    <3> QED BY <3>1, <3>2 DEF AfterMarker
  <2> QED BY <1>0, <2>1, <2>2
<1>2. CASE PutsRecords(a)
  <2>1. req[a].mark # a
    <3>1. ASSUME req[a].mark = a PROVE req'[a].outcome = req[a].outcome
      BY <1>0, <1>2, <3>1 DEF PutsRecords, Work
    <3> QED BY <1>1, <3>1
  <2>2. req[a].ips \subseteq DOMAIN list /\ list' = list
    BY <1>0, <1>2 DEF PutsRecords, OwnView, Listed, cloud
  <2>3. a \in Requests /\ req[a].uuid \in Invites
    BY <1>0, <1>2 DEF PutsRecords, Fits, Working, Waiting, Actors
  <2>4. records'[req[a].uuid] = NextGroups(a)
    BY <1>0, <1>2, <2>3 DEF PutsRecords
  <2>5. [id |-> a, ips |-> req[a].ips, until |-> a] \in Group /\ req[a].copy \in Groups
    BY <1>0, <2>3, WorkFields DEF Group, Names
  <2>6. req[a].ips \subseteq IpsOf(NextGroups(a))
    BY <2>5, KeptGroups DEF NextGroups
  <2> QED BY <2>2, <2>4, <2>6
<1>3. CASE Finalizes(a) \/ FinalizeFails(a)
  <2>1. /\ UNCHANGED <<list, records>> /\ req[a].pc = "finalize"
    BY <1>3 DEF Finalizes, FinalizeFails, cloud, store
  <2> QED BY <1>0, <2>1 DEF OwnView, Listed
<1>4. CASE Releases(a) \/ ReleaseFails(a)
  <2>1. PICK s : req' = [req EXCEPT ![a] = WithoutLease(a, s)]
    BY <1>4 DEF Releases, ReleaseFails
  <2>2. WithoutLease(a, s).outcome # "ok"
    BY <1>0 DEF WithoutLease, Finished, Blank, Work
  <2> QED BY <1>0, <2>1, <2>2
<1>5. CASE Starts(a) \/ CronStarts(a)
  BY <1>0, <1>5 DEF Starts, CronStarts, Blank
<1>6. CASE \/ ListsItems(a, L) \/ Creates(a) \/ Relists(a, L) \/ NotesItems(a) \/ ClaimsMarkers(a)
           \/ ReadsReferences(a, kv) \/ DropsAbandoned(a) \/ ReadsProtected(a, kv) \/ RemovesNetworks(a, L)
           \/ Scans(a, kv) \/ PutsUpdate(a) \/ ListsComments(a) \/ Surveys(a, kv) \/ CreateFails(a)
  <2>1. ASSUME ListsItems(a, L) PROVE req'[a].outcome = req[a].outcome
    BY <1>0, <2>1 DEF ListsItems, Work
  <2>2. ASSUME Creates(a) PROVE req'[a].outcome = req[a].outcome
    BY <1>0, <2>2 DEF Creates, Work
  <2>3. ASSUME Relists(a, L) PROVE req'[a].outcome = req[a].outcome
    BY <1>0, <2>3 DEF Relists, Work
  <2>4. ASSUME NotesItems(a) PROVE req'[a].outcome = req[a].outcome
    BY <1>0, <2>4 DEF NotesItems, Work
  <2>5. ASSUME ClaimsMarkers(a) PROVE req'[a].outcome = req[a].outcome
    BY <1>0, <2>5 DEF ClaimsMarkers, Work
  <2>6. ASSUME ReadsReferences(a, kv) PROVE req'[a].outcome = req[a].outcome
    BY <1>0, <2>6 DEF ReadsReferences, Work
  <2>7. ASSUME DropsAbandoned(a) PROVE req'[a].outcome = req[a].outcome
    BY <1>0, <2>7 DEF DropsAbandoned, Work
  <2>8. ASSUME ReadsProtected(a, kv) PROVE req'[a].outcome = req[a].outcome
    BY <1>0, <2>8 DEF ReadsProtected, Work
  <2>9. ASSUME RemovesNetworks(a, L) PROVE req'[a].outcome = req[a].outcome
    BY <1>0, <2>9 DEF RemovesNetworks, Work
  <2>10. ASSUME Scans(a, kv) PROVE req'[a].outcome = req[a].outcome
    BY <1>0, <2>10 DEF Scans, Work
  <2>11. ASSUME PutsUpdate(a) PROVE req'[a].outcome = req[a].outcome
    BY <1>0, <2>11 DEF PutsUpdate, Work
  <2>12. ASSUME ListsComments(a) PROVE req'[a].outcome = req[a].outcome
    BY <1>0, <2>12 DEF ListsComments, Work
  <2>13. ASSUME Surveys(a, kv) PROVE req'[a].outcome = req[a].outcome
    BY <1>0, <2>13 DEF Surveys, Work
  <2>14. ASSUME CreateFails(a) PROVE req'[a].outcome = req[a].outcome
    BY <1>0, <2>14 DEF CreateFails, Work
  <2> QED BY <1>1, <1>6, <2>1, <2>2, <2>3, <2>4, <2>5, <2>6, <2>7, <2>8, <2>9, <2>10, <2>11, <2>12, <2>13, <2>14
<1>7. CASE ReadsRecords(a, kv) \/ ReadsTrash(a) \/ SavesTrash(a) \/ EmptiesTrash(a) \/ Sweeps(a, L)
  <2>1. ReadsRecords(a, kv)
    BY <1>0, <1>7 DEF ReadsTrash, SavesTrash, EmptiesTrash, Sweeps, Fits, KindOfPlace, Cleaning
  <2>2. req'[a].outcome = req[a].outcome
    BY <1>0, <2>1 DEF ReadsRecords, Work
  <2> QED BY <1>1, <2>2
<1>8. CASE FindsCandidates(a, L)
  <2>1. PICK m \in DOMAIN req[a].batch :
          \/ req' = [req EXCEPT ![a] = AfterMarker(a, m)]
          \/ req' = [req EXCEPT ![a].pc = "references", ![a].mark = m,
                               ![a].found = Candidates(L, m, req[a].batch[m])]
    BY <1>8 DEF FindsCandidates
  <2>2. req' # [req EXCEPT ![a] = AfterMarker(a, m)]
    BY <1>1
  <2>3. req'[a].outcome = req[a].outcome
    BY <1>0, <2>1, <2>2 DEF Work
  <2> QED BY <1>1, <2>3
<1>9. CASE Claims(a) \/ Registers(a) \/ Upgrades(a) \/ ReadsMarker(a)
  <2>1. CASE Claims(a)
    BY <1>0, <1>1, <2>1 DEF Claims, Work
  <2>2. CASE Registers(a)
    BY <1>0, <1>1, <2>2 DEF Registers, Work
  <2>3. CASE Upgrades(a)
    BY <1>0, <1>1, <2>3 DEF Upgrades, Work
  <2>4. CASE ReadsMarker(a)
    BY <1>0, <1>1, <2>4 DEF ReadsMarker, Work
  <2> QED BY <1>9, <2>1, <2>2, <2>3, <2>4
<1>10. CASE Resolves(a)
  BY <1>1, <1>10 DEF Resolves
<1>11. CASE ReadFails(a) \/ PutFails(a)
  <2>1. CASE ReadFails(a)
    BY <1>0, <1>1, <2>1 DEF ReadFails, Work
  <2>2. CASE PutFails(a)
    BY <1>0, <1>1, <2>2 DEF PutFails, Work
  <2> QED BY <1>11, <2>1, <2>2
<1>12. CASE \/ ClaimReplyLost(a) \/ RegisterFails(a) \/ TrashFails(a) \/ CompensationFails(a)
            \/ DeleteFails(a, L) \/ CutOff(a)
  <2>1. Quiet
    BY <1>12 DEF ClaimReplyLost, RegisterFails, TrashFails, CompensationFails, DeleteFails, CutOff
  <2> QED BY <1>1, <2>1
<1> QED BY <1>2, <1>3, <1>4, <1>5, <1>6, <1>7, <1>8, <1>9, <1>10, <1>11, <1>12 DEF Does, Moves, Looks, Falters

(* A marker leaves the ledger by its request or by whoever settles it, and    *)
(* what bears its name is recorded then.                                     *)
LEMMA SettledStep ==
    ASSUME StoreInv, ~stray, NEW a \in Actors \ misled, NEW L, NEW kv, Does(a, L, kv),
           NEW m \in DOMAIN ledger \ DOMAIN ledger', NEW n \in DOMAIN list, list[n].comment = m
    PROVE  n \in ReferencedAtAll(records)
<1>0. /\ req \in [Actors -> Work] /\ req[a] \in Work /\ Fits(a, req[a]) /\ OwnView(req[a]) /\ MarkKnown(req[a])
      /\ m \in Requests /\ MarkersSound /\ StoreTyped
  BY MarkersTyped DEF StoreInv, ViewsCurrent, FullView, StoreTyped, Jobs
<1>1. CASE Finalizes(a)
  <2>1. /\ ledger' = Without(ledger, {a}) /\ req[a].pc = "finalize"
    BY <1>1 DEF Finalizes
  <2>2. m = a
    BY <2>1 DEF Without
  <2>3. ledger[m].values = req[a].todo /\ req[a].todo \subseteq req[a].ips
    BY <1>0, <2>1, <2>2 DEF MarkersSound, MarkerIsOwn, WithMarker
  <2>4. n \in ledger[m].values
    BY <1>0 DEF MarkersSound, NamedAreMarked
  <2>5. req[a].uuid \in Invites
    BY <1>0, <2>1 DEF Fits, KindOfPlace, Working, Waiting
  <2>6. n \in IpsOf(records[req[a].uuid])
    BY <1>0, <2>1, <2>3, <2>4 DEF OwnView
  <2> QED BY <2>5, <2>6 DEF ReferencedAtAll
<1>2. CASE Resolves(a)
  <2>1. /\ ledger' = Without(ledger, {req[a].mark}) /\ req[a].pc = "resolve"
    BY <1>2 DEF Resolves
  <2>2. m = req[a].mark
    BY <2>1 DEF Without
  <2> QED BY <1>0, <2>1, <2>2 DEF MarkKnown
<1>3. CASE ~(Finalizes(a) \/ Resolves(a))
  <2>1. CASE ledger' = ledger
    BY <2>1
  <2>2. CASE Registers(a) \/ RegisterFails(a)
    BY <2>2 DEF Registers, RegisterFails, With
  <2>3. CASE NotesItems(a) \/ ClaimsMarkers(a) \/ FindsCandidates(a, L) \/ CompensationFails(a) \/ DeleteFails(a, L)
    BY <2>3 DEF NotesItems, ClaimsMarkers, FindsCandidates, CompensationFails, DeleteFails, Postponed
  <2> QED BY <1>3, <2>1, <2>2, <2>3
          DEF Does, Starts, CronStarts, Moves, Looks, Falters, Claims, Releases, ListsItems, Creates, Relists, ReadsRecords,
              PutsRecords, Upgrades, ReadsMarker, ReadsReferences, DropsAbandoned, ReadsProtected, RemovesNetworks,
              ReadsTrash, SavesTrash, EmptiesTrash, Scans, PutsUpdate, ListsComments, Surveys, Sweeps,
              ClaimReplyLost, ReleaseFails, ReadFails, CreateFails, PutFails, FinalizeFails, TrashFails, CutOff
<1> QED BY <1>1, <1>2, <1>3

(* A deletion that changes the records writes them without its group, which   *)
(* the trash has by then.                                                    *)
LEMMA DeletedStep ==
    ASSUME StoreInv, ~stray, NEW a \in Actors \ misled, NEW L, NEW kv, Does(a, L, kv),
           req[a].kind = "delete", records' # records
    PROVE  Deleted(a) \subseteq trash
<1>1. FullView(a) /\ Fits(a, req[a])
  BY DEF StoreInv, ViewsCurrent, Jobs
<1>2. PutsRecords(a) \/ PutFails(a) \/ PutsUpdate(a)
  BY DEF store, Does, Starts, CronStarts, Moves, Looks, Falters,
         Claims, Releases, ListsItems, Registers, Creates, Relists, NotesItems, ReadsRecords, Finalizes,
         Upgrades, ReadsMarker, ClaimsMarkers, FindsCandidates, ReadsReferences, DropsAbandoned, Resolves,
         ReadsProtected, RemovesNetworks, ReadsTrash, SavesTrash, EmptiesTrash, Scans, ListsComments,
         Surveys, Sweeps, ClaimReplyLost, ReleaseFails, ReadFails, RegisterFails, CreateFails,
         FinalizeFails, TrashFails, CompensationFails, DeleteFails, CutOff
<1>3. req[a].pc = "put"
  BY <1>1, <1>2 DEF PutsRecords, PutFails, PutsUpdate, Fits, KindOfPlace, Cleaning
<1> QED BY <1>1, <1>3 DEF FullView

(* What the records name stays on the list, and what a visitor or admin is    *)
(* told, what a marker settles and what a deletion takes out of the records  *)
(* is kept by another part of the store, whoever else goes by an old copy.   *)
THEOREM NothingIsForgotten == Spec => NothingForgotten
<1>0. ASSUME StoreInv, Next, NEW r \in Actors, req'[r] # req[r]
      PROVE  \E L, kv : Does(r, L, kv)
  <2>1. PICK a \in Actors : Starts(a) \/ CronStarts(a) \/ Steps(a) \/ Fails(a) \/ ReadsOld(a)
    BY <1>0 DEF Next, Lands, LeaseExpires, MarkerIsDue, DeadlinePasses, Lingers, CatchesUp
  <2>2. PICK L \in Listings : \E kv \in Records : Does(a, L, kv)
    BY <1>0, <2>1, ShowsTyped DEF StoreInv
  <2>3. PICK kv \in Records : Does(a, L, kv)
    BY <2>2
  <2>4. a = r
    BY <1>0, <2>3, DoesGo DEF StoreInv, Goes
  <2> QED BY <2>3, <2>4
<1>1. StoreInv /\ [Next]_vars =>
        [~stray => \A r \in Requests \ misled :
            (req[r].kind = "add" /\ req[r].outcome = "none" /\ req'[r].outcome = "ok")
               => req[r].ips \subseteq DOMAIN list' \cap IpsOf(records'[req[r].uuid])]_vars
  <2> SUFFICES ASSUME StoreInv, Next, ~stray, NEW r \in Requests \ misled,
                      req[r].kind = "add", req[r].outcome = "none", req'[r].outcome = "ok"
               PROVE  req[r].ips \subseteq DOMAIN list' \cap IpsOf(records'[req[r].uuid])
    OBVIOUS
  <2>1. r \in Actors /\ req'[r] # req[r]
    BY DEF Actors
  <2>2. PICK L, kv : Does(r, L, kv)
    BY <1>0, <2>1
  <2> QED BY <2>1, <2>2, GrantStep
<1>2. StoreInv /\ [Next]_vars =>
        [~stray => \A r \in Actors \ misled : req'[r] # req[r] =>
            \A m \in DOMAIN ledger \ DOMAIN ledger', n \in DOMAIN list :
               list[n].comment = m => n \in ReferencedAtAll(records)]_vars
  <2> SUFFICES ASSUME StoreInv, Next, ~stray, NEW r \in Actors \ misled, req'[r] # req[r],
                      NEW m \in DOMAIN ledger \ DOMAIN ledger', NEW n \in DOMAIN list, list[n].comment = m
               PROVE  n \in ReferencedAtAll(records)
    OBVIOUS
  <2>1. PICK L, kv : Does(r, L, kv)
    BY <1>0
  <2> QED BY <2>1, SettledStep
<1>3. StoreInv /\ [Next]_vars =>
        [~stray => \A r \in Requests \ misled :
            (req[r].kind = "delete" /\ records' # records /\ req'[r] # req[r])
               => Deleted(r) \subseteq trash]_vars
  <2> SUFFICES ASSUME StoreInv, Next, ~stray, NEW r \in Requests \ misled,
                      req[r].kind = "delete", records' # records, req'[r] # req[r]
               PROVE  Deleted(r) \subseteq trash
    OBVIOUS
  <2>1. r \in Actors
    BY DEF Actors
  <2>2. PICK L, kv : Does(r, L, kv)
    BY <1>0, <2>1
  <2> QED BY <2>1, <2>2, DeletedStep
<1> QED BY <1>1, <1>2, <1>3, RemovalAlwaysSpares, StoreStaysSound, PTL
        DEF Spec, NothingForgotten, GrantIsListed, SettledIsRecorded, DeletedGroupInTrash
=============================================================================
