----------------------------- MODULE AllowList -----------------------------
(***************************************************************************)
(* The IP allowlist: the networks on the Cloudflare list, the IP records   *)
(* in Workers KV that say which invite each network stands for, and the    *)
(* mutation ledger and the record leases of the AuthState object that keep *)
(* the two together (admin.js, cloudflare-mutation.js, auth-state.js).     *)
(*                                                                         *)
(* List, records and ledger are changed by separate calls.  A request that *)
(* adds networks registers a marker in the ledger, creates the list items  *)
(* under the marker's comment, writes the records and only then resolves   *)
(* the marker; the scheduled cleanup deletes what a marker left behind,    *)
(* removes expired groups and sweeps managed items no record refers to.    *)
(* Requests on one invite exclude each other by its record lease; whoever  *)
(* deletes list items holds the maintenance lease, which excludes all.     *)
(*                                                                         *)
(* Each action is one call and what the handler does up to the next.  A    *)
(* call may fail with or without its effect, a create or a delete may take *)
(* effect later or never, a request may be cut off, and a lease may run    *)
(* out under a request that still works (MaxTrouble in all).  Times are    *)
(* not numbers: a lease, a marker's delay and a group's deadline may pass  *)
(* at any moment.                                                          *)
(*                                                                         *)
(* The records are in Workers KV and the list behind the Rules Lists API,  *)
(* and both reach other places late: a read may show what was there some   *)
(* time ago.  Ledger, leases, trash and the stored invites are the         *)
(* object's and are read as they are.                                      *)
(***************************************************************************)
EXTENDS Naturals, FiniteSets, SequencesExt

CONSTANTS
    Invites,        \* the stored invites
    Networks,       \* values of list items
    Requests,       \* visitor and admin requests; also their markers and ids
    Crons,          \* the scheduled runs, one at a time each
    Kinds,          \* what requests do: add, extend, delete, restore, purge
    MaxGroups,      \* the groups kept for one invite (50)
    LedgerLimit,    \* MAX_CLOUDFLARE_MUTATIONS
    MaxTrouble,     \* bound on failed calls, lost replies, cut-off requests, old
                    \* copies and leases that run out under a working request
    All,            \* RECORD_MAINTENANCE_SCOPE
    Earlier,        \* the comment of a managed item of an earlier request
    Foreign,        \* the comment of an item the Worker does not manage
    Nobody

ASSUME KindAssumption == Kinds \subseteq {"add", "extend", "delete", "restore", "purge"}
ASSUME BoundAssumption ==
    /\ MaxGroups \in Nat \ {0}
    /\ LedgerLimit \in Nat \ {0}
    /\ MaxTrouble \in Nat
ASSUME DistinctAssumption ==
    /\ Requests \cap Crons = {}
    /\ (Requests \cup Crons) \cap Invites = {}
    /\ All \notin Invites
    /\ Nobody \notin Requests \cup Crons \cup Invites
    /\ {Earlier, Foreign} \cap Requests = {}
    /\ Earlier # Foreign

VARIABLES
    list,           \* the Cloudflare list: network -> [id, comment]
    flight,         \* creates and deletes whose outcome is open
    records,        \* IP records in KV: invite -> groups, newest first
    trash,          \* the deleted groups in the trash
    ledger,         \* the pending markers: request -> [values, items, status]
    leases,         \* record_leases: scope -> owner
    past,           \* the deadlines that have passed
    req,            \* the requests and scheduled runs
    shown,          \* an old copy of list and records that reads may still show
    trouble,
    stray,          \* history: a call had its effect outside of its lease
    misled          \* history: who has read something old

cloud  == <<list, flight>>
store  == <<records, trash>>
limits == <<shown, trouble, stray>>
bounds == <<limits, misled>>
vars   == <<cloud, store, ledger, leases, past, req, bounds>>

-----------------------------------------------------------------------------
Actors  == Requests \cup Crons
Scopes  == Invites \cup {All}
Names   == Requests \cup Invites        \* group and trash ids, deadlines
Blank == [kind |-> "none", pc |-> "idle", uuid |-> Nobody, gid |-> Nobody, ips |-> {},
          todo |-> {}, copy |-> <<>>, bin |-> {}, keys |-> {}, found |-> {}, mark |-> Nobody,
          batch |-> <<>>, plan |-> <<>>, comments |-> {}, now |-> {}, hold |-> {},
          outcome |-> "none"]

(* The end of a request: it gives its leases back.                           *)
Ending(r, outcome) ==
    [Blank EXCEPT !.kind = req[r].kind, !.hold = req[r].hold, !.pc = "release", !.outcome = outcome]

IpsOf(groups) == UNION {groups[i].ips : i \in DOMAIN groups}

Without(f, S) == [x \in DOMAIN f \ S |-> f[x]]
With(f, x, v) == [y \in DOMAIN f \cup {x} |-> IF y = x THEN v ELSE f[y]]

IsExpired(group, now) == group.until \in now

(* Array.filter: the groups at the places I, in their order.                  *)
At(groups, I) ==
    LET place(k) == CHOOSE i \in I : Cardinality({j \in I : j <= i}) = k
    IN  [k \in 1..Cardinality(I) |-> groups[place(k)]]

(* Ids are not unique: a group restored next to the one that took its id over *)
(* in the meantime shares it.  find takes the first, filter all.             *)
Named(groups, gid) == {i \in DOMAIN groups : groups[i].id = gid}

Find(groups, gid) == At(groups, Named(groups, gid))[1]

(* A group is identified by its networks: the first that shares one with the *)
(* incoming group is replaced by it, keeping its id.                         *)
Upsert(groups, incoming) ==
    LET shares(i) == groups[i].ips \cap incoming.ips # {}
        first(i)  == shares(i) /\ \A j \in 1..(i - 1) : ~shares(j)
    IN  IF \E i \in DOMAIN groups : first(i)
        THEN [i \in DOMAIN groups |->
                 IF first(i) THEN [incoming EXCEPT !.id = groups[i].id] ELSE groups[i]]
        ELSE <<incoming>> \o groups

Kept(groups, incoming) ==
    LET next == Upsert(groups, incoming)
    IN  IF Len(next) > MaxGroups THEN SubSeq(next, 1, MaxGroups) ELSE next

(* getReferencedIpKeys; a group being deleted does not count.                *)
Others(kv, v, u, gid) == DOMAIN kv[v] \ (IF v = u THEN Named(kv[v], gid) ELSE {})

MutantOneInvite(kv, u, gid) == UNION {kv[u][i].ips : i \in Others(kv, u, u, gid)}

Referenced(kv, u, gid) ==
    UNION {UNION {kv[v][i].ips : i \in Others(kv, v, u, gid)} : v \in Invites}

ReferencedAtAll(kv) == UNION {IpsOf(kv[v]) : v \in Invites}

-----------------------------------------------------------------------------
(* The record leases. *)
MutantIgnoresHolder(r, s) ==
    IF s = All THEN \A t \in Scopes : leases[t] \in {Nobody, r}
    ELSE leases[All] \in {Nobody, r}

MutantIgnoresMaintenance(r, s) ==
    IF s = All THEN \A t \in Scopes : leases[t] \in {Nobody, r}
    ELSE leases[s] \in {Nobody, r}

CanClaim(r, s) ==
    IF s = All THEN \A t \in Scopes : leases[t] \in {Nobody, r}
    ELSE \A t \in {s, All} : leases[t] \in {Nobody, r}

ScopeOf(r) == IF req[r].kind \in {"add", "extend", "restore"} THEN req[r].uuid ELSE All

First(kind) ==
    CASE kind = "add"                -> "list"
      [] kind \in {"extend", "delete"} -> "read"
      [] kind \in {"restore", "purge"} -> "bin"
      [] kind = "cleanup"            -> "markers"

Finished(r, outcome) ==
    IF r \in Crons THEN Blank
    ELSE [Blank EXCEPT !.kind = req[r].kind, !.pc = "done", !.outcome = outcome]

(* The group and the trash entry a request is about come from a page rendered *)
(* earlier; a scheduled run keeps the time it started at.                    *)
Starts(r) ==
    /\ r \in Requests
    /\ req[r].pc = "idle"
    /\ \E kind \in Kinds, u \in Invites, gid \in Names, S \in SUBSET Networks :
          /\ CASE kind = "add" -> S # {} /\ gid = u
               [] kind \in {"extend", "delete"} ->
                     S = {} /\ \E i \in DOMAIN records[u] : records[u][i].id = gid
               [] OTHER -> S = {} /\ \E b \in trash : b.id = gid /\ b.uuid = u
          /\ req' = [req EXCEPT ![r] = [Blank EXCEPT !.kind = kind, !.pc = "claim", !.uuid = u,
                                                     !.gid = gid, !.ips = S]]
    /\ UNCHANGED <<cloud, store, ledger, leases, past, bounds>>

CronStarts(r) ==
    /\ r \in Crons
    /\ req[r].pc = "idle"
    /\ \A s \in Scopes : leases[s] # r
    /\ req' = [req EXCEPT ![r] = [Blank EXCEPT !.kind = "cleanup", !.pc = "claim", !.now = past]]
    /\ misled' = misled \ {r}
    /\ UNCHANGED <<cloud, store, ledger, leases, past, limits>>

Claims(r) ==
    /\ req[r].pc = "claim"
    /\ IF CanClaim(r, ScopeOf(r))
       THEN /\ leases' = [leases EXCEPT ![ScopeOf(r)] = r]
            /\ req' = [req EXCEPT ![r].pc = First(req[r].kind), ![r].hold = {ScopeOf(r)}]
       ELSE /\ req' = [req EXCEPT ![r] = Finished(r, "busy")]
            /\ UNCHANGED leases
    /\ UNCHANGED <<cloud, store, ledger, past, bounds>>

WithoutLease(r, s) ==
    IF req[r].hold = {s} THEN Finished(r, req[r].outcome)
    ELSE [req[r] EXCEPT !.hold = req[r].hold \ {s}]

(* The release deletes only the owner's row.                                  *)
Releases(r) ==
    /\ req[r].pc = "release"
    /\ LET s == IF All \in req[r].hold THEN All ELSE CHOOSE s \in req[r].hold : TRUE
       IN  /\ leases' = [leases EXCEPT ![s] = IF @ = r THEN Nobody ELSE @]
           /\ req' = [req EXCEPT ![r] = WithoutLease(r, s)]
    /\ UNCHANGED <<cloud, store, ledger, past, bounds>>

-----------------------------------------------------------------------------
(* Adding networks: ensureManagedCloudflareEntries, then the records.         *)
ListsItems(r, L) ==
    /\ req[r].pc = "list"
    /\ LET missing == req[r].ips \ DOMAIN L
       IN  req' = [req EXCEPT ![r].todo = missing,
                              ![r].pc = CASE missing # {} -> "register"
                                          [] missing = {} /\ req[r].kind = "add" -> "read"
                                          [] OTHER -> "put"]
    /\ UNCHANGED <<cloud, store, ledger, leases, past, limits>>

MarkerOf(r) == [values |-> req[r].todo, items |-> {}, status |-> "young"]

LedgerHasRoom == Cardinality(DOMAIN ledger) < LedgerLimit

Registers(r) ==
    /\ req[r].pc = "register"
    /\ IF LedgerHasRoom
       THEN /\ ledger' = With(ledger, r, MarkerOf(r))
            /\ req' = [req EXCEPT ![r].pc = "create"]
       ELSE /\ req' = [req EXCEPT ![r] = Ending(r, "failed")]
            /\ UNCHANGED ledger
    /\ UNCHANGED <<cloud, store, leases, past, bounds>>

(* An item that exists by then keeps its id and takes the new comment.        *)
Created(r, S) ==
    [n \in DOMAIN list \cup S |->
        IF n \notin S THEN list[n]
        ELSE [id |-> IF n \in DOMAIN list THEN list[n].id ELSE r, comment |-> r]]

Creates(r) ==
    /\ req[r].pc = "create"
    /\ list' = Created(r, req[r].todo)
    /\ req' = [req EXCEPT ![r].pc = "relist"]
    /\ UNCHANGED <<flight, store, ledger, leases, past, bounds>>

(* The authoritative re-list finds the items by the marker's comment.         *)
Relists(r, L) ==
    /\ req[r].pc = "relist"
    /\ req' = [req EXCEPT ![r].pc = "note",
                          ![r].found = {<<n, L[n].id>> : n \in
                                {n \in req[r].todo \cap DOMAIN L : L[n].comment = r}}]
    /\ UNCHANGED <<cloud, store, ledger, leases, past, limits>>

MutantTrustsTheCall(r) == TRUE

AllFound(r) == {p[1] : p \in req[r].found} = req[r].todo

NotesItems(r) ==
    /\ req[r].pc = "note"
    /\ ledger' = IF r \in DOMAIN ledger THEN [ledger EXCEPT ![r].items = req[r].found] ELSE ledger
    /\ req' = [req EXCEPT ![r].mark = r, ![r].found = {},
                          ![r].pc = CASE ~AllFound(r) -> "upgrade"
                                      [] AllFound(r) /\ req[r].kind = "add" -> "read"
                                      [] OTHER -> "put"]
    /\ UNCHANGED <<cloud, store, leases, past, bounds>>

ReadsRecords(r, kv) ==
    /\ req[r].pc = "read"
    /\ LET groups == kv[req[r].uuid]
           gid    == req[r].gid
       IN  req' = [req EXCEPT ![r] =
              CASE req[r].kind \in {"add", "extend"} -> [@ EXCEPT !.copy = groups, !.pc = "put"]
                [] req[r].kind = "restore" -> [@ EXCEPT !.copy = groups, !.pc = "list"]
                [] req[r].kind = "delete" /\ Named(groups, gid) = {} -> Ending(r, "ok")
                [] OTHER -> [@ EXCEPT !.copy = groups, !.ips = Find(groups, gid).ips, !.pc = "protect"]]
    /\ UNCHANGED <<cloud, store, ledger, leases, past, limits>>

EntryOf(bin, gid) == CHOOSE b \in bin : b.id = gid

Entry(r) == EntryOf(req[r].bin, req[r].gid)

NextGroups(r) ==
    CASE req[r].kind = "add" -> Kept(req[r].copy, [id |-> r, ips |-> req[r].ips, until |-> r])
      [] req[r].kind = "restore" -> Kept(req[r].copy, Entry(r).group)
      [] req[r].kind = "extend" ->
            [i \in DOMAIN req[r].copy |->
                IF req[r].copy[i].id = req[r].gid THEN [req[r].copy[i] EXCEPT !.until = r]
                ELSE req[r].copy[i]]
      [] OTHER -> At(req[r].copy, DOMAIN req[r].copy \ Named(req[r].copy, req[r].gid))

PutsRecords(r) ==
    /\ req[r].pc = "put"
    /\ records' = [records EXCEPT ![req[r].uuid] = NextGroups(r)]
    /\ req' = [req EXCEPT ![r] = CASE req[r].mark = r         -> [@ EXCEPT !.pc = "finalize"]
                                   [] req[r].mark # r /\ req[r].kind = "restore"
                                                              -> [@ EXCEPT !.pc = "empty"]
                                   [] OTHER                   -> Ending(r, "ok")]
    /\ UNCHANGED <<cloud, trash, ledger, leases, past, bounds>>

Finalizes(r) ==
    /\ req[r].pc = "finalize"
    /\ ledger' = Without(ledger, {r})
    /\ req' = [req EXCEPT ![r] = IF @.kind = "restore" THEN [@ EXCEPT !.pc = "empty"]
                                 ELSE Ending(r, "ok")]
    /\ UNCHANGED <<cloud, store, leases, past, bounds>>

-----------------------------------------------------------------------------
(* Compensation of a marker, by the request that made it or by a scheduled    *)
(* run; a request first takes the maintenance lease under its own token.     *)
Upgrades(r) ==
    /\ req[r].pc = "upgrade"
    /\ IF CanClaim(r, All)
       THEN /\ leases' = [leases EXCEPT ![All] = r]
            /\ req' = [req EXCEPT ![r].pc = "marker", ![r].hold = @ \cup {All}]
       ELSE /\ req' = [req EXCEPT ![r] = Ending(r, "failed")]
            /\ UNCHANGED leases
    /\ UNCHANGED <<cloud, store, ledger, past, bounds>>

ReadsMarker(r) ==
    /\ req[r].pc = "marker"
    /\ req' = [req EXCEPT ![r] = IF r \in DOMAIN ledger
                                 THEN [@ EXCEPT !.batch = With(<<>>, r, ledger[r]), !.pc = "candidates"]
                                 ELSE Ending(r, "failed")]
    /\ UNCHANGED <<cloud, store, ledger, leases, past, bounds>>

Due == {m \in DOMAIN ledger : ledger[m].status = "due"}

ClaimsMarkers(r) ==
    /\ req[r].pc = "markers"
    /\ ledger' = [m \in DOMAIN ledger |->
                     IF m \in Due THEN [ledger[m] EXCEPT !.status = "leased"] ELSE ledger[m]]
    /\ req' = [req EXCEPT ![r].batch = [m \in Due |-> ledger[m]],
                          ![r].pc = IF Due = {} THEN "scan" ELSE "candidates"]
    /\ UNCHANGED <<cloud, store, leases, past, bounds>>

(* A scheduled run goes on to its next marker; a request has failed.          *)
AfterMarker(r, m) ==
    IF r \in Crons
    THEN [req[r] EXCEPT !.batch = Without(@, {m}), !.mark = Nobody, !.found = {}, !.keys = {},
                        !.pc = IF DOMAIN req[r].batch = {m} THEN "scan" ELSE "candidates"]
    ELSE Ending(r, "failed")

Candidates(L, m, marker) ==
    {<<n, L[n].id>> : n \in {n \in DOMAIN L \cap marker.values :
                                L[n].comment = m \/ <<n, L[n].id>> \in marker.items}}

(* releaseCloudflareMutation with the time the next attempt is due.           *)
Postponed(m, status) ==
    IF m \in DOMAIN ledger THEN [ledger EXCEPT ![m].status = status] ELSE ledger

FindsCandidates(r, L) ==
    /\ req[r].pc = "candidates"
    /\ \E m \in DOMAIN req[r].batch :
         LET marker == req[r].batch[m]
             found  == Candidates(L, m, marker)
         IN  IF found = {} /\ marker.status = "young"
             THEN /\ ledger' = Postponed(m, "young")
                  /\ req' = [req EXCEPT ![r] = AfterMarker(r, m)]
             ELSE /\ req' = [req EXCEPT ![r].pc = "references", ![r].mark = m, ![r].found = found]
                  /\ UNCHANGED ledger
    /\ UNCHANGED <<cloud, store, leases, past, limits>>

ReadsReferences(r, kv) ==
    /\ req[r].pc = "references"
    /\ req' = [req EXCEPT ![r].pc = "drop", ![r].keys = ReferencedAtAll(kv)]
    /\ UNCHANGED <<cloud, store, ledger, leases, past, limits>>

-----------------------------------------------------------------------------
(* Deleting list items.  What a delete call covers is fixed by the list and   *)
(* the references read before; the call names items by their ids.            *)
Abandoned(r) == {p \in req[r].found : p[1] \notin req[r].keys}

Unprotected(r, L) == {<<n, L[n].id>> : n \in (req[r].ips \ req[r].keys) \cap DOMAIN L}

MutantNoOrphans(r, L) == {}

Orphans(r, L) ==
    {<<n, L[n].id>> : n \in
        {n \in DOMAIN L \ req[r].keys :
            L[n].comment \in (Requests \cup {Earlier}) \ req[r].comments}}

Remaining(items) ==
    Without(list, {n \in DOMAIN list : <<n, list[n].id>> \in items})

DropsAbandoned(r) ==
    /\ req[r].pc = "drop"
    /\ list' = Remaining(Abandoned(r))
    /\ req' = [req EXCEPT ![r].pc = "resolve"]
    /\ UNCHANGED <<flight, store, ledger, leases, past, bounds>>

Resolves(r) ==
    /\ req[r].pc = "resolve"
    /\ ledger' = Without(ledger, {req[r].mark})
    /\ req' = [req EXCEPT ![r] = AfterMarker(r, req[r].mark)]
    /\ UNCHANGED <<cloud, store, leases, past, bounds>>

ReadsProtected(r, kv) ==
    /\ req[r].pc = "protect"
    /\ req' = [req EXCEPT ![r].pc = "remove",
                          ![r].keys = IF req[r].kind = "delete"
                                      THEN Referenced(kv, req[r].uuid, req[r].gid)
                                      ELSE ReferencedAtAll(kv)]
    /\ UNCHANGED <<cloud, store, ledger, leases, past, limits>>

AfterRemoval(r) ==
    CASE req[r].kind = "delete" -> "bin"
      [] req[r].kind = "purge"  -> "empty"
      [] OTHER -> IF req[r].plan = <<>> THEN "comments" ELSE "update"

RemovesNetworks(r, L) ==
    /\ req[r].pc = "remove"
    /\ list' = Remaining(Unprotected(r, L))
    /\ req' = [req EXCEPT ![r].pc = AfterRemoval(r)]
    /\ UNCHANGED <<flight, store, ledger, leases, past, limits>>

ReadsTrash(r) ==
    /\ req[r].pc = "bin"
    /\ LET there == {b \in trash : b.id = req[r].gid}
       IN  req' = [req EXCEPT ![r] =
              CASE req[r].kind = "delete" -> [@ EXCEPT !.bin = trash, !.pc = "save"]
                [] req[r].kind # "delete" /\ there = {} -> Ending(r, "ok")
                [] OTHER -> [@ EXCEPT !.bin = trash,
                                      !.ips = EntryOf(trash, req[r].gid).group.ips,
                                      !.pc = IF req[r].kind = "restore" THEN "read" ELSE "protect"]]
    /\ UNCHANGED <<cloud, store, ledger, leases, past, bounds>>

Deleted(r) == {[id |-> r, uuid |-> req[r].uuid, group |-> Find(req[r].copy, req[r].gid)]}

(* saveTrash and purgeTrash compare the revision: the trash must still be the *)
(* one that was read.                                                        *)
SavesTrash(r) ==
    /\ req[r].pc = "save"
    /\ IF trash = req[r].bin
       THEN trash' = trash \cup Deleted(r) /\ req' = [req EXCEPT ![r].pc = "put"]
       ELSE trash' = trash /\ req' = [req EXCEPT ![r] = Ending(r, "failed")]
    /\ UNCHANGED <<cloud, records, ledger, leases, past, bounds>>

EmptiesTrash(r) ==
    /\ req[r].pc = "empty"
    /\ trash' = IF trash = req[r].bin THEN {b \in trash : b.id # req[r].gid} ELSE trash
    /\ req' = [req EXCEPT ![r] = Ending(r, IF trash = req[r].bin THEN "ok" ELSE "failed")]
    /\ UNCHANGED <<cloud, records, ledger, leases, past, bounds>>

-----------------------------------------------------------------------------
(* The scheduled cleanup, after its markers. *)
Expired(kv, u, now) == {i \in DOMAIN kv[u] : IsExpired(kv[u][i], now)}

InForce(kv, u, now) == DOMAIN kv[u] \ Expired(kv, u, now)

Current(kv, u, now) == At(kv[u], InForce(kv, u, now))

Scans(r, kv) ==
    /\ req[r].pc = "scan"
    /\ LET now == req[r].now
           touched == {u \in Invites : Expired(kv, u, now) # {}}
       IN  req' = [req EXCEPT ![r].pc = "remove",
              ![r].keys = UNION {UNION {kv[u][i].ips : i \in InForce(kv, u, now)} : u \in Invites},
              ![r].ips = UNION {UNION {kv[u][i].ips : i \in Expired(kv, u, now)} : u \in Invites},
              ![r].plan = [u \in touched |-> Current(kv, u, now)]]
    /\ UNCHANGED <<cloud, store, ledger, leases, past, limits>>

PutsUpdate(r) ==
    /\ req[r].pc = "update"
    /\ \E u \in DOMAIN req[r].plan :
          /\ records' = [records EXCEPT ![u] = req[r].plan[u]]
          /\ req' = [req EXCEPT ![r].plan = Without(@, {u}),
                                ![r].pc = IF DOMAIN req[r].plan = {u} THEN "comments" ELSE @]
    /\ UNCHANGED <<cloud, trash, ledger, leases, past, bounds>>

ListsComments(r) ==
    /\ req[r].pc = "comments"
    /\ req' = [req EXCEPT ![r].pc = "survey", ![r].comments = DOMAIN ledger]
    /\ UNCHANGED <<cloud, store, ledger, leases, past, bounds>>

Surveys(r, kv) ==
    /\ req[r].pc = "survey"
    /\ req' = [req EXCEPT ![r].pc = "sweep", ![r].keys = ReferencedAtAll(kv)]
    /\ UNCHANGED <<cloud, store, ledger, leases, past, limits>>

Sweeps(r, L) ==
    /\ req[r].pc = "sweep"
    /\ list' = Remaining(Orphans(r, L))
    /\ req' = [req EXCEPT ![r] = Ending(r, "ok")]
    /\ UNCHANGED <<flight, store, ledger, leases, past, limits>>

-----------------------------------------------------------------------------
(* Trouble.  Every call can fail; a write that fails may have happened.       *)
Costs   == trouble < MaxTrouble /\ trouble' = trouble + 1 /\ UNCHANGED past
Trouble == Costs /\ UNCHANGED shown

ClaimReplyLost(r) ==
    /\ Trouble
    /\ \/ /\ req[r].pc = "claim" /\ CanClaim(r, ScopeOf(r))
          /\ leases' = [leases EXCEPT ![ScopeOf(r)] = r]
          /\ req' = [req EXCEPT ![r] = Finished(r, "failed")]
       \/ /\ req[r].pc = "upgrade" /\ CanClaim(r, All)
          /\ leases' = [leases EXCEPT ![All] = r]
          /\ req' = [req EXCEPT ![r] = Ending(r, "failed")]
    /\ UNCHANGED <<cloud, store, ledger, stray, misled>>

ReleaseFails(r) ==
    /\ Trouble
    /\ req[r].pc = "release"
    /\ \E s \in req[r].hold : req' = [req EXCEPT ![r] = WithoutLease(r, s)]
    /\ UNCHANGED <<cloud, store, ledger, leases, stray, misled>>

ReadFails(r) ==
    /\ Trouble
    /\ \/ /\ req[r].pc \in {"list", "read", "bin", "protect", "remove", "marker", "markers",
                            "scan", "comments", "survey", "sweep"}
          /\ req' = [req EXCEPT ![r] = Ending(r, "failed")]
       \/ /\ req[r].pc \in {"relist", "note"}
          /\ req' = [req EXCEPT ![r].pc = "upgrade", ![r].mark = r, ![r].found = {}]
    /\ UNCHANGED <<cloud, store, ledger, leases, stray, misled>>

(* The marker's id is not known to the caller: nothing is compensated.        *)
RegisterFails(r) ==
    /\ Trouble
    /\ req[r].pc = "register"
    /\ ledger' \in {ledger} \cup (IF LedgerHasRoom THEN {With(ledger, r, MarkerOf(r))} ELSE {})
    /\ req' = [req EXCEPT ![r] = Ending(r, "failed")]
    /\ UNCHANGED <<cloud, store, leases, stray, misled>>

CreateFails(r) ==
    /\ Trouble
    /\ req[r].pc = "create"
    /\ flight' = flight \cup {[op |-> "create", by |-> r, ips |-> req[r].todo, items |-> {}]}
    /\ req' = [req EXCEPT ![r].pc = "relist"]
    /\ UNCHANGED <<list, store, ledger, leases, stray, misled>>

PutFails(r) ==
    /\ Trouble
    /\ \/ /\ req[r].pc = "put"
          /\ records' \in {records, [records EXCEPT ![req[r].uuid] = NextGroups(r)]}
          /\ req' = [req EXCEPT ![r] = IF @.mark = r THEN [@ EXCEPT !.pc = "upgrade"]
                                       ELSE Ending(r, "failed")]
       \/ /\ req[r].pc = "update"
          /\ \E u \in DOMAIN req[r].plan :
                records' \in {records, [records EXCEPT ![u] = req[r].plan[u]]}
          /\ req' = [req EXCEPT ![r] = Ending(r, "failed")]
    /\ UNCHANGED <<cloud, trash, ledger, leases, stray, misled>>

(* A marker that could not be resolved is left to the scheduled runs.         *)
FinalizeFails(r) ==
    /\ Trouble
    /\ req[r].pc = "finalize"
    /\ req' = [req EXCEPT ![r] = IF @.kind = "restore" THEN [@ EXCEPT !.pc = "empty"]
                                 ELSE Ending(r, "ok")]
    /\ UNCHANGED <<cloud, store, ledger, leases, stray, misled>>

TrashFails(r) ==
    /\ Trouble
    /\ \/ req[r].pc = "save"  /\ trash' \in {trash, trash \cup Deleted(r)}
       \/ req[r].pc = "empty" /\ trash' \in {trash, {b \in trash : b.id # req[r].gid}}
    /\ trash = req[r].bin
    /\ req' = [req EXCEPT ![r] = Ending(r, "failed")]
    /\ UNCHANGED <<cloud, records, ledger, leases, stray, misled>>

(* A failed compensation puts its marker off; that call may fail too.         *)
CompensationFails(r) ==
    /\ Trouble
    /\ req[r].pc \in {"candidates", "references", "resolve"}
    /\ \E m \in DOMAIN req[r].batch :
          /\ req[r].pc # "candidates" => m = req[r].mark
          /\ ledger' \in {ledger, Postponed(m, "young")}
          /\ req' = [req EXCEPT ![r] = AfterMarker(r, m)]
    /\ UNCHANGED <<cloud, store, leases, stray, misled>>

DeleteCall(r, L) ==
    CASE req[r].pc = "drop"   -> Abandoned(r)
      [] req[r].pc = "remove" -> Unprotected(r, L)
      [] req[r].pc = "sweep"  -> Orphans(r, L)
      [] OTHER                -> {}

DeleteFails(r, L) ==
    /\ Trouble
    /\ DeleteCall(r, L) # {}
    /\ \/ list' = Remaining(DeleteCall(r, L)) /\ UNCHANGED flight
       \/ /\ flight' = flight \cup {[op |-> "delete", by |-> r, ips |-> {}, items |-> DeleteCall(r, L)]}
          /\ UNCHANGED list
    /\ IF req[r].pc = "drop"
       THEN /\ ledger' \in {ledger, Postponed(req[r].mark, "young")}
            /\ req' = [req EXCEPT ![r] = AfterMarker(r, req[r].mark)]
       ELSE /\ req' = [req EXCEPT ![r] = Ending(r, "failed")]
            /\ UNCHANGED ledger
    /\ UNCHANGED <<store, leases, stray>>

(* The Worker is stopped in the middle of a request.                          *)
CutOff(r) ==
    /\ Trouble
    /\ req[r].pc \notin {"idle", "done"}
    /\ req' = [req EXCEPT ![r] = Finished(r, "failed")]
    /\ UNCHANGED <<cloud, store, ledger, leases, stray, misled>>

(* What Cloudflare was asked takes effect although the call failed: a create  *)
(* before the re-list is what the re-list is for, anything later is stray.    *)
Lands(o) ==
    /\ flight' = flight \ {o}
    /\ list' = IF o.op = "create" THEN Created(o.by, o.ips) ELSE Remaining(o.items)
    /\ stray' = (stray \/ o.op = "delete" \/ req[o.by].pc # "relist")
    /\ UNCHANGED <<store, ledger, leases, past, req, shown, trouble, misled>>

(* What is written from now on may not be seen everywhere for a while: reads  *)
(* may show list and records as they are now, until the copy is renewed.  A   *)
(* copy made when nothing is about to change would be the same later.        *)
Lingers ==
    /\ Costs
    /\ \/ flight # {}
       \/ \E r \in Actors : req[r].pc \in {"create", "put", "update", "drop", "remove", "sweep"}
    /\ shown' = {[list |-> list, records |-> records]}
    /\ UNCHANGED <<cloud, store, ledger, leases, req, stray, misled>>

CatchesUp ==
    /\ shown # {}
    /\ shown' = {}
    /\ UNCHANGED <<cloud, store, ledger, leases, past, req, trouble, stray, misled>>

-----------------------------------------------------------------------------
(* Time. *)
LeaseExpires(s) ==
    /\ leases[s] # Nobody
    /\ IF s \in req[leases[s]].hold
       THEN Trouble /\ stray' = TRUE /\ UNCHANGED misled
       ELSE UNCHANGED <<past, bounds>>
    /\ leases' = [leases EXCEPT ![s] = Nobody]
    /\ UNCHANGED <<cloud, store, ledger, req>>

MarkerIsDue(m) ==
    /\ ledger[m].status # "due"
    /\ ledger' = [ledger EXCEPT ![m].status = "due"]
    /\ UNCHANGED <<cloud, store, leases, past, req, bounds>>

DeadlinePasses(d) ==
    /\ d \notin past
    /\ \E u \in Invites : \E i \in DOMAIN records[u] : records[u][i].until = d
    /\ past' = past \cup {d}
    /\ UNCHANGED <<cloud, store, ledger, leases, req, bounds>>

-----------------------------------------------------------------------------
(* Each invite may have one group from earlier; its network is on the list,   *)
(* put there by the Worker or by the operator.                               *)
Init ==
    /\ \E n \in Networks : \E holders \in SUBSET Invites : \E comment \in {Earlier, Foreign} :
          /\ records = [u \in Invites |-> IF u \in holders
                                          THEN <<[id |-> u, ips |-> {n}, until |-> u]>> ELSE <<>>]
          /\ list = IF holders = {} THEN <<>> ELSE With(<<>>, n, [id |-> comment, comment |-> comment])
    /\ flight = {}
    /\ trash = {}
    /\ ledger = <<>>
    /\ leases = [s \in Scopes |-> Nobody]
    /\ past = {}
    /\ req = [r \in Actors |-> Blank]
    /\ shown = {}
    /\ trouble = 0
    /\ stray = FALSE
    /\ misled = {}

(* The steps that read list or records: L and kv are what the reads show.     *)
Looks(r, L, kv) ==
    \/ ListsItems(r, L) \/ Relists(r, L) \/ FindsCandidates(r, L)
    \/ RemovesNetworks(r, L) \/ Sweeps(r, L)
    \/ ReadsRecords(r, kv) \/ ReadsReferences(r, kv) \/ ReadsProtected(r, kv)
    \/ Scans(r, kv) \/ Surveys(r, kv)

(* A read is answered from the old copy: the list whole, the records of each  *)
(* invite by themselves.                                                     *)
ReadsOld(r) ==
    /\ \E old \in shown : \E L \in {list, old.list}, S \in SUBSET Invites :
          LET kv == [u \in Invites |-> IF u \in S THEN old.records[u] ELSE records[u]]
          IN  /\ L # list \/ kv # records
              /\ Looks(r, L, kv) \/ DeleteFails(r, L)
    /\ misled' = misled \cup {r}

Steps(r) ==
    \/ Claims(r) \/ Releases(r)
    \/ Registers(r) \/ Creates(r) \/ NotesItems(r) \/ PutsRecords(r) \/ Finalizes(r)
    \/ Upgrades(r) \/ ReadsMarker(r) \/ ClaimsMarkers(r) \/ DropsAbandoned(r) \/ Resolves(r)
    \/ ReadsTrash(r) \/ SavesTrash(r) \/ EmptiesTrash(r) \/ PutsUpdate(r) \/ ListsComments(r)
    \/ Looks(r, list, records) /\ UNCHANGED misled

Fails(r) ==
    \/ ClaimReplyLost(r) \/ ReleaseFails(r) \/ ReadFails(r) \/ RegisterFails(r) \/ CreateFails(r)
    \/ PutFails(r) \/ FinalizeFails(r) \/ TrashFails(r) \/ CompensationFails(r)
    \/ DeleteFails(r, list) /\ UNCHANGED misled
    \/ CutOff(r)

Next ==
    \/ \E r \in Actors : Starts(r) \/ CronStarts(r) \/ Steps(r) \/ Fails(r) \/ ReadsOld(r)
    \/ Lingers \/ CatchesUp
    \/ \E o \in flight : Lands(o)
    \/ \E s \in Scopes : LeaseExpires(s)
    \/ \E m \in DOMAIN ledger : MarkerIsDue(m)
    \/ \E d \in Names : DeadlinePasses(d)

(* A request that runs goes on, the schedule starts the next run, leases and  *)
(* markers fall due, and old copies give way to what was written.  Nobody is *)
(* obliged to make a request.                                                *)
Fairness ==
    /\ \A r \in Actors : WF_vars(Steps(r))
    /\ \A r \in Crons : WF_vars(CronStarts(r))
    /\ \A s \in Scopes : WF_vars(LeaseExpires(s))
    /\ WF_vars(CatchesUp)
    /\ \A m \in Requests : WF_vars(m \in DOMAIN ledger /\ MarkerIsDue(m))

Spec == Init /\ [][Next]_vars /\ Fairness

-----------------------------------------------------------------------------
Over(group, now) == group.until \in now

(* The leases exclude each other: two requests never work on one invite, and  *)
(* nobody works on any while another holds the maintenance lease, not even a  *)
(* request that has taken it over its own invite's lease.                    *)
LeasesExclude ==
    ~stray => \A r, q \in Actors : r # q =>
        /\ req[r].hold \cap req[q].hold = {}
        /\ All \in req[r].hold => req[q].hold = {}

(* Whoever is about to write an invite's records has read them as they are    *)
(* now, however many calls ago and whatever others read, unless one of its   *)
(* own reads was answered from an old copy.                                  *)
WritersCopyIsCurrent ==
    ~stray => \A r \in Actors \ misled :
        /\ req[r].pc = "put" => req[r].copy = records[req[r].uuid]
        /\ req[r].pc = "update" =>
              \A u \in DOMAIN req[r].plan :
                 req[r].plan[u] = At(records[u],
                                     {i \in DOMAIN records[u] : ~Over(records[u][i], req[r].now)})

(* A network leaves the list only when nobody needs it: every group in force  *)
(* that names it, of whatever invite, is the one being deleted.  Only who    *)
(* was shown something old itself may take it off all the same.              *)
RemovalSparesOthers ==
    [][~stray' => \A n \in DOMAIN list \ DOMAIN list', u \in Invites :
          \A i \in DOMAIN records[u] :
             LET g == records[u][i]
             IN  (n \in g.ips /\ ~Over(g, past)) =>
                    \E r \in Actors : \/ req'[r] # req[r] /\ r \in misled'
                                      \/ /\ req[r].kind = "delete" /\ req[r].pc = "remove"
                                         /\ req[r].uuid = u /\ req[r].gid = g.id]_vars

(* A visitor or admin who is told that networks were added has them on the    *)
(* list and in the invite's records.                                         *)
GrantIsListed ==
    [][~stray => \A r \in Requests \ misled :
          (req[r].kind = "add" /\ req[r].outcome = "none" /\ req'[r].outcome = "ok")
             => req[r].ips \subseteq DOMAIN list' \cap IpsOf(records'[req[r].uuid])]_vars

(* A marker leaves the ledger only when every item under its comment is named *)
(* by some invite's records: nothing it created is forgotten.                *)
SettledIsRecorded ==
    [][~stray => \A r \in Actors \ misled : req'[r] # req[r] =>
          \A m \in DOMAIN ledger \ DOMAIN ledger', n \in DOMAIN list :
             list[n].comment = m => n \in ReferencedAtAll(records)]_vars

(* The group a deletion is about leaves the records only once the trash has   *)
(* it.                                                                       *)
DeletedGroupInTrash ==
    [][~stray => \A r \in Requests \ misled :
          (req[r].kind = "delete" /\ records' # records /\ req'[r] # req[r])
             => Deleted(r) \subseteq trash]_vars

(* What the records name stays on the list, and what is told, settled or      *)
(* deleted is kept by another part of the store, whoever else was shown      *)
(* something old.                                                            *)
NothingForgotten == RemovalSparesOthers /\ GrantIsListed /\ SettledIsRecorded /\ DeletedGroupInTrash

(* Whatever fails, lands late, is cut off or goes by an old copy, a managed   *)
(* item that no record names leaves the list or is recorded in the end.      *)
OrphansEnd ==
    \A n \in Networks :
        (n \in DOMAIN list /\ list[n].comment # Foreign /\ n \notin ReferencedAtAll(records))
            ~> (n \notin DOMAIN list \/ n \in ReferencedAtAll(records))

(* Every marker is settled in the end, and every expired group removed.       *)
LedgerDrains ==
    \A m \in Requests : (m \in DOMAIN ledger) ~> (m \notin DOMAIN ledger)

ExpiredGroupsEnd ==
    \A u \in Invites :
        (\E i \in DOMAIN records[u] : Over(records[u][i], past))
            ~> (\A i \in DOMAIN records[u] : ~Over(records[u][i], past))

(* What troubles leave behind is cleaned up.                                 *)
TroubleIsCleanedUp == OrphansEnd /\ LedgerDrains /\ ExpiredGroupsEnd
=============================================================================
