# sub2api-gate: TLA+ verification project

This directory models the parts of `sub2api-gate` whose correctness depends on
the order of things: requests that overlap, calls whose outcome is unknown,
alarms and leases, and operators' tools that are killed halfway.  Section 1 is
the inventory of the system, section 2 describes the modules and what is checked
on them, section 3 the proofs, section 4 what the checks found, section 5 what
is left out, and section 6 the plan.

## 1. The system

`sub2api-gate` puts an IP allowlist gate in front of a Sub2API deployment.
A Cloudflare Worker (`worker-allow-ip/`) signs visitors in with an access key,
puts their networks on a Cloudflare IP list and shows them their API keys; an
admin panel in the same Worker manages the invites.  A small Python service on
the origin (`sub2api-sync/`) provisions users and API keys in Sub2API's
PostgreSQL database on the Worker's signed requests.  `deploy/`, `migrations/`
and `nginx/` hold the operator tools that move a legacy installation to this one.

### 1.1 Components

| Component | Source | State it keeps | Operations | Correct when | Model |
|---|---|---|---|---|---|
| AuthState object | `worker-allow-ip/src/auth-state.js`, `worker-entry.js` | invites, trash, public sessions, two revisions, record leases, Cloudflare mutation ledger, state and alarm of the legacy cleanup (one SQLite Durable Object) | one atomic transaction per RPC | no lost update, no session outlives its credential, leases exclude each other, the cleanup completes only after enough clean inspections | `AuthState`, `AllowList`, `LegacyCleanup` |
| AuthRateLimiter object | `auth-rate-limiter.js` | one attempt bucket and one alarm per client | consume, reset, alarm | attempts are bounded per window, buckets are collected | `AuthRateLimiter` |
| Public gate | `index.js` | nothing of its own; cookies, legacy KV sessions | sign-in, session look-up, logout, authorization of networks | a visitor gets in only with the current credential | `AuthState`, `AllowList` |
| Admin requests | `admin.js` | copies of what they read | create, edit, rotate, reset, refresh, delete, restore, purge of invites and IP groups | object, KV records, Cloudflare list and Sub2API account agree when nobody works | `AuthState`, `AllowList`, `InviteProvisioning` |
| IP records and Cloudflare list | `admin.js`, `cloudflare-mutation.js`, `cloudflare-client.js` | KV records per invite, list items with comments | read, put; create, delete, find | a network is listed exactly while somebody needs it | `AllowList` |
| Scheduled run | `index.js`, `admin.js` | nothing | settle markers, expire groups, sweep orphans, refresh keys | what failed requests leave behind is cleaned up | `AllowList`, `AuthState`, `InviteProvisioning` |
| Sync service, account transactions | `sub2api-sync/sub2api_sync.py` | users, owners, API keys, subscriptions of Sub2API | provision, status, deprovision, purge | one account per invite, found by identity | `InviteProvisioning` |
| Sync service, HTTP front | `sub2api_sync.py` | nonces in Redis, 16 request slots, one psql process per action | verify, claim, run the action, sign in, answer | a request is served once, what its action answers stays true, the slots are given back | `SyncService` |
| Sync service, the rest | `sub2api_sync.py`, `usage_metadata.py` | catalog cache | catalog, usage, diagnostics, key probe, health | reads only | not modelled |
| Administrator login | `admin.js`, `auth-state.js` | admin sessions, last TOTP counter | login, logout, reauthentication | a code is used once | planned (section 6) |
| Maintenance cutover | `deploy/maintenance-cutover.py` | recovery record, pinned identities; containers, Nginx upstream, data directories | apply, rollback, recover | the host is as before or migrated, or a record says how to get back | `MaintenanceCutover` |
| Sync canary | `deploy/sync-canary.py`, `sub2api-sync-loopback-relay` | relays, containers, image and its note | prepare, reattest, start, promote, roll back | a report is true; a reboot in the middle finds a relay to start | `SyncCanary` |
| Traffic canary | `deploy/traffic-canary.py` | the target stack | start, take down, check | the application starts on proved data only | `TrafficCanary` |
| Retirement of the legacy data | `deploy/retire-legacy-data.py` | identities and progress in a record in `/run` | record, retire, resume | only what has the recorded identity goes; the record is true | `LegacyRetirement` |
| Hardening of Redis, rpcbind, the sync service | `deploy/harden-*.py` | saved previous state | apply, restore, undo | the previous state can be restored; a report is true | `HardenRedis`, `HardenRpcbind`, `HardenSyncService` |
| Nginx direct /v1 | `deploy/install-nginx-direct-v1.py` | four files, in memory | switch, restore | Nginx never runs a half of the files | `NginxDirect` |
| Authenticated origin pull | `deploy/configure-cloudflare-aop.py`, `install-nginx-aop.sh` | control record, certificates and association at Cloudflare, installer's state | upload, associate; optional, probe, required | the record accounts for what is at Cloudflare; required only where it passes | `CloudflareAop` |
| Worker publication and recovery | `deploy/local-worker-publish.py`, `recover-worker-admin.py` | deployed version, secrets | publish, rotate, verify | the published Worker is the reviewed one | planned |
| Data streams | `deploy/locked-postgres-stream.py`, `migrate-*.py` | table locks, target rows | stream, copy | the copy is of one instant | one step of `MaintenanceCutover` |
| Credential encryption, URL checks, pages, SQL roles, static configuration, demo | the rest | | | | not modelled (section 5) |

### 1.2 How they interact

* Every request of the Worker is a sequence of awaited calls: RPCs to the two
  Durable Objects, reads and writes of KV, calls of the Cloudflare API and of the
  sync service.  Each RPC to an object is one transaction; between two of them any
  other request may run.  Overlap is controlled by compare and swap on two
  revisions (invites, trash), by record leases (per invite, and one for all), and,
  on the Cloudflare list, by a ledger of mutation markers whose name is written in
  the comment of each list item.
* The sync service runs each action in one PostgreSQL transaction under a row lock
  of the user.  The Worker gives a call up after a time limit, and the service may
  finish it all the same.
* Alarms are delivered at least once, KV writes may become visible late, the cron
  trigger starts runs that overlap requests.
* The cutover controller runs commands on one host, under a lock file, and writes a
  recovery record before effects it could not find again.
* The operator's tools work on the same host, one at a time (lock files, and the
  operator).  They meet in what they leave: the retirement reads the state the
  traffic canary and the switch of the upstream left, the installer of the origin
  pull reads the CA that the upload wrote.

### 1.3 What is hard

Stale copies used after an await; a compare and swap that is lost after an outside
effect; a call with unknown outcome that is retried, compensated or lands later;
leases that run out under their holder; alarms that come late or twice; a kill
between an effect and its record; failures inside a rollback.  `PROJECT.json`,
under `hazards`, names each of them at its line with the properties about it; a
hazard that no property covers, or that one covers only in part, has a note.

## 2. Modules, runs and bounds

Each component has a module.  `MC` modules instantiate them for the runs below;
the operator's tools are instantiated by `OperatorTools`.  All bounds are CONSTANTS
that occur in guards; every run is exhaustive within them.

| Run | Module, cfg | Bounds | States | Shows |
|---|---|---|---|---|
| auth_state_invites | `MCAuthState`, `MCAuthStateInvites.cfg` | 2 invites, 2 overlapping admin requests, 2 trash ids, 3 keys, requests start below revision 3 | 865,000 | no write from a stale copy gets through; credentials never move backwards; invites and trash move together |
| auth_state_sessions | `MCAuthStateSessions.cfg` | 1 invite, 2 browsers (one with a legacy KV session), 1 admin request, clock to 2 | 427,000 | sessions never outlive what they stand on |
| auth_state_logout_final | `MCAuthStateLogoutIsFinal.cfg` | as above | | expected violation (section 4) |
| rate_limiter | `MCAuthRateLimiter` | limit 2, window 2, three windows, 2 requests | 20,000 | attempts are bounded; buckets are collected |
| legacy_cleanup | `MCLegacyCleanup` | 2 keys, 2 explicit requests, 2 rechecks, one failure or late write, one restart | 89,000 | the cleanup completes only when clean, and does complete |
| allow_list_trouble | `MCAllowList`, `MCAllowListSafe.cfg` | 2 invites, 1 network, 2 requests, the scheduled run, 1 failure or old copy, 1 reader of it; extensions without either | 1,093,000 | leases, records, list and trash stay consistent under any one failure, and for everybody but the reader of an old copy |
| allow_list_networks | `MCAllowListTwo.cfg` | 2 invites, 2 networks, 1 group and 1 marker of room, no failure | 355,000 | nothing needed leaves the list |
| allow_list_live | `MCAllowListLive.cfg` | 1 invite, 1 network, 1 request, 2 failures or old copies | 280,000 | what a failed request leaves is cleaned up |
| invite_provisioning | `MCInviteProvisioning` | 1 invite, 3 requests, 2 at a time, 1 failure, 1 save for others, 1 outside change | 2,174,000 | invite and account agree when nobody works |
| sync_service | `MCSyncService` | 2 signed requests (one a sign-in), 2 slots, window of 1 second to either side, clock to 3, 1 trouble | 315,000 | a request acts once, its answer stays true, its slot comes back |
| operator_tools | `MCOperatorTools` | each of nine tools, 3 troubles, 2 cutovers, 2 builds, 2 commits, 2 uploads, 1 directory made anew | 736,000 | reports and records are true, something serves, there is a way back |
| aop_certificate | `MCCloudflareAop` | 1 upload, 1 trouble | | expected violation (section 4) |

A property of a run may be a conjunction of the ones its module states one by one
(`InvitesGoForward`, `HonouredIsCurrent`, `CompletionIsEarned`, `NothingForgotten`,
`TroubleIsCleanedUp`, `QuietIsAgreed`): the parts are named in the sections below.

### 2.1 AuthState (`AuthState.tla`)

State: the invite rows with credential version, key and legacy deadline; the trash;
the two revisions; the public sessions of the object and the `uuid-session:` keys
that a legacy deployment left in KV; and what each admin request, sign-in, look-up
and logout holds between its calls.  Each RPC of the object is one action or part
of one (`InvitesAt`, `TrashAt` are the compare and swaps; `ReplaceInvites` the
collection write with its revocation of sessions); each request is a chain of
actions with a `pc`.  An admin request with an unsaved copy is `admin[a]`, with the
revision it was read at.

Checked: `NoLostInviteUpdate`, `CredentialMovesForward`, `RemovedInviteIsKept`
(together `InvitesGoForward`) over invites; `StoredSessionsSupported`, `HonouredKeyIsCurrent`, `NativeLogoutIsFinal`,
`SessionEndsForOwnCause` over sessions (the second and third together
`HonouredIsCurrent`).

Two invites are enough to see one overwritten by a request about the other; two
concurrent requests are enough for a lost update, as a compare and swap compares
two parties; two tokens keep a legacy and a native session side by side.
`MaxRevision` bounds only at which revision a request may start, so each run that
has started also ends.  No fairness: the module makes no liveness claim.

### 2.2 Rate limiter (`AuthRateLimiter.tla`)

`consume`, `reset` and `alarm` of the object on one bucket; the alarm may be
delivered late, again, or when its bucket has been replaced; `deleteAlarm` may fail
after the bucket is gone.  `SlidingWindowBound` says what a fixed window really
promises: at most 2 * limit - 1 attempts in any stretch as long as the window.
Fairness (`FairSpec`): a due alarm is delivered and its handler runs, which the
platform guarantees; nothing is assumed of clients or of time.

### 2.3 Legacy cleanup (`LegacyCleanup.tla`)

The keys of the legacy deployment are deleted from KV by explicit requests under a
lease, and verified by the alarm handler with several inspections that must be
spaced apart.  Time is relative (time left of lease and alarm), so the state space
is finite without a clock bound.  KV is eventually consistent: `LateWrite` lets a
key appear again.  A restart of the object drops what runs in it and makes the
runtime deliver an interrupted alarm again; `cut` remembers a restart between the
reset of the state and the `setAlarm` after it, from which only another request
helps.  Fairness: time passes, alarms and handlers run, requests go on, storage
calls return, as long as nobody asks again (`Open`).

### 2.4 IP allowlist (`AllowList.tla`)

State: the Cloudflare list (network -> item id and comment), creates and deletes in
flight, KV records and trash per invite, the marker ledger, the record leases, and
the requests with the copies they hold.  Actions are the awaited steps of
authorization, manual groups, expiration changes, deletion, restore and purge of
groups, and of the scheduled run: settle markers, expire groups, sweep orphans.
Any call may fail, lose its reply or land late, a request may be cut off, a lease
may run out under its holder, and a read may show an old copy.

The records are in Workers KV (`admin.js:533`, `auth-state.js:2000`), which reaches
other locations late, and a list read may not show a fresh write either, as the
comment at `admin.js:2170-2172` says of its own re-list.  `shown` is the copy that
reads may still show: `Lingers` takes it while a write is about to happen or in
flight, `CatchesUp` gives it up, and in between `ReadsOld` answers any of the ten
reading steps (`Looks`) with the old list or the new one, and the old or the new
records of each invite by itself.  Whoever is answered so is `misled` from then on.
Ledger, leases, trash and the stored invites are the object's and are read as they
are.

Checked: `LeasesExclude`, `WritersCopyIsCurrent`, `GrantIsListed`,
`SettledIsRecorded`, `DeletedGroupInTrash`, `RemovalSparesOthers`, and the liveness
properties `OrphansEnd`, `LedgerDrains`, `ExpiredGroupsEnd`.

The code has no defence against an old read.  A holder of the lease writes back the
record it was shown; a removal takes a network away that a record names which it did
not see (`getReferencedIpKeys`, lines 2597-2616); an addition that finds its network
in an old list reports success without it.  TLC shows each of the three when the
exemption is taken out.  The safety properties therefore claim nothing of what
a misled actor writes, removes or reports, and claim the rest of everybody else in
the same behaviour: a record
that one actor wrote from an old copy is the record the others go by.
`LeasesExclude` needs no exemption, for no old read moves a lease, and the three
liveness properties have none: what an old read left behind is cleaned up too.

The history variable `stray` is set when a call takes effect outside its lease (it
lands after it was given up, or its lease ran out).  The code has no fencing token
on KV and the list, so the safety properties do not hold after that, and say so;
the liveness properties hold all the same.  Abstractions: reads under one lease are
one step (nobody else may write in between), there is one old copy at a time, the reads of one step see one
list and one set of records, an item id stands for its value, a scheduled run settles all due markers (the code
takes 25 at a time), the set of invites does not change in this module.  A group that
is restored can get the id of a group that took it over in the meantime; a delete by
id (`admin.js:2025`) then drops both records and puts the first in the trash.  That
takes five requests, more than the runs have.
Fairness: each request or run goes on, the cron trigger keeps firing, leases expire,
markers become due, and old copies are given up (`CatchesUp`: KV and lists converge).
The safety run is cut (`FollowedApart`) at a stray state, where nothing is claimed any
more, at a second misled actor, and where an extension and a trouble come together: an
extension reads and writes the records as an addition does.  The theorems of section
3.4 have none of these bounds.

### 2.5 Maintenance cutover (`MaintenanceCutover.tla`, run by `OperatorTools`)

State: legacy services, target containers with identity and readiness, target data,
the one-time ACL, the upstream in the Nginx file and the one Nginx serves, the
recovery record, and the controller with its progress flags and pins.  `Steps` and
`Undoing` list the forward and the rollback steps in the order of `execute` and
`rollback`.  Each step may succeed, fail, fail halfway, be interrupted, be
killed, or meet its deadline; services and containers may fall over by themselves.

Checked: `NoRecordNoTrace` (a state invariant, so it holds at every instant a kill
could leave), `SparesServing` and `CopiesAlone` (together `MovesSafely`), `RecoveryEnds`,
`ServiceReturns`.  Two cutovers show what a first, failed one leaves for a second;
three failures allow one forward, one in the rollback and one in the recovery.
Fairness: the controller works while it is alive, and the operator runs `--recover`
while a record exists (`--apply` refuses to start then).

Left out of the properties, each by name: `bare` (the record was unlinked and the
step after it failed, so that a rollback runs without a record), the ACL file that
stays when its step fails before its flag is set, and `Strange` (a container that
was created and never pinned, which stops every recovery until the operator removes
it by hand).  `Killed` takes the effect of the command that runs as there or not: the
commands run in sessions of their own (`maintenance-cutover.py:395`), so after a SIGKILL
of the controller one may go on beside the next run, which is not modelled.

### 2.6 Invite provisioning (`InviteProvisioning.tla`)

One invite and its account.  A request begins with its lease and its reads, calls
the sync service (`Served` is the effect of one transaction, `Resolves` whether it
finds its user), and saves with compare and swap; `stale[a]` is the set of
collections written since it read them, which is what comparing revisions tells.
When the save does not succeed, `create`, `update`, `reset`, `restore` and `delete`
make the account follow the stored invite (`ReadsAgain`, `Reapplies`, and a second
save, three attempts) or undo it (`Undoes`).  A call may time out and still land
(`late`), a save may report an error whether or not it was done, a request may be
cut off.  A password is a number, and its hash's fingerprint is that number.

Checked: `QuietAgreement` and `QuietPassword` when nobody works (together `QuietIsAgreed`); `PurgeSparesLive`
as an action property.  `broken` collects what no compensation in the code covers:
an unanswered call, a cut-off request, a reconciliation that gave up, an error of a
save that has no handler (`delete`), an undo that hits an account another request
has just provisioned (`Crosses`); the first two properties are about executions
without it.  `reused` marks the one route by which a purge can delete the account of
a stored invite (section 4).  Three requests, two at a time, cover each pair of
kinds after each first request; one save for another invite makes both of two
requests lose.  Abstractions: slots have no identity, so a request takes any
free one; the invite's name does not change; leases do not run out here.  The list
and record side of deleting, restoring and purging a whole invite is in neither
module yet (section 6); `AllowList` has it for groups.  No liveness is claimed: each
request is a bounded sequence of calls.

### 2.7 Sync service (`SyncService.tla`)

State: seconds, the timestamp each request was signed with, the permits of the
semaphore, each thread with the request it serves and when it looked at the clock,
the nonces in Redis, and for each request how often its action began, whether a
COMMIT is with the database, how often it was committed, and the answers that bind
(`told`).  One action per call of the code: `Connects` (`get_request`,
`process_request`; without a permit the socket is closed), `Reads` (signature and
window), `Claims` (`SET NX EX` in Redis, whose reply may be lost), `Works` (the
statements of the transaction, with their failures), `Commits` and `Decides` (the
process is ended at the deadline, the database decides all the same), `SignsIn`,
`Responds` (the caller may be gone), `Restarts`.

Checked: `ActsOnce` (a signed request, delivered any number of times and as late as
anyone likes, begins its action once), `AnswerIsTrue` (what the action answers:
`done` means committed, and not to be tried again means that it never will be, also
later), `SlotsAreHeld`, `PermitsReturn`.  The first three are proved as well
(section 3).

`AnswerIsTrue` is about the answers that come after the nonce was claimed.  What
`do_POST` refuses before that (lines 1839-1862, the body that is shorter than its
announced length at 1882, a signature or nonce that is not accepted at 1906) is
marked `retryable: false` too, and there the mark says nothing about the request:
after `incomplete_body` the same signed request, delivered whole within the window,
still acts, and after `unauthorized` an earlier delivery may have acted.  `Reads`
and `Claims` give these answers, `told` does not keep them (`Binding`), and no
property relies on them.  The Worker's own calls are signed anew on every try.

`ActsOnce` needs `WindowAssumption`: the lead of the signer's clock and the pause
between the look at the clock and the claim together fit into the window.  A
signature is accepted from 300 seconds before its timestamp to 300 seconds after it,
and its nonce lives 601 seconds from the claim, so a signer that is ahead by the whole
window leaves no room for a claim that comes a second after the look: that nonce is
gone in the last second in which the signature is accepted.  The run has a window of 1
second, a pause of 1 and no lead, which is that boundary from the other side.
Fairness: each thread goes on (every wait of the code has a limit: four seconds on
the socket, the action's deadline after that) and the database decides a COMMIT.
Restarts and lost calls are bounded by `MaxTrouble`.  A thread that does not start
(line 1772) gives its permit back in the same call: such a call changes nothing and is
not an action.  What an action does to the
account is `InviteProvisioning`.

### 2.8 The operator's tools (`OperatorTools.tla`)

The tools share a form: a sequence of commands, each of which may fail with or
without its effect, a second sequence that undoes them, kills and reboots in the
middle, a host that others change, and another run after it.  Each tool's module has
its program as a sequence of steps in the code's order, interpreted one at a time
(`run`), and the host as its variables.  `OperatorTools` composes them: a behaviour is
the life of one tool (`tool`), whose INSTANCE says which of the shared variables s1 to
s12 hold what.  The tools do not run at the same time on one host, so nothing is lost
by that; where one reads what another left (`TrafficCanary` inside
`LegacyRetirement`, the upload and the installer inside `CloudflareAop`) the module
interleaves them.  Three troubles allow one on the way forward, one on the way back and
one in the run after it.  Fairness is stated for the cutover alone (section 2.5); the
other tools promise nothing that must happen.  In `HardenRpcbind`, `disabled` stands for
`disabled-runtime` too and `static` for `indirect`: the code treats them alike but for
the option of one command.

| Module | Host | Properties in `OperatorTools` |
|---|---|---|
| `HardenRedis` | Compose and environment files, ACL, containers, recovery files | `HardeningReportsAreTrue`, `GoesBack` |
| `HardenRpcbind` | the two units with enabled and active, record in `/run`, socket activation | `HardeningReportsAreTrue`, `GoesBack` |
| `HardenSyncService` | drop-in on disk, loaded by systemd, in force in the process | `HardeningReportsAreTrue` |
| `NginxDirect` | four files on disk and as loaded | `NginxIsWhole` |
| `CloudflareAop` | certificates and association at Cloudflare, control record, CA, stages of Nginx | `AopRecordIsTrue`, `NothingOverwritten`, `RequiredIsPassable` |
| `TrafficCanary`, `LegacyRetirement` | containers of the two stacks, data gates, directories, record in `/run`, upstream | `AppStartsOnProvedData`, `OnlyRecordedRemoved`, `ProgressIsTrue` |
| `SyncCanary` | relays, containers, image tag and its note, commits | `CanaryReportIsTrue`, `RebootServes`, `PromotedWasProved` |
| `MaintenanceCutover` | section 2.5 | `NoRecordNoTrace`, `MovesSafely`, `RecoveryEnds`, `ServiceReturns` |

`ReversibleChange` is the abstract specification of a change with a kept way back:
how the host was is noted first, and the note is given up only where the host is as it
was or as it shall be.  `GoesBack` checks that `HardenRedis` and `HardenRpcbind`
implement it, with the refinement mapping `Where` (the host compared with the two
configurations) and `HasNote` (all recovery files, or a record of the units as they
were).  The other tools keep no record of the way back on disk and promise less:
`HardenSyncService` and `NginxDirect` restore from memory, so a kill leaves the host
between; their properties are about what a run that ended has said.

What the properties leave out, by name:

* a reload of Nginx by another program between two writes of `NginxDirect` loads a
  half (`LoadsWhole` is about the tool's own reloads);
* a host that was changed under a tool after its last look (`busyPort`, a service that
  is down by itself) says nothing about the report;
* `passed`: `sync-canary.py` goes on after a stop that failed, and says nonetheless that
  "temporary services were stopped" (lines 1712-1724), which is then false by the code's
  own doing.  `CanaryReportIsTrue` leaves out every run that passed over a failed
  command, and says nothing of a start that ended well either: no claim outlives it
  until the promotion, which looks again;
* `OnlyRecordedRemoved` claims what the code can tell.  `delete_exact_directory`
  compares the identity on a descriptor, closes it and then removes by name
  (`retire-legacy-data.py:960-974`): `Checks`, `Empties` and `Deletes` are three steps,
  and what is put in the place of the directory between them is removed in its stead
  (or, if it is not empty when the name is to go, refused).  The identity is device,
  inode, owner and mode (256-264), and a directory made anew may get all of them
  (`Remakes`).  `MayGo` names the two cases.  What remains is the long window: what was
  made, with another identity, while the prompt waited or before it, stays;
* owner and mode of the source directory, which `harden-legacy-redis.py:1075-1081`
  changes (`own`) and no rollback restores, are no part of `host`;
* a reboot empties `/run`, so the history `prior` of `HardenRpcbind` starts anew with
  it: a reboot in the middle of a restore leaves the units that are enabled on disk,
  and "as before" speaks of those from then on;
* `OthersAssociate` does not act between the GET and the PUT of an association: the
  API has no conditional write, and the tool cannot exclude it;
* answers that break off are left out of `operator_tools` (`Replies`) and are the
  subject of `aop_certificate`.

## 3. Proofs

| Theorem | Module | Says |
|---|---|---|
| `TypeCorrect` | `AuthRateLimiterProofs` | the persisted count never exceeds the limit, for every limit, window and number of requests |
| `BucketAlwaysHasAlarm` | `AuthRateLimiterProofs` | a bucket always has an alarm or a delivery in flight |
| `BurstIsBounded` | `AuthRateLimiterProofs` | any stretch as long as the window sees at most `2 * Limit - 1` granted attempts |
| `AttemptsStayCharged` | `AuthRateLimiterProofs` | only a success or the end of the window forgets attempts |
| `TypeCorrect` | `AuthStateProofs` | every row, session and request keeps its shape |
| `SessionsAlwaysSupported` | `AuthStateProofs` | no stored session outlives the invite or the credential it stands on |
| `InvitesOnlyGoForward` | `AuthStateProofs` | no write from a stale copy gets through, credentials never go back, the trash keeps what was removed |
| `HonouredAlwaysCurrent` | `AuthStateProofs` | an honoured session stands for the invite's present key, and a native logout is final |
| `SessionsEndForOwnCause` | `AuthStateProofs` | a session ends by its own logout, by time, or by a change of its own invite |
| `VerificationIsDriven` | `LegacyCleanupProofs` | a verification always has an alarm, a handler or a caller to go on with it |
| `CompletionAlwaysEarned` | `LegacyCleanupProofs` | the cleanup completes only when clean, after inspections `RecheckDelay` apart |
| `LeasesAlwaysExclude` | `AllowListProofs` | two requests never work on one invite, and none beside the holder of the maintenance lease, as long as no call had its effect outside its lease, whatever reads show |
| `StoreStaysSound` | `AllowListProofs` | the inductive invariant of the store: leases, records, list, ledger, and what each handler holds |
| `WritersAlwaysCurrent` | `AllowListProofs` | who is about to write an invite's records has them as they are, unless its own read was old |
| `RemovalAlwaysSpares` | `AllowListProofs` | nothing takes a network off the list that a group in force still names, but an actor whose own read was old |
| `NothingIsForgotten` | `AllowListProofs` | grants are listed, settled markers recorded, deleted groups in the trash, for all whose own reads were not old |
| `QuietAgrees` | `InviteProvisioningProofs` | stored invite and account agree whenever no request runs, however requests overlapped and saves failed |
| `PurgeSparesStored` | `InviteProvisioningProofs` | only a purge removes an account, and never that of a stored invite, unless the UUID was given out again |
| `OneActionPerNonce` | `SyncServiceProofs` | a signed request begins its action at most once, for every window, lead of the signer and pause that fit into it |
| `ToldTrue` | `SyncServiceProofs` | what the action of a request answered stays true |
| `PermitsAreKept` | `SyncServiceProofs` | permits left and busy threads are as many as there are threads |
| `TypeCorrect` | `SyncServiceProofs` | the types hold |
| `HardeningNeverMisreports` | `OperatorToolsProofs` | the last report of each hardening tool is true of the host, after any failures, kills and reboots |
| `ToolsGoBack` | `OperatorToolsProofs` | `HardenRedis` and `HardenRpcbind` implement `ReversibleChange` |
| `AlwaysAWayBack` | `OperatorToolsProofs` | so a host between two configurations always has the record of how it was |
| `RecordStaysTrue` | `OperatorToolsProofs` | the control record accounts for every certificate at Cloudflare, and "associated" is true |
| `RequiredStaysPassable` | `OperatorToolsProofs` | Nginx requires a certificate only while Cloudflare presents one it trusts |
| `NeverTakenOver` | `OperatorToolsProofs` | another's hostname association is never replaced |
| `ProgressStaysTrue` | `OperatorToolsProofs` | what the retirement's record calls retired and trimmed is so |
| `OthersStay` | `OperatorToolsProofs` | a directory goes only under a confirmed retirement, and only if it has the recorded identity or was made after that was checked |
| `AppAlwaysStartsProved` | `OperatorToolsProofs` | the target's application starts on proved data and an empty cache |
| `NginxStaysWhole` | `OperatorToolsProofs` | what the installer reported is on disk and loaded, and it loads no half of the new configuration |
| `PortReportStaysTrue` | `OperatorToolsProofs` | the last report of a canary, promotion, rollback or restoration is true of units, containers and port |
| `PortSurvivesReboot` | `OperatorToolsProofs` | a reboot in the middle of a start or promotion finds a relay that can serve |
| `PromotesWhatWasProved` | `OperatorToolsProofs` | the stable relay is started on the image the canary was proved with |
| `ToolsKeepShape` | `OperatorToolsProofs` | each tool is at a command of its program, on a host of its kind |
| `NoRecordMeansNoTrace` | `MaintenanceCutoverProofs` | a host without a recovery record is as before or migrated, at every instant |
| `CutoverMovesSafely` | `MaintenanceCutoverProofs` | nothing is taken down under its traffic, nothing copied beside a writer |

They hold for every value of the constants that satisfies the named assumptions:
`LimitAssumption`, `WindowAssumption`, `TimeAssumption`, `NullAssumption` of the limiter;
`PeriodAssumption`, `BoundAssumption`, `TokenAssumption`, `SetAssumption` and
`AbsenceAssumption` of `AuthState` (the values for "no invite", "no deadline", "no
session" are not an invite, a time, a session); `DelayAssumption`, `CountAssumption`,
`AlarmAssumption` of `LegacyCleanup`; `KindAssumption`, `BoundAssumption`,
`DistinctAssumption` of `AllowList` (names of requests, runs, invites and the scope `All`
are told apart); `WindowAssumption`, `NoneAssumption`, `ThreadsAssumption`,
`LoginsAssumption` of `SyncService`; `BoundAssumption` (the requests at work are finitely
many), `NoneAssumption` (no invite, row or item is the value for none) of
`InviteProvisioning`; `BoundAssumption`, `NoneAssumption` (`None` is no number and none of the tools' records) and
`ReplyAssumption` (no answer of Cloudflare breaks off while it is read: where one may,
`aop_certificate` shows the record wrong) of `OperatorTools`.  TLC evaluates each of them in the
runs.  The bounds on failures and on limits play no part in the proofs.

### 3.1 Rate limiter

`SlidingWindowBound` counts attempts over time, which no state holds.  `GrantsFit` says
of the grants so far that each lies in its bucket's window, with a rank from 1 to
`Limit` whose first opens it, and that windows do not overlap; `BucketCovers` that the
present bucket is the last of them and its count covers the ranks given out.  A stretch as long as the window meets two buckets
at most, and not the first grant of both: its grants map one to one into
`1..2*Limit-1`.

### 3.2 AuthState

`TypeOK` is not inductive: an action of an admin request writes what
the request holds, and which part of it is filled in depends on where the request
is.  The inductive invariant `Typed` therefore has three parts: `RowsTyped` (the
object), `AdminTyped` (each request, with `Holds` saying what it holds at its `pc`),
and `VisitorsTyped` (sign-ins, look-ups, KV).  There is one lemma per action, and
lemmas for the helpers (`IssueTyped`, `ReconciledTyped`, `ReplaceTyped` and others).
`SessionsAlwaysSupported` adds to it that every write of invites revokes, in the
same transaction, the sessions it no longer supports, and that a session is stored
only after a check against the current row: no assumption on what the writer read
is needed.

`InvitesGoForward` does need one.  `CopiesSound` says that a request's copy is no newer
than the object's revision and is the object's invites where the revision is the same,
and which single invite the request means to change; `KeysIssued` that keys in use were
given out before.  What an action does to the rows is then one formula for all of them
(`RowsStep`: version and key move forward together, at most one row changes).  The
session theorems rest on `RowsStep` alone: `Stands` says of every stored session, KV key
and sign-in under way that it is no newer than its invite and, where it has the invite's
version, was given for its present key; `TokensInUse` that a token is handed out once.
That a write-back ends nobody else's session is `SameHolder`: reconciliation keeps every
session whose own invite keeps its credential.

### 3.3 Legacy cleanup

`VerifyingHasDriver` and `CompletionIsEarned` need `Typed`, `ArmingIsScheduled` (a reset
that is under way has set its alarm), `NothingMissed` (a key that was there all
through an inspection is in KV and was seen, or will be) and `Spaced` (the last inspection that
counts is `RecheckDelay` before the alarm).

### 3.4 IP allowlist

`LeasesExclude` speaks of what requests believe they hold, while a claim looks at the
rows of the object.  Its inductive invariant `LeaseInv` joins the two: what a request
holds is in the rows under its name (`HoldsItsLeases`), and the holder of the
maintenance lease owns every other row there is (`OneOwner`), both only while the
state is not `stray`; `Shaped` says that a request which is about to claim knows its
invite.  Most actions only let a request keep or drop leases (`Loosens`); a granted
claim is `Takes`, whether it is the first, a take-over or one whose reply is lost.
A row that runs out under its holder makes the state stray, so it needs no argument.

`StoreInv` adds to that: the types; that the place a request is at fits its kind and the
lease it holds (`Jobs`); that markers, their networks and what requests still have to do
for them agree (`MarkersSound`); and, while the state is not stray, `ViewsCurrent`: what
each request read under its lease is what the store has.  A step disturbs the views of
its own request and of others.  `ViewsCurrent` is about `Actors \ misled`; the reads are
parameters of the steps, and for any list and records of the right kind they keep types,
places, markers and leases (`Does`, `EachDoes`, `ShowsTyped`), so that only the views of
the one who was misled are lost (`MisledBy`).  Of its own, each handler has a lemma.  Of others, it
disturbs none: `Spares` says that what a step changes is covered by a lease its request
holds, so by `LeasesExclude` by none that another holds (`OthersView`).  A create that
lands late makes the state stray, unless its invite's holder has not listed yet
(`LandsView`).  The properties of the store follow from `ViewsCurrent` and the
action at hand.  This part rests on one remark on the code: two groups can share an id
(`find` takes the first, `filter` drops both), so a record is addressed by position and
the models say which of the two a step means.

### 3.5 Sync service

`ActsOnce` is about a sum of times that no state shows.  Its inductive invariant has
the two bounds (`StampInv`: a timestamp is at most `Ahead` of the clock, and no nonce
was claimed before that; `ClaimInv`: who is about to claim looked at the clock inside
the window and at most `Pause` ago), from which `FirstClaim` follows: where a claim is
still possible the nonce is still there, or was never claimed.  `TokenInv` then says
that the action of a request is in one place at a time: not begun, at work in one
thread, sent to the database, or decided; `AnswerInv` that only a committed action
answers or goes on to the sign-in.  `PermitsAreKept` counts the busy threads with the
cardinality theorems of the library.

### 3.6 The operator's tools

A tool is a program, so its invariant is what its position says about the host; one
lemma per tool says what each command is (`RpcCommands`, `RedisCommands`, ...), one what
the commands do, and one where success, failure and a kill lead.  No bound on troubles
enters: a failure at any command, of the way back too, leads to a position whose part
of the invariant holds.

* Redis (`RedisInv`): on the way forward the host and the recovery files are a function
  of the position (`RedisAt`, `FilesAt`); on the way back only some parts are known
  (`BackAt`), and all the recovery files are there until the host is as it was.  A step
  is then one of three things to host and note (`RedisMoves`), which are the steps of
  `ReversibleChange`.
* rpcbind (`RpcInv`): the record is of the units when the change began, and without a
  record they are as they were then, the activation of the service aside (`RpcNoted`):
  that socket activation may start the service in any state is why the property cannot
  ask for equality.  `ReversibleChange` follows from `RpcNoted` before and after.
* Sync service (`UnitInv`): the drop-in is on disk, loaded and in force in this order
  and is removed in this order; a process that is down says nothing.
* Origin pull (`AopInv`): `OneCA` (record, certificates, association, the request on its
  way and the proof are about one CA), `KnowsRecord` (what the process knows at each of
  its places) and `RequiredStands`, which speaks of `required` on disk, loaded, being
  installed and about to be restored: `RequiredIsPassable` alone is lost by a failed
  installation that restores the older files.
* Retirement (`RetireInv`): the retirement works on the record as it is, and what led it
  to its place still holds although directories are made anew meanwhile
  (`KnowsRecord`): until the name is gone there is a directory that `MayGo`, since
  whatever is made after the check has a higher number than `since`.  The traffic canary
  beside it keeps `ProvedSoFar`.
* Nginx direct (`DirectInv`): the files before the position are the new ones on the way
  forward and the noted ones on the way back, whatever a renewal loads meanwhile; the
  tool's own reload stands behind all four.
* Sync canary (`PortInv`): `PortServed` says which relay can have the port; `PromoteAt`,
  `LegacyAt` and `StableAt` say which units are on, kept and have a container before each
  command, so that one of the two always is kept and has its container.  For the image,
  `Past` (a noted commit is no later than the tree, and equal in its inputs where it is
  the same commit) and `BuiltSince` (an image is of the inputs of its note's commit or
  of later ones): two numbers that only grow leave no room for a change of the inputs in between.
* Cutover (`CutInv`): `ExecuteAt(k)` and `RollbackAt(k)` say what holds before the k-th
  step of `execute` and of `rollback`; from step 3 to the end there is a record, up to
  the reload the stable upstream serves, and each step of the rollback has done its part
  or has noted an error.  `CutTraceless` is the property, with the one place (`idle`)
  where the host may be migrated; `CutHost` knows what a rollback needs: while the target
  serves all its containers are there, and whoever may have to remove the nonce container
  knows of it, the record included.  A step that fails halfway or is killed then leads to
  `caught` or `idle`, where the property is about the record alone.
* `TypeOK` follows from these invariants, which know the position, with what none of them
  needs (`ToolShape`): the versions of Redis's source files, the contracts, and for the
  cutover that what is ready is there and that the nonce container is only marked after
  the targets, which `CutInv` gives at the step that marks it.

### 3.7 Invite provisioning

Between its call and its save a request has changed the account and not the invite, so
"they agree" is lost whenever anything runs.  The invariant (`IInv` of
`InviteProvisioningProofs`) says who answers for the difference.  It has three layers.

* `Local`, always: a request's place fits its kind and what it has read (`Placed`); a
  leased kind holds the lease; a copy nobody has written over is the stored invite
  (`Reading`, which is what the compare and swap guards); whoever deletes has an invite
  to delete; a restore or purge still finds its item.
* `Bins`, while the UUID was not given out again: there is a trash item only while no
  invite is stored, there is one at most, and no current `create` is about to save over
  one.  `PurgeSparesLive` follows: a purge has its item.
* `Owned`, while nothing happened that no compensation covers.  `Dirty` are the requests
  that still have to save or to make the account follow.  If there is none, invite and
  account agree (`Settled`); a current copy is what the account is, unless another
  request is dirty (`CopyMatches`); and an active account without an invite, or with one
  that is being deleted, is some dirty request's own provisioning (`UpHasCause`).  The
  last one is what makes the save of a delete sound, and the undo of a lost create: the
  account it removes is its own.  `Restored` is the one place where a request that was
  told of an error has saved after all.

Steps that leave collections and account alone have one lemma for what they do to the
other requests (`MoveKeepsCalm`, `MoveKeepsOwned`), and so have the writes
(`WriteKeepsCalm`, `WriteKeepsOwned`), of which there are four kinds.

### 3.8 Only model-checked

Liveness under fairness, which is beyond the prover, and the two violations of section 4.
Every invariant and every action property of the other runs is stated by a theorem.

## 4. What the checks found

Two statements of the repository have a run that finds the counterexample.

* `LogoutIsFinal`: a look-up of a legacy token that read KV before the logout
  stores the session in the object after the logout was answered.
* `CertificateIsAccounted`: the answer to an upload breaks off while it is read.  The
  exception is neither an `OSError` nor a `URLError`, the upload counts as refused, the
  control record and the CA are removed, and the certificate stays at Cloudflare.

Further statements that do not hold, met while modelling; no run is about them:

* "Invite credential rotation and deletion revoke matching public sessions"
  (`worker-allow-ip/README.md:96`): a removed and restored invite starts again at
  credential version 1, the version that a legacy KV session carries.
* "Try again after the dependency recovers" (`admin.js:143`): a delete whose call timed
  out and took effect is refused from then on ("identity_conflict").
* "restores legacy and verifies it" (`deploy/README.md:1098`): one failure in the
  promotion after which the restoration finds the host changed leaves `lost`.
* A record of `harden-rpcbind.py` whose units have changed since is refused by restore
  and blocks apply until the reboot that empties `/run`.
* A kill between the deletion of a directory and the record of it leaves a record that
  `retire-legacy-data.py` does not resume.
* A clearing of the Redis recovery files that fails part-way leaves a set that neither
  apply nor rollback reads.
* A sync service found hardened is judged by what systemd has loaded, not by the
  process, which may have been started before.

Further behaviour that no statement of the repository contradicts, and that the
properties leave out by name:

* The undo of a lost `create` disables the account of a concurrent `create` of
  the same UUID that was about to be saved (`Crosses`).
* A trash item can be purged after its UUID was given to a new invite; that
  deletes the new invite's account (`reused`).  Restore checks for this.
* An error, other than a conflict, of a delete's save leaves the invite with a
  disabled account; a create whose call was not answered may leave an account
  without an invite (`broken`).
* An edit after a password change in Sub2API stores the new fingerprint
  beside the old password, so that no later refresh reports the change.
* A purge that lost its compare and swap has deleted the account and keeps the
  item; purging again is refused.
* The cutover's cases `bare`, ACL and `Strange` of section 2.5.  `deploy/README.md`
  lines 856-871 describe checks before a stable restore (health of the sync
  service, identity after the legacy start) that the rollback does not make.

## 5. Not modelled

* Encryption of stored credentials, URL and header checks: pure functions; the
  modules use what they guarantee.
* Pages, translations, the usage inspector, the demo: presentation.
* SQL privileges and event triggers: enforced by PostgreSQL.
* Static Nginx and compose configuration, offline verifiers, test harnesses.
* The sync service's thirty-second group catalog cache (two loads may store out of
  order; provisioning looks its groups up again), usage metadata, failure diagnostics,
  API key probe and health check: they change nothing.
* The verify, check and status commands of the tools: their checks are in the guards of
  the operations, the commands change nothing.
* The parts marked planned in section 1.1, and what section 6 names.
* Cost in time: delays are nondeterministic; only limits that decide an outcome
  (leases, alarms, windows, deadlines) are modelled.

## 6. Plan

Built, in this order: `AuthRateLimiter`, `AuthState`, `LegacyCleanup`, `AllowList`,
`MaintenanceCutover`, `InviteProvisioning`, the operator's tools (`SyncCanary`,
`ReversibleChange`, `HardenRedis`, `HardenRpcbind`, `HardenSyncService`, `NginxDirect`,
`CloudflareAop`, `TrafficCanary`, `LegacyRetirement`, composed by `OperatorTools`),
`SyncService`, and the proof modules: `AuthRateLimiterProofs`, `AuthStateProofs`,
`LegacyCleanupProofs`, `AllowListProofs`, `SyncServiceProofs`, `OperatorToolsProofs`,
`MaintenanceCutoverProofs`, `InviteProvisioningProofs`.

Next:

1. `AdminLogin`: password and TOTP step, counter replay, admin sessions and the
   limiter of `AuthRateLimiter` as its abstract specification.
2. `recover-worker-admin.py` and `local-worker-publish.py`, in the form of the other
   tools.
3. The list and record side of deleting, restoring and purging a whole invite, as
   kinds of request of `AllowList`.
4. A lease service as an abstract specification (`leases` with claim, takeover,
   release and expiry), implemented by the record leases of `AuthState` and used by
   `AllowList` and `InviteProvisioning`.
