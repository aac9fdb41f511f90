------------------------- MODULE MaintenanceCutover -------------------------
(***************************************************************************)
(* The bounded maintenance cutover (deploy/maintenance-cutover.py): one    *)
(* controller stops the legacy writers, copies the sanitized data into new *)
(* target containers, points Nginx at them and, when anything fails on the *)
(* way, rolls all of it back.  A recovery record on disk says what a run   *)
(* has started, so that --recover can roll back after the controller was   *)
(* killed.                                                                 *)
(*                                                                         *)
(* ctl is the controller's memory, record the file; everything else is the *)
(* host.  Each action is one command with the assignments around it.  A    *)
(* command that fails after its effect is a command that succeeded and a   *)
(* failure at the next step; Interrupted also stands for a deadline and    *)
(* for the first SIGINT, SIGTERM or SIGHUP.  A container is the identity   *)
(* it was given when it was created, 0 when there is none.                 *)
(***************************************************************************)
EXTENDS Naturals, FiniteSets, SequencesExt

CONSTANTS
    MaxRuns,        \* bound on the runs of --apply
    MaxTrouble,     \* bound on failures, kills and services that fall over
    NoRecord

VARIABLES
    legacy,         \* the legacy services: up, stopped by the controller, or fell
    cont,           \* the target containers: name -> identity or 0
    ready,          \* the target containers that run and are healthy
    data,           \* the target directories: empty, fresh, partial, copied
    acl,            \* the one-time migration ACL is installed
    file, live,     \* the upstream in the Nginx file, and the one it serves
    record,         \* the recovery record, or NoRecord
    ctl,            \* the controller
    late,           \* the 120 seconds of the rollback are over
    outcome,        \* what the last run reported
    behind,         \* history: a legacy writer ran after the data were copied
    bare,           \* history: a clearing failed after the record was gone
    trouble, runs

nginx  == <<file, live>>
target == <<cont, ready, data, acl>>
past   == <<outcome, behind, bare>>
bounds == <<trouble, runs>>
vars   == <<legacy, target, nginx, record, ctl, late, past, bounds>>

Services == {"app", "pg", "redis", "sync"}
Writers  == {"app", "sync"}
Pinned   == {"pg", "redis", "app"}          \* TARGET_NAMES
Names    == Pinned \cup {"nonce"}
Ids      == 1..4

NoPins == [n \in Pinned |-> 0]
Idle   == [pc |-> "idle", targets |-> FALSE, nonce |-> FALSE, pins |-> NoPins, errors |-> {}]

Documents == [targets : BOOLEAN, nonce : BOOLEAN, pins : [Pinned -> Ids \cup {0}]]

(* recovery_state_document.                                                  *)
Document == [targets |-> ctl.targets, nonce |-> ctl.nonce, pins |-> ctl.pins]

MutantStartsFirst ==
    <<"check", "up", "mark", "pinpg", "pinredis", "persist1", "acl", "marknonce", "upnonce", "ready",
      "stopsync", "stopapp", "quiet", "copy", "droppg", "persist2", "reup", "repin", "persist3",
      "dropnonce", "renonce", "upapp", "pinapp", "persist4", "switch", "reload", "canary", "clear">>

(* The steps of execute: preflight, stop_writers, migrate, start_target and   *)
(* switch_and_canary.  A record that would only change its phase is left out. *)
Steps ==
    <<"check", "mark", "up", "pinpg", "pinredis", "persist1", "acl", "marknonce", "upnonce", "ready",
      "stopsync", "stopapp", "quiet", "copy", "droppg", "persist2", "reup", "repin", "persist3",
      "dropnonce", "renonce", "upapp", "pinapp", "persist4", "switch", "reload", "canary", "clear">>

MutantSkipsApp == <<"pg", "redis", "sync", "stable", "serve", "identify", "down", "downnonce", "reset", "finish">>

(* The steps of rollback.                                                    *)
Undoing == <<"pg", "redis", "app", "sync", "stable", "serve", "identify", "down", "downnonce", "reset", "finish">>

Forward == ToSet(Steps)
Back    == ToSet(Undoing)

After(seq) == seq[(CHOOSE i \in DOMAIN seq : seq[i] = ctl.pc) + 1]

At(p)      == ctl.pc = p
Onward     == [ctl EXCEPT !.pc = After(Steps)]
Caught     == [ctl EXCEPT !.pc = "caught"]
Undone     == [ctl EXCEPT !.pc = After(Undoing)]
Failing(e) == [ctl EXCEPT !.pc = After(Undoing), !.errors = @ \cup {e}]

MutantGoesOn(e) == Failing(e)

GivenUp(e) == [ctl EXCEPT !.pc = "finish", !.errors = @ \cup {e}]

Proceeds(condition) == ctl' = IF condition THEN Onward ELSE Caught

(* An identity the controller has not seen under this name.                  *)
NewId(n) ==
    CHOOSE i \in Ids : i \notin
        {cont[n]} \cup (IF n = "nonce" THEN {}
                        ELSE {ctl.pins[n]} \cup (IF record = NoRecord THEN {} ELSE {record.pins[n]}))

(* docker compose up: creates what is missing, leaves what is there.          *)
Created(S) ==
    /\ cont'  = [n \in Names |-> IF n \in S /\ cont[n] = 0 THEN NewId(n) ELSE cont[n]]
    /\ ready' = [n \in Names |-> ready[n] \/ (n \in S /\ cont[n] = 0)]

Removed(S) ==
    /\ cont'  = [n \in Names |-> IF n \in S THEN 0 ELSE cont[n]]
    /\ ready' = [n \in Names |-> ready[n] /\ n \notin S]

PinnedAndReady(pins, S) == \A n \in S : pins[n] = cont[n] /\ ready[n]

-----------------------------------------------------------------------------
(* --apply. *)
Applies ==
    /\ At("idle") /\ record = NoRecord /\ file = "stable"
    /\ runs < MaxRuns /\ runs' = runs + 1
    /\ ctl' = [Idle EXCEPT !.pc = "check"]
    /\ outcome' = "none"
    /\ UNCHANGED <<legacy, target, nginx, record, late, behind, bare, trouble>>

ChecksHost ==
    /\ At("check")
    /\ Proceeds(/\ \A n \in Names : cont[n] = 0
                /\ \A s \in Services : legacy[s] = "up"
                /\ file = "stable")
    /\ UNCHANGED <<legacy, target, nginx, record, late, past, bounds>>

Marked == IF At("mark") THEN [Onward EXCEPT !.targets = TRUE] ELSE [Onward EXCEPT !.nonce = TRUE]

Marks ==
    /\ ctl.pc \in {"mark", "marknonce"}
    /\ ctl' = Marked
    /\ record' = [targets |-> Marked.targets, nonce |-> Marked.nonce, pins |-> ctl.pins]
    /\ UNCHANGED <<legacy, target, nginx, late, past, bounds>>

Persists ==
    /\ ctl.pc \in {"persist1", "persist2", "persist3", "persist4"}
    /\ record' = Document
    /\ ctl' = Onward
    /\ UNCHANGED <<legacy, target, nginx, late, past, bounds>>

Starting ==
    CASE ctl.pc \in {"up", "reup"}         -> {"pg", "redis"}
      [] ctl.pc \in {"upnonce", "renonce"} -> {"nonce"}
      [] ctl.pc = "upapp"                  -> {"app"}

StartsTargets ==
    /\ ctl.pc \in {"up", "reup", "upnonce", "renonce", "upapp"}
    /\ Created(Starting)
    /\ data' = IF At("up") /\ data = "empty" THEN "fresh" ELSE data
    /\ ctl' = Onward
    /\ UNCHANGED <<legacy, acl, nginx, record, late, past, bounds>>

(* wait_target_healthy: a container is pinned when it is first waited for.    *)
PinsTarget ==
    /\ ctl.pc \in {"pinpg", "pinredis", "repin", "pinapp"}
    /\ LET n    == CASE At("pinredis") -> "redis" [] At("pinapp") -> "app" [] OTHER -> "pg"
           pins == [ctl.pins EXCEPT ![n] = IF @ = 0 THEN cont[n] ELSE @]
           S    == CASE At("pinapp") -> Pinned [] At("repin") -> {"pg", "redis"} [] OTHER -> {n}
           well == PinnedAndReady(pins, S) /\ (At("pinapp") => legacy["app"] # "up")
       IN  ctl' = [IF well THEN Onward ELSE Caught EXCEPT !.pins = pins]
    /\ UNCHANGED <<legacy, target, nginx, record, late, past, bounds>>

InstallsAcl ==
    /\ At("acl")
    /\ acl' = TRUE
    /\ ctl' = Onward
    /\ UNCHANGED <<legacy, cont, ready, data, nginx, record, late, past, bounds>>

(* verify_rollback_ready.                                                    *)
ChecksRollback ==
    /\ At("ready")
    /\ Proceeds(ready["nonce"] /\ file = "stable" /\ \A s \in Services : legacy[s] = "up")
    /\ UNCHANGED <<legacy, target, nginx, record, late, past, bounds>>

StopsWriter ==
    /\ ctl.pc \in {"stopsync", "stopapp"}
    /\ legacy' = [legacy EXCEPT ![IF At("stopsync") THEN "sync" ELSE "app"] = "stopped"]
    /\ ctl' = Onward
    /\ UNCHANGED <<target, nginx, record, late, past, bounds>>

ChecksStopped ==
    /\ At("quiet")
    /\ Proceeds(legacy["app"] # "up" /\ legacy["pg"] = "up" /\ legacy["redis"] = "up")
    /\ UNCHANGED <<legacy, target, nginx, record, late, past, bounds>>

(* migrate-sanitized-postgres.sh refuses a target that is not empty.         *)
Copies ==
    /\ At("copy")
    /\ LET can == legacy["pg"] = "up" /\ legacy["redis"] = "up" /\ ready["pg"] /\ ready["nonce"]
       IN  /\ Proceeds(can /\ data = "fresh")
           /\ data' = IF data # "fresh" THEN data ELSE IF can THEN "copied" ELSE "partial"
           /\ behind' = (behind \/ (data = "fresh" /\ \E s \in Writers : legacy[s] = "up"))
    /\ UNCHANGED <<legacy, cont, ready, acl, nginx, record, late, outcome, bare, bounds>>

(* PostgreSQL comes back without its migration port, under a new identity.    *)
DropsPostgres ==
    /\ At("droppg")
    /\ IF PinnedAndReady(ctl.pins, {"pg"})
       THEN Removed({"pg"}) /\ ctl' = [Onward EXCEPT !.pins["pg"] = 0]
       ELSE ctl' = Caught /\ UNCHANGED <<cont, ready>>
    /\ UNCHANGED <<legacy, data, acl, nginx, record, late, past, bounds>>

DropsNonce ==
    /\ At("dropnonce")
    /\ Removed({"nonce"})
    /\ acl' = FALSE
    /\ ctl' = Onward
    /\ UNCHANGED <<legacy, data, nginx, record, late, past, bounds>>

Switches ==
    /\ At("switch")
    /\ Proceeds(PinnedAndReady(ctl.pins, Pinned))
    /\ file' = IF PinnedAndReady(ctl.pins, Pinned) THEN "canary" ELSE file
    /\ UNCHANGED <<legacy, target, live, record, late, past, bounds>>

Reloads ==
    /\ At("reload")
    /\ live' = file
    /\ ctl' = Onward
    /\ UNCHANGED <<legacy, target, file, record, late, past, bounds>>

Canaries ==
    /\ At("canary")
    /\ Proceeds(PinnedAndReady(ctl.pins, Pinned))
    /\ UNCHANGED <<legacy, target, nginx, record, late, past, bounds>>

Completes ==
    /\ At("clear")
    /\ record' = NoRecord
    /\ outcome' = "completed"
    /\ ctl' = Idle
    /\ UNCHANGED <<legacy, target, nginx, late, behind, bare, bounds>>

-----------------------------------------------------------------------------
(* Failure and rollback. *)
Catches ==
    /\ At("caught")
    /\ late' = FALSE
    /\ IF ctl.targets
       THEN /\ ctl' = [ctl EXCEPT !.pc = Undoing[1], !.errors = {}]
            /\ UNCHANGED <<record, outcome>>
       ELSE /\ ctl' = Idle
            /\ record' = NoRecord
            /\ outcome' = "failed"
    /\ UNCHANGED <<legacy, target, nginx, behind, bare, bounds>>

(* restore_recovery_state.                                                   *)
Remembered == [Idle EXCEPT !.targets = record.targets, !.nonce = record.nonce, !.pins = record.pins]

(* --recover: what the record says becomes the controller's memory.           *)
Recovers ==
    /\ At("idle") /\ record # NoRecord
    /\ ctl' = [Remembered EXCEPT !.pc = Undoing[1]]
    /\ late' = FALSE
    /\ outcome' = "none"
    /\ UNCHANGED <<legacy, target, nginx, record, behind, bare, bounds>>

(* ensure_legacy_running and the health probe, one service after the other;   *)
(* a failure is noted and the rollback goes on.                              *)
StartsLegacy ==
    /\ ctl.pc \in Services
    /\ IF late
       THEN ctl' = Failing(ctl.pc) /\ UNCHANGED <<legacy, behind>>
       ELSE /\ ctl' = Undone
            /\ legacy' = [legacy EXCEPT ![ctl.pc] = "up"]
            /\ behind' = (behind \/ (data = "copied" /\ ctl.pc \in Writers))
    /\ UNCHANGED <<target, nginx, record, late, outcome, bare, bounds>>

LegacyReady == ctl.errors \cap {"pg", "redis", "app"} = {}

WritesStable ==
    /\ At("stable")
    /\ IF LegacyReady
       THEN file' = "stable" /\ ctl' = Undone
       ELSE file' = file /\ ctl' = GivenUp("stable")
    /\ UNCHANGED <<legacy, target, live, record, late, past, bounds>>

ServesStable ==
    /\ At("serve")
    /\ live' = file
    /\ ctl' = IF ~late /\ legacy["app"] = "up" THEN Undone ELSE GivenUp("stable")
    /\ UNCHANGED <<legacy, target, file, record, late, past, bounds>>

MutantNeedsAll == ~late /\ \A n \in Pinned : cont[n] = ctl.pins[n]

(* require_recovery_identity, require_target_cleanup_identity.                *)
Identified == ~late /\ \A n \in Pinned : cont[n] \in {0, ctl.pins[n]}

Identifies ==
    /\ At("identify")
    /\ ctl' = IF Identified THEN Undone ELSE GivenUp("identity")
    /\ UNCHANGED <<legacy, target, nginx, record, late, past, bounds>>

TakesDown ==
    /\ At("down")
    /\ IF ctl.targets
       THEN Removed(Pinned) /\ ctl' = IF late THEN Failing("down") ELSE Undone
       ELSE ctl' = Undone /\ UNCHANGED <<cont, ready>>
    /\ UNCHANGED <<legacy, data, acl, nginx, record, late, past, bounds>>

TakesNonceDown ==
    /\ At("downnonce")
    /\ IF ctl.nonce
       THEN Removed({"nonce"}) /\ acl' = (acl /\ late)
                               /\ ctl' = IF late THEN Failing("nonce") ELSE Undone
       ELSE ctl' = Undone /\ UNCHANGED <<cont, ready, acl>>
    /\ UNCHANGED <<legacy, data, nginx, record, late, past, bounds>>

ResetsData ==
    /\ At("reset")
    /\ ctl' = Undone
    /\ IF ctl.errors \cap {"down", "nonce"} = {}
       THEN data' = "empty" /\ behind' = FALSE
       ELSE UNCHANGED <<data, behind>>
    /\ UNCHANGED <<legacy, cont, ready, acl, nginx, record, late, outcome, bare, bounds>>

Verified == ctl.errors = {}

(* The record is cleared, or written anew if the deadline leaves the time.    *)
Finishes ==
    /\ At("finish")
    /\ ctl' = Idle
    /\ outcome' = IF Verified THEN "verified" ELSE "incomplete"
    /\ record' = IF Verified THEN NoRecord ELSE IF late THEN record ELSE Document
    /\ late' = FALSE
    /\ UNCHANGED <<legacy, target, nginx, behind, bare, bounds>>

-----------------------------------------------------------------------------
(* Trouble. *)
Trouble == trouble < MaxTrouble /\ trouble' = trouble + 1 /\ UNCHANGED runs

Interrupted ==
    /\ Trouble
    /\ ctl.pc \in Forward
    /\ ctl' = Caught
    /\ UNCHANGED <<legacy, target, nginx, record, late, outcome, behind, bare>>

(* A step that fails halfway.                                                *)
FailsHalfway ==
    /\ Trouble
    /\ \/ /\ ctl.pc \in {"mark", "marknonce"}
          /\ ctl' = [Marked EXCEPT !.pc = "caught"]
          /\ UNCHANGED <<target, record, bare>>
       \/ /\ ctl.pc \in {"up", "reup"}
          /\ \E n \in {"pg", "redis"} : Created({n})
          /\ data' = IF At("up") /\ data = "empty" THEN "fresh" ELSE data
          /\ ctl' = Caught
          /\ UNCHANGED <<acl, record, bare>>
       \/ /\ At("copy")
          /\ data' = IF data = "fresh" THEN "partial" ELSE data
          /\ ctl' = Caught
          /\ UNCHANGED <<cont, ready, acl, record, bare>>
       \/ /\ At("droppg")
          /\ ready' = [ready EXCEPT !["pg"] = FALSE]
          /\ ctl' = Caught
          /\ UNCHANGED <<cont, data, acl, record, bare>>
       \/ /\ At("dropnonce")
          /\ Removed({"nonce"})
          /\ ctl' = Caught
          /\ UNCHANGED <<data, acl, record, bare>>
       \/ /\ At("clear")
          /\ record' = NoRecord
          /\ bare' = TRUE
          /\ ctl' = Caught
          /\ UNCHANGED target
    /\ UNCHANGED <<legacy, nginx, late, outcome, behind>>

(* A step of the rollback fails, having had its effect, a part of it, or none. *)
UndoingFails ==
    /\ Trouble
    /\ \/ /\ ctl.pc \in Services
          /\ ctl' = Failing(ctl.pc)
          /\ legacy' \in {legacy, [legacy EXCEPT ![ctl.pc] = "up"]}
          /\ behind' = (behind \/ (data = "copied" /\ \E s \in Writers : legacy'[s] = "up"))
          /\ UNCHANGED <<target, nginx>>
       \/ /\ ctl.pc \in {"stable", "serve"}
          /\ ctl' = GivenUp("stable")
          /\ file' \in {file, IF LegacyReady THEN "stable" ELSE file}
          /\ live' \in {live, IF At("serve") THEN file ELSE live}
          /\ UNCHANGED <<legacy, target, behind>>
       \/ /\ At("identify")
          /\ ctl' = GivenUp("identity")
          /\ UNCHANGED <<legacy, target, nginx, behind>>
       \/ /\ At("down") /\ ctl.targets
          /\ ctl' = Failing("down")
          /\ \E S \in SUBSET Pinned : Removed(S)
          /\ UNCHANGED <<legacy, data, acl, nginx, behind>>
       \/ /\ At("downnonce") /\ ctl.nonce
          /\ ctl' = Failing("nonce")
          /\ \E S \in SUBSET {"nonce"} : Removed(S)
          /\ acl' \in {acl, acl /\ cont'["nonce"] # 0}
          /\ UNCHANGED <<legacy, data, nginx, behind>>
       \/ /\ At("reset") /\ ctl.errors \cap {"down", "nonce"} = {}
          /\ ctl' = Failing("reset")
          /\ data' \in {data, IF data = "empty" THEN "empty" ELSE "partial"}
          /\ UNCHANGED <<legacy, cont, ready, acl, nginx, behind>>
    /\ UNCHANGED <<record, late, outcome, bare>>

FinishFails ==
    /\ Trouble
    /\ At("finish")
    /\ ctl' = Idle
    /\ outcome' = "incomplete"
    /\ record' \in {record, IF Verified THEN NoRecord ELSE record}
    /\ late' = FALSE
    /\ UNCHANGED <<legacy, target, nginx, behind, bare>>

DeadlinePasses ==
    /\ Trouble
    /\ ctl.pc \in Back /\ ~late
    /\ late' = TRUE
    /\ UNCHANGED <<legacy, target, nginx, record, ctl, outcome, behind, bare>>

(* SIGKILL, or a second signal before the rollback defers them.               *)
Killed ==
    /\ Trouble
    /\ ~At("idle")
    /\ ctl' = Idle
    /\ late' = FALSE
    /\ outcome' = "killed"
    /\ UNCHANGED <<legacy, target, nginx, record, behind, bare>>

FallsOver ==
    /\ Trouble
    /\ \/ /\ \E s \in Services : legacy[s] = "up" /\ legacy' = [legacy EXCEPT ![s] = "fell"]
          /\ UNCHANGED ready
       \/ /\ \E n \in Names : ready[n] /\ ready' = [ready EXCEPT ![n] = FALSE]
          /\ UNCHANGED legacy
    /\ UNCHANGED <<cont, data, acl, nginx, record, ctl, late, outcome, behind, bare>>

-----------------------------------------------------------------------------
Init ==
    /\ legacy = [s \in Services |-> "up"]
    /\ cont = [n \in Names |-> 0]
    /\ ready = [n \in Names |-> FALSE]
    /\ data = "empty" /\ acl = FALSE
    /\ file = "stable" /\ live = "stable"
    /\ record = NoRecord
    /\ ctl = Idle
    /\ late = FALSE
    /\ outcome = "none"
    /\ behind = FALSE /\ bare = FALSE
    /\ trouble = 0 /\ runs = 0

Works ==
    \/ ChecksHost \/ Marks \/ Persists \/ StartsTargets \/ PinsTarget \/ InstallsAcl
    \/ ChecksRollback \/ StopsWriter \/ ChecksStopped \/ Copies \/ DropsPostgres \/ DropsNonce
    \/ Switches \/ Reloads \/ Canaries \/ Completes
    \/ Catches \/ StartsLegacy \/ WritesStable \/ ServesStable \/ Identifies
    \/ TakesDown \/ TakesNonceDown \/ ResetsData \/ Finishes

GoesWrong ==
    \/ Interrupted \/ FailsHalfway \/ UndoingFails \/ FinishFails \/ DeadlinePasses
    \/ Killed \/ FallsOver

Next == Applies \/ Recovers \/ Works \/ GoesWrong

(* The controller's process runs, and the operator runs --recover as long as  *)
(* there is a record.  Nobody is obliged to run --apply.                     *)
Fairness == WF_vars(Works) /\ WF_vars(Recovers)

Spec == Init /\ [][Next]_vars /\ Fairness

-----------------------------------------------------------------------------
(* Shape of the state: the controller's steps, the pins and the upstreams.    *)
TypeOK ==
    /\ legacy \in [Services -> {"up", "stopped", "fell"}]
    /\ cont \in [Names -> Ids \cup {0}]
    /\ ready \in [Names -> BOOLEAN]
    /\ data \in {"empty", "fresh", "partial", "copied"}
    /\ {file, live} \subseteq {"stable", "canary"}
    /\ ctl.pc \in {"idle", "caught"} \cup Forward \cup Back
    /\ ctl.pins \in [Pinned -> Ids \cup {0}]
    /\ ctl.nonce => ctl.targets
    /\ \A n \in Names : ready[n] => cont[n] # 0

Untouched ==
    /\ \A s \in Services : legacy[s] # "stopped"
    /\ \A n \in Names : cont[n] = 0
    /\ data = "empty" /\ file = "stable" /\ live = "stable"

Migrated ==
    /\ \A s \in Writers : legacy[s] # "up"
    /\ \A n \in Names : cont[n] # 0
    /\ data = "copied" /\ ~behind /\ ~acl /\ file = "canary" /\ live = "canary"

(* Without a record the host is as it was before, or it is migrated with all  *)
(* that the legacy services ever wrote: at every instant, so also for the one *)
(* who looks after the controller was killed.  Only the ACL may stay behind:  *)
(* the flag that makes the rollback remove it is set after it is installed.   *)
NoRecordNoTrace == (record = NoRecord /\ ~bare) => (Untouched \/ Migrated)

(* No target container goes, and no target data are emptied, while Nginx      *)
(* sends the traffic there.                                                  *)
SparesServing ==
    (live = "canary") =>
        /\ \A n \in Names : cont'[n] = 0 => cont[n] = 0
        /\ data' = data

(* No legacy writer runs while the target data change, unless it is they that *)
(* are emptied or the stable upstream was confirmed before.                  *)
CopiesAlone ==
    (data' \in {"partial", "copied"} /\ data' # data) =>
        \/ \A s \in Writers : legacy[s] # "up"
        \/ live = "stable" /\ ctl.pc = "reset"

ServingTargetStays == [][SparesServing]_vars
CopiesQuietly == [][CopiesAlone]_vars

Recorded == record # NoRecord
Strange  == \E n \in Pinned : cont[n] # 0 /\ (record = NoRecord \/ record.pins[n] # cont[n])

(* Once the trouble is over, --recover ends with the record gone, unless a    *)
(* container is there whose identity the record does not have.               *)
RecoveryEnds == Recorded ~> (~Recorded \/ Strange)

AppStopped == legacy["app"] = "stopped"
SomeServes ==
    \/ live = "stable" /\ ~AppStopped
    \/ live = "canary" /\ cont["app"] # 0

(* Whatever happens, some upstream serves again in the end.                   *)
ServiceReturns == AppStopped ~> (bare \/ SomeServes)
=============================================================================
