----------------------------- MODULE HardenRedis -----------------------------
(***************************************************************************)
(* deploy/harden-legacy-redis.py: the legacy stack's Redis gets a hashed   *)
(* ACL, a new password and volatile data in place.  The controller keeps   *)
(* the original Compose and environment files as recovery files, changes   *)
(* the host step by step, and goes back by the recovery files when a step  *)
(* fails.  A step fails with or without its effect; a signal the program   *)
(* survives is such a failure, and one it does not survive is a kill.      *)
(***************************************************************************)
EXTENDS Naturals, Sequences

CONSTANT MaxTrouble     \* bound on failures, kills and disturbances

VARIABLES
    host,           \* Compose file, environment file, ACL, residue, containers
    recovery,       \* the recovery files that exist
    kept,           \* the contracts that hold
    run,            \* the controller
    outcome,        \* what the last run reported
    trouble

vars == <<host, recovery, kept, run, outcome, trouble>>

RECOVERY_FILES == {"compose.before", "env.before", "state.json"}
Contracts == {"release", "paths", "source", "env", "runtime"}
Idle == [op |-> "idle", phase |-> "main", i |-> 1]

Container(state, compose, pw) == [state |-> state, compose |-> compose, pw |-> pw]

(* The host before: the shell command's password, data in redis_data.        *)
Original ==
    [compose |-> "soft", env |-> "old", acl |-> "none", residue |-> "open",
     redis |-> Container("up", "soft", "old"), app |-> Container("up", "soft", "old")]

Hardened ==
    [compose |-> "hard", env |-> "new", acl |-> "new", residue |-> "closed",
     redis |-> Container("up", "hard", "new"), app |-> Container("up", "hard", "new")]

MutantNotesTooLate ==
    << <<"note", "compose.before">>, <<"note", "state.json">>,
       <<"own">>, <<"same">>, <<"preflight">>,
       <<"set", "acl", "new">>, <<"set", "compose", "hard">>, <<"note", "env.before">>,
       <<"set", "env", "new">>, <<"config">>,
       <<"halt", {"app"}>>, <<"halt", {"redis"}>>, <<"halted">>, <<"set", "residue", "closed">>,
       <<"up", "redis">>, <<"running", "redis">>, <<"ping", "new">>,
       <<"up", "app">>, <<"running", "app">>, <<"hardened">>, <<"answers">>,
       <<"forget", "compose.before">>, <<"forget", "env.before">>, <<"forget", "state.json">> >>

(* apply, from the recovery files on.  What own changes, the owner and mode    *)
(* of the source directory, is no part of host: no rollback restores it.     *)
Hardening ==
    << <<"note", "compose.before">>, <<"note", "env.before">>, <<"note", "state.json">>,
       <<"own">>, <<"same">>, <<"preflight">>,
       <<"set", "acl", "new">>, <<"set", "compose", "hard">>, <<"set", "env", "new">>, <<"config">>,
       <<"halt", {"app"}>>, <<"halt", {"redis"}>>, <<"halted">>, <<"set", "residue", "closed">>,
       <<"up", "redis">>, <<"running", "redis">>, <<"ping", "new">>,
       <<"up", "app">>, <<"running", "app">>, <<"hardened">>, <<"answers">>,
       <<"forget", "compose.before">>, <<"forget", "env.before">>, <<"forget", "state.json">> >>

(* _clear_recovery before anything has changed.                              *)
Clearing ==
    << <<"forget", "compose.before">>, <<"forget", "env.before">>, <<"forget", "state.json">> >>

MutantKeepsACL ==
    << <<"read">>, <<"set", "compose", "soft">>, <<"set", "env", "old">>, <<"set", "residue", "open">>,
       <<"halt", {"app", "redis"}>>, <<"up", "redis">>, <<"running", "redis">>, <<"ping", "old">>,
       <<"up", "app">>, <<"running", "app">>, <<"answers">>,
       <<"forget", "compose.before">>, <<"forget", "env.before">>, <<"forget", "state.json">> >>

(* _rollback. *)
Restoring ==
    << <<"read">>, <<"set", "compose", "soft">>, <<"set", "env", "old">>, <<"set", "residue", "open">>,
       <<"halt", {"app", "redis"}>>, <<"up", "redis">>, <<"running", "redis">>, <<"ping", "old">>,
       <<"up", "app">>, <<"running", "app">>, <<"answers">>, <<"set", "acl", "none">>,
       <<"forget", "compose.before">>, <<"forget", "env.before">>, <<"forget", "state.json">> >>

Program ==
    CASE run.phase = "main"  -> Hardening
      [] run.phase = "clear" -> Clearing
      [] run.phase = "undo"  -> Restoring

Busy    == run.op # "idle"
Command == Program[run.i]
Verb    == Command[1]

-----------------------------------------------------------------------------
(* What the checks look at. *)
ReleaseKept == "release" \in kept
PathsKept   == "paths" \in kept
SourceKept  == "source" \in kept /\ host.compose = "soft"
EnvKept     == "env" \in kept
RuntimeKept == "runtime" \in kept

Running(c) == host[c].state = "up"
Pings(pw)  == Running("redis") /\ host.redis.pw = pw
Readable   == recovery = RECOVERY_FILES

(* _validate_preflight *)
Preflight == Running("app") /\ Running("redis") /\ RuntimeKept

(* _require_hardened_runtime *)
RuntimeHardened ==
    /\ host.app.compose = "hard" /\ host.redis.compose = "hard"
    /\ host.acl = "new" /\ RuntimeKept

Passes ==
    CASE Verb = "same"      -> "source" \in kept /\ EnvKept
      [] Verb = "preflight" -> Preflight
      [] Verb = "config"    -> TRUE
      [] Verb = "halted"    -> ~Running("app") /\ ~Running("redis")
      [] Verb = "running"   -> Running(Command[2])
      [] Verb = "ping"      -> Pings(Command[2])
      [] Verb = "hardened"  -> RuntimeHardened
      [] Verb = "answers"   -> Running("app")
      [] Verb = "read"      -> Readable

Checks == {"same", "preflight", "config", "halted", "running", "ping", "hardened", "answers", "read"}

(* docker compose up --force-recreate: the container takes the files as they *)
(* are now.                                                                  *)
Fresh(c) ==
    Container("up", host.compose,
              IF c = "redis" /\ host.compose = "hard" THEN host.acl ELSE host.env)

Acts ==
    /\ host' =
        CASE Verb = "set"  -> [host EXCEPT ![Command[2]] = Command[3]]
          [] Verb = "halt" -> [x \in DOMAIN host |->
                                  IF x \in Command[2] THEN [host[x] EXCEPT !.state = "stopped"]
                                  ELSE host[x]]
          [] Verb = "up"   -> [host EXCEPT ![Command[2]] = Fresh(Command[2])]
          [] OTHER         -> host
    /\ recovery' =
        CASE Verb = "note"   -> recovery \cup {Command[2]}
          [] Verb = "forget" -> recovery \ {Command[2]}
          [] OTHER           -> recovery

Reports(end) == run' = Idle /\ outcome' = end

Goes ==
    IF run.i < Len(Program)
    THEN run' = [run EXCEPT !.i = @ + 1] /\ UNCHANGED outcome
    ELSE Reports(CASE run.phase = "main" -> "done" [] run.phase = "clear" -> "unchanged"
                   [] run.phase = "undo" -> "undone")

Enters(phase) == run' = [run EXCEPT !.phase = phase, !.i = 1] /\ UNCHANGED outcome

(* Where a failure leads: the recovery files are written outside of the try,  *)
(* `changed` is set after the second preflight.                              *)
Fails ==
    CASE run.phase = "main" /\ run.i <= 3 -> Reports("lost")
      [] run.phase = "main" /\ run.i \in 4..6 -> Enters("clear")
      [] run.phase = "main" /\ run.i > 6 -> Enters("undo")
      [] run.phase = "clear" -> Reports("unchanged")
      [] run.phase = "undo" -> Reports("retained") \/ (Verb = "halt" /\ Goes)

-----------------------------------------------------------------------------
(* apply up to its first write. *)
Admits ==
    /\ PathsKept /\ ReleaseKept
    /\ recovery = {} /\ host.acl = "none"
    /\ SourceKept /\ EnvKept
    /\ Preflight /\ Pings(host.env)

Applies ==
    /\ ~Busy
    /\ Admits
    /\ run' = [Idle EXCEPT !.op = "apply"]
    /\ outcome' = "running"
    /\ UNCHANGED <<host, recovery, kept, trouble>>

Changes ==
    /\ Busy /\ Verb \notin Checks
    /\ Acts
    /\ Goes
    /\ UNCHANGED <<kept, trouble>>

Verifies ==
    /\ Busy /\ Verb \in Checks
    /\ IF Passes THEN Goes ELSE Fails
    /\ UNCHANGED <<host, recovery, kept, trouble>>

Trouble == trouble < MaxTrouble /\ trouble' = trouble + 1

CommandFails ==
    /\ Trouble
    /\ Busy
    /\ \/ Verb \notin Checks /\ Acts
       \/ UNCHANGED <<host, recovery>>
    /\ Fails
    /\ UNCHANGED kept

Killed ==
    /\ Trouble
    /\ Busy
    /\ Reports("cut")
    /\ UNCHANGED <<host, recovery, kept>>

Disturbed ==
    /\ Trouble
    /\ \E c \in Contracts : kept' = (kept \ {c}) \cup ({c} \ kept)
    /\ UNCHANGED <<host, recovery, run, outcome>>

Init ==
    /\ host = Original
    /\ recovery = {}
    /\ kept = Contracts
    /\ run = Idle
    /\ outcome = "none"
    /\ trouble = 0

Next == Applies \/ Changes \/ Verifies \/ CommandFails \/ Killed \/ Disturbed

Spec == Init /\ [][Next]_vars

-----------------------------------------------------------------------------
TypeOK ==
    /\ recovery \subseteq RECOVERY_FILES /\ kept \subseteq Contracts
    /\ host.compose \in {"soft", "hard"} /\ host.env \in {"old", "new"}
    /\ Busy => run.i \in 1..Len(Program)

(* A run that says that the stack is hardened, or that it was restored, left  *)
(* it so, the application and Redis with one password, and no recovery file. *)
RedisReportIsTrue ==
    /\ (outcome = "done") => (host = Hardened /\ recovery = {})
    /\ (outcome = "undone") => (host = Original /\ recovery = {})
    /\ (outcome = "unchanged") => host = Original

Place == IF host = Original THEN "before" ELSE IF host = Hardened THEN "after" ELSE "between"
Noted == recovery = RECOVERY_FILES
=============================================================================
