---------------------------- MODULE TrafficCanary ----------------------------
(***************************************************************************)
(* deploy/traffic-canary.py: the migrated target stack (PostgreSQL, Redis, *)
(* application on port 8081) is started next to the legacy one, its data   *)
(* services first; the application follows when the data has passed its    *)
(* gates, and everything is taken down again when a step fails.            *)
(***************************************************************************)
EXTENDS Naturals, Sequences

CONSTANT MaxTrouble     \* bound on failures, kills and disturbances

VARIABLES
    legacy, target, \* component -> state of its container
    sound,          \* the contracts that hold
    cache,          \* what the target's Redis holds
    run, outcome, trouble

vars == <<legacy, target, sound, cache, run, outcome, trouble>>

Components == {"postgres", "redis", "app"}
Data == {"postgres", "redis"}
Contracts == {"release", "storage", "images", "guards", "role", "runtime", "dependencies", "distinct"}
Idle == [op |-> "idle", phase |-> "main", i |-> 1]

MutantStartsAll ==
    << <<"up", Components>>, <<"healthy", Data>>, <<"distinct">>, <<"empty">>, <<"gates">>,
       <<"healthy", Components>>, <<"runtime">>, <<"distinct">> >>

(* start_canary after its checks.                                            *)
Starting ==
    << <<"up", Data>>, <<"healthy", Data>>, <<"distinct">>, <<"empty">>, <<"gates">>,
       <<"up", {"app"}>>, <<"healthy", Components>>, <<"runtime">>, <<"distinct">> >>

(* stop_failed_stack *)
TakingDown == << <<"down">> >>

Program == IF run.phase = "main" THEN Starting ELSE TakingDown
Busy    == run.op # "idle"
Command == Program[run.i]
Verb    == Command[1]

-----------------------------------------------------------------------------
Up(stack, c) == stack[c] = "up"

ReleaseKept == "release" \in sound
ImagesKept  == "images" \in sound
StorageKept == "storage" \in sound
Distinct    == "distinct" \in sound
DependenciesKept == "dependencies" \in sound
AppRoleKept == "role" \in sound

(* run_postgres_gate: log settings, conversation guards, no content.         *)
GuardsPass  == Up(target, "postgres") /\ "guards" \in sound
CacheEmpty  == Up(target, "redis") /\ cache = "empty"
Healthy(cs) == \A c \in cs : Up(target, c)

(* legacy_identity *)
LegacyIdentified == (\A c \in Components : Up(legacy, c)) /\ DependenciesKept

(* validate_target_runtime *)
TargetValid ==
    /\ Healthy(Components)
    /\ "runtime" \in sound
    /\ GuardsPass /\ AppRoleKept

(* verify_stopped_legacy: the application is stopped, its data services run. *)
StoppedLegacyVerified ==
    /\ legacy["app"] = "stopped" /\ Up(legacy, "postgres") /\ Up(legacy, "redis")
    /\ TargetValid /\ Distinct

Passes ==
    CASE Verb = "healthy"  -> Healthy(Command[2])
      [] Verb = "distinct" -> Distinct
      [] Verb = "empty"    -> CacheEmpty
      [] Verb = "gates"    -> GuardsPass /\ AppRoleKept
      [] Verb = "runtime"  -> TargetValid

Checks == {"healthy", "distinct", "empty", "gates", "runtime"}

(* docker compose up and down; the cache lives as long as its container.     *)
Acts(done) ==
    /\ target' = [c \in Components |->
                    IF Verb = "up" /\ c \in Command[2] \cap done THEN "up"
                    ELSE IF Verb = "down" /\ c \in done THEN "absent" ELSE target[c]]
    /\ cache' = IF target'["redis"] = target["redis"] THEN cache ELSE "empty"

Reports(end) == run' = Idle /\ outcome' = end

Goes ==
    IF run.i < Len(Program)
    THEN run' = [run EXCEPT !.i = @ + 1] /\ UNCHANGED outcome
    ELSE Reports(IF run.phase = "main" THEN "ready" ELSE "taken down")

(* The finally block; the status of `down` does not matter.                  *)
Fails ==
    IF run.phase = "main" THEN run' = [run EXCEPT !.phase = "undo", !.i = 1] /\ UNCHANGED outcome
    ELSE Reports("left")

-----------------------------------------------------------------------------
(* main and start_canary before the first container is made.                 *)
Admits ==
    /\ ReleaseKept /\ ImagesKept /\ StorageKept
    /\ \A c \in Components : target[c] = "absent"
    /\ LegacyIdentified

Applies ==
    /\ ~Busy
    /\ Admits
    /\ run' = [Idle EXCEPT !.op = "apply"]
    /\ outcome' = "running"
    /\ UNCHANGED <<legacy, target, sound, cache, trouble>>

Changes ==
    /\ Busy /\ Verb \notin Checks
    /\ Acts(Components)
    /\ Goes
    /\ UNCHANGED <<legacy, sound, trouble>>

Verifies ==
    /\ Busy /\ Verb \in Checks
    /\ IF Passes THEN Goes ELSE Fails
    /\ UNCHANGED <<legacy, target, sound, cache, trouble>>

(* The application fills its cache.                                          *)
Serves ==
    /\ Up(target, "app") /\ Up(target, "redis")
    /\ cache' = "used"
    /\ UNCHANGED <<legacy, target, sound, run, outcome, trouble>>

Trouble == trouble < MaxTrouble /\ trouble' = trouble + 1

(* A command fails or times out when part of the containers are made or gone. *)
CommandFails ==
    /\ Trouble
    /\ Busy
    /\ \/ Verb \notin Checks /\ \E done \in SUBSET Components : Acts(done)
       \/ Verb \in Checks /\ UNCHANGED <<target, cache>>
    /\ Fails
    /\ UNCHANGED <<legacy, sound>>

Killed ==
    /\ Trouble
    /\ Busy
    /\ Reports("cut")
    /\ UNCHANGED <<legacy, target, sound, cache>>

(* The target's database changes only while its application or nobody but    *)
(* the operator uses it: not while the stack is being started.               *)
Disturbed ==
    /\ Trouble
    /\ ~Busy
    /\ \E c \in Contracts : sound' = (sound \ {c}) \cup ({c} \ sound)
    /\ UNCHANGED <<legacy, target, cache, run, outcome>>

(* The operator stops, removes or starts containers of either stack.         *)
OperatorMoves ==
    /\ Trouble
    /\ \/ \E c \in Components, s \in {"up", "stopped", "absent"} :
            /\ legacy[c] # "absent" /\ legacy[c] # s
            /\ legacy' = [legacy EXCEPT ![c] = s]
            /\ UNCHANGED <<target, cache>>
       \/ /\ ~Busy
          /\ target' = [c \in Components |-> "absent"]
          /\ cache' = "empty"
          /\ UNCHANGED legacy
    /\ UNCHANGED <<sound, run, outcome>>

Init ==
    /\ legacy = [c \in Components |-> "up"]
    /\ target = [c \in Components |-> "absent"]
    /\ sound = Contracts
    /\ cache = "empty"
    /\ run = Idle
    /\ outcome = "none"
    /\ trouble = 0

Next ==
    \/ Applies \/ Changes \/ Verifies \/ Serves
    \/ CommandFails \/ Killed \/ Disturbed \/ OperatorMoves

Spec == Init /\ [][Next]_vars

-----------------------------------------------------------------------------
TypeOK ==
    /\ target \in [Components -> {"absent", "up"}]
    /\ legacy \in [Components -> {"absent", "up", "stopped"}]
    /\ cache \in {"empty", "used"}
    /\ run \in [op : {"idle", "apply"}, phase : {"main", "undo"}, i : Nat]
    /\ Busy => run.i \in 1..Len(Program)

(* What the start has seen so far is still so: nobody else starts a target,   *)
(* and its application is not there to change the data or the cache.         *)
ProvedSoFar ==
    (Busy /\ run.phase = "main") =>
        /\ run.i <= 6 => target["app"] = "absent"
        /\ run.i \in 3..6 => Healthy(Data)
        /\ run.i \in 4..6 => Distinct
        /\ run.i \in 5..6 => cache = "empty"
        /\ run.i = 6 => "guards" \in sound /\ AppRoleKept

(* The application is started on data that passed its gates, with an empty   *)
(* cache, whatever an earlier run left behind.                               *)
StartsProved ==
    (target["app"] # "up" /\ target'["app"] = "up") =>
        /\ {"guards", "role", "distinct"} \subseteq sound
        /\ cache = "empty" /\ Up(target, "postgres")
AppStartsOnProvedData == [][StartsProved]_vars
=============================================================================
