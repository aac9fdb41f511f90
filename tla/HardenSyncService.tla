-------------------------- MODULE HardenSyncService --------------------------
(***************************************************************************)
(* deploy/harden-legacy-sync-service.py: a systemd drop-in puts the legacy *)
(* sync service in a sandbox; the drop-in is taken out again and the       *)
(* service restarted when it does not come up in it.  systemd has the      *)
(* drop-in on disk, the configuration it has loaded, and the process that  *)
(* was started with one.                                                   *)
(***************************************************************************)
EXTENDS Naturals, Sequences

CONSTANT MaxTrouble     \* bound on failures, kills, reboots and disturbances

VARIABLES
    dropin, dir,    \* the drop-in and its directory exist
    loaded,         \* systemd has loaded the drop-in
    process,        \* the service: down, open, sandboxed
    fits,           \* the service works in the sandbox
    contract,       \* the unit, its paths and the release are as reviewed
    run, outcome, trouble

host == <<dropin, dir, loaded, process>>
vars == <<host, fits, contract, run, outcome, trouble>>

Idle == [op |-> "idle", phase |-> "main", i |-> 1, madeDir |-> FALSE]

(* apply_hardening from ensure_dropin_directory on. *)
Applying == << <<"mkdir">>, <<"link">>, <<"load">>, <<"restart">>, <<"runtime", TRUE>> >>

(* A matching drop-in is there: nothing is restarted.                        *)
Rechecking == << <<"runtime", TRUE>> >>

MutantForgetsReload == << <<"unlink">>, <<"restart">>, <<"runtime", FALSE>>, <<"rmdir">> >>

(* rollback_original_service *)
Undoing == << <<"unlink">>, <<"load">>, <<"restart">>, <<"runtime", FALSE>>, <<"rmdir">> >>

Program ==
    CASE run.phase = "main"    -> Applying
      [] run.phase = "recheck" -> Rechecking
      [] run.phase = "undo"    -> Undoing

Busy    == run.op # "idle"
Command == Program[run.i]
Verb    == Command[1]

-----------------------------------------------------------------------------
(* verify_legacy_runtime: the unit, its listener on loopback, its health.     *)
Serves == process # "down" /\ contract

(* verify_effective_hardening asks systemd for the properties of the unit.    *)
SaysSandboxed == loaded

RuntimePasses(hardened) == Serves /\ (hardened => SaysSandboxed)

(* systemctl restart: the process gets what is loaded.                       *)
Restarted(l) == IF ~l THEN "open" ELSE IF fits THEN "sandboxed" ELSE "down"

Acts ==
    /\ dropin'  = CASE Verb = "link" -> TRUE [] Verb = "unlink" -> FALSE [] OTHER -> dropin
    /\ dir'     = CASE Verb = "mkdir" -> TRUE [] Verb = "rmdir" -> dir /\ ~run.madeDir [] OTHER -> dir
    /\ loaded'  = IF Verb = "load" THEN dropin ELSE loaded
    /\ process' = IF Verb = "restart" THEN Restarted(loaded) ELSE process

Reports(end) == run' = Idle /\ outcome' = end
Enters(phase) == run' = [run EXCEPT !.phase = phase, !.i = 1] /\ UNCHANGED outcome

Goes ==
    IF run.i < Len(Program)
    THEN run' = [run EXCEPT !.i = @ + 1, !.madeDir = IF Verb = "mkdir" THEN ~dir ELSE @] /\ UNCHANGED outcome
    ELSE Reports(CASE run.phase = "main" -> "hardened" [] run.phase = "recheck" -> "already"
                   [] run.phase = "undo" -> "restored")

(* Where a failure leads. The undo starts when the drop-in is known to be the *)
(* run's own: not when a signal comes between the link and the assignment.    *)
Fails ==
    CASE run.phase = "main" /\ Verb \in {"load", "restart", "runtime"} -> Enters("undo")
      [] run.phase = "undo" /\ Verb = "rmdir" -> Reports("restored")
      [] OTHER -> Reports("failed")

-----------------------------------------------------------------------------
(* main and the first wait_for_runtime. *)
Applies ==
    /\ ~Busy
    /\ RuntimePasses(FALSE)
    /\ run' = [Idle EXCEPT !.op = "apply"]
    /\ outcome' = "running"
    /\ UNCHANGED <<host, fits, contract, trouble>>

(* verify_hardened_service, at once. *)
VerifiesService ==
    /\ ~Busy
    /\ dropin /\ RuntimePasses(TRUE)
    /\ outcome' = "already"
    /\ UNCHANGED <<host, fits, contract, run, trouble>>

Changes ==
    /\ Busy /\ Verb # "runtime"
    /\ IF Verb = "link" /\ dropin THEN Enters("recheck") /\ UNCHANGED host
       ELSE IF Verb = "restart" /\ ~contract THEN Fails /\ UNCHANGED host
       ELSE Acts /\ Goes
    /\ UNCHANGED <<fits, contract, trouble>>

(* wait_for_runtime *)
Waits ==
    /\ Busy /\ Verb = "runtime"
    /\ IF RuntimePasses(Command[2]) THEN Goes ELSE Fails
    /\ UNCHANGED <<host, fits, contract, trouble>>

Trouble == trouble < MaxTrouble /\ trouble' = trouble + 1

CommandFails ==
    /\ Trouble
    /\ Busy /\ Verb # "runtime"
    /\ \/ Acts /\ Fails
       \/ UNCHANGED <<dropin, loaded, process>> /\ Fails
          /\ dir' \in {dir, IF Verb = "link" /\ ~dropin THEN dir /\ ~run.madeDir ELSE dir}
       \/ Verb = "link" /\ ~dropin /\ Acts /\ Enters("undo")
    /\ UNCHANGED <<fits, contract>>

Killed ==
    /\ Trouble
    /\ Busy
    /\ Reports("cut")
    /\ UNCHANGED <<host, fits, contract>>

Reboots ==
    /\ Trouble
    /\ Reports("cut")
    /\ loaded' = dropin
    /\ process' = Restarted(dropin)
    /\ UNCHANGED <<dropin, dir, fits, contract>>

Disturbed ==
    /\ Trouble
    /\ \/ contract' = ~contract /\ UNCHANGED process
       \/ process' = "down" /\ UNCHANGED contract
    /\ UNCHANGED <<dropin, dir, loaded, fits, run, outcome>>

Init ==
    /\ dropin = FALSE /\ dir \in BOOLEAN
    /\ loaded = FALSE /\ process = "open"
    /\ fits \in BOOLEAN /\ contract = TRUE
    /\ run = Idle
    /\ outcome = "none"
    /\ trouble = 0

Next ==
    \/ Applies \/ VerifiesService \/ Changes \/ Waits
    \/ CommandFails \/ Killed \/ Reboots \/ Disturbed

Spec == Init /\ [][Next]_vars

-----------------------------------------------------------------------------
TypeOK ==
    /\ dropin \in BOOLEAN /\ dir \in BOOLEAN /\ loaded \in BOOLEAN /\ contract \in BOOLEAN
    /\ process \in {"down", "open", "sandboxed"}
    /\ Busy => run.i \in 1..Len(Program)

(* A run that hardened the service left its process in the sandbox; a run     *)
(* that restored it left nothing of the sandbox, on disk, loaded or running.  *)
SyncServiceReportIsTrue ==
    process # "down" =>
        /\ outcome = "hardened" => (dropin /\ loaded /\ process = "sandboxed")
        /\ outcome = "restored" => (~dropin /\ ~loaded /\ process = "open")
=============================================================================
