----------------------------- MODULE NginxDirect -----------------------------
(***************************************************************************)
(* deploy/install-nginx-direct-v1.py: four files of Nginx's configuration  *)
(* are replaced, tested, loaded and tried with a request; when that fails  *)
(* all four are put back from the controller's memory and loaded again.    *)
(* The copies in the backup directory are for the operator alone.          *)
(***************************************************************************)
EXTENDS Naturals, Sequences

CONSTANT MaxTrouble     \* bound on failures, kills, reboots and disturbances

VARIABLES
    disk,       \* FILES -> what is on disk
    live,       \* what the running Nginx has loaded, or Down
    sound,      \* the rest of the configuration, the release, the service
    run, outcome, trouble

vars == <<disk, live, sound, run, outcome, trouble>>

FILES == {"site", "map", "stable", "sync"}
Contracts == {"release", "config", "service"}

(* The files as they were and as they are written; a file may be absent.      *)
New  == [f \in FILES |-> "new"]
Down == [f \in FILES |-> "down"]
Idle == [op |-> "idle", phase |-> "main", i |-> 1, original |-> New, changed |-> {}]

(* run_locked_cutover, its try block. *)
Switching ==
    << <<"write", "site">>, <<"write", "map">>, <<"write", "stable">>, <<"write", "sync">>,
       <<"capture">>, <<"test">>, <<"reload">>, <<"canary">> >>

MutantRestoresSite == << <<"back", "site">>, <<"test">>, <<"reload">> >>

(* Its except block. *)
Restoring ==
    << <<"back", "site">>, <<"back", "map">>, <<"back", "stable">>, <<"back", "sync">>,
       <<"test">>, <<"reload">> >>

Program == IF run.phase = "main" THEN Switching ELSE Restoring
Busy    == run.op # "idle"
Command == Program[run.i]
Verb    == Command[1]

-----------------------------------------------------------------------------
(* rewrite_direct_v1: the site's /v1 uses the Upgrade map.                    *)
Valid(d) == (d["site"] = "new" => d["map"] # "absent") /\ "config" \in sound

(* verify_no_capture_config *)
CaptureFree == disk["site"] = "new" /\ "config" \in sound

(* local_healthcheck *)
Healthy == "service" \in sound

CanaryPasses == live # Down /\ live["site"] = "new" /\ Healthy

Passes ==
    CASE Verb = "capture" -> CaptureFree
      [] Verb = "test"    -> Valid(disk)
      [] Verb = "reload"  -> Valid(disk) /\ live # Down
      [] Verb = "canary"  -> CanaryPasses
      [] OTHER            -> TRUE

(* atomic_write, unlink, and systemctl reload.                               *)
Acts ==
    /\ disk' = CASE Verb = "write" -> [disk EXCEPT ![Command[2]] = "new"]
                 [] Verb = "back"  -> [disk EXCEPT ![Command[2]] = run.original[Command[2]]]
                 [] OTHER          -> disk
    /\ live' = IF Verb = "reload" THEN disk ELSE live

Reports(end) == run' = Idle /\ outcome' = [end |-> end, original |-> run.original]

Goes ==
    IF run.i < Len(Program)
    THEN /\ run' = [run EXCEPT !.i = @ + 1,
                               !.changed = IF Verb = "write" THEN @ \cup {Command[2]} ELSE @]
         /\ UNCHANGED outcome
    ELSE Reports(IF run.phase = "main" THEN "switched" ELSE "restored")

(* A file is known as changed when its write returned.                       *)
Fails ==
    IF run.phase = "undo" THEN Reports("unconfirmed")
    ELSE IF run.changed = {} THEN Reports("failed")
    ELSE run' = [run EXCEPT !.phase = "undo", !.i = 1] /\ UNCHANGED outcome

-----------------------------------------------------------------------------
(* install_cutover and run_locked_cutover up to the backups.                 *)
Admits ==
    /\ "release" \in sound /\ Healthy
    /\ disk["stable"] \in {"new", "absent"}

Applies ==
    /\ ~Busy
    /\ Admits
    /\ run' = [Idle EXCEPT !.op = "apply", !.original = disk]
    /\ outcome' = [end |-> "running", original |-> disk]
    /\ UNCHANGED <<disk, live, sound, trouble>>

Changes ==
    /\ Busy
    /\ IF Passes THEN Acts /\ Goes ELSE Fails /\ UNCHANGED <<disk, live>>
    /\ UNCHANGED <<sound, trouble>>

Trouble == trouble < MaxTrouble /\ trouble' = trouble + 1

CommandFails ==
    /\ Trouble
    /\ Busy
    /\ \/ Passes /\ Acts
       \/ UNCHANGED <<disk, live>>
    /\ Fails
    /\ UNCHANGED sound

Killed ==
    /\ Trouble
    /\ Busy
    /\ Reports("cut")
    /\ UNCHANGED <<disk, live, sound>>

Reboots ==
    /\ Trouble
    /\ Reports("cut")
    /\ live' = IF Valid(disk) THEN disk ELSE Down
    /\ UNCHANGED <<disk, sound>>

Disturbed ==
    /\ Trouble
    /\ \E c \in Contracts : sound' = (sound \ {c}) \cup ({c} \ sound)
    /\ UNCHANGED <<disk, live, run, outcome>>

(* Another program reloads Nginx, a certificate's renewal for one.            *)
OthersReload ==
    /\ Trouble
    /\ Valid(disk) /\ live # Down
    /\ live' = disk
    /\ UNCHANGED <<disk, sound, run, outcome>>

Init ==
    /\ disk \in [FILES -> {"old", "absent", "new"}]
    /\ disk["site"] = "old" /\ disk["stable"] # "old" /\ disk["map"] # "new" /\ disk["sync"] # "new"
    /\ live = disk
    /\ sound = Contracts
    /\ run = Idle
    /\ outcome = [end |-> "none", original |-> disk]
    /\ trouble = 0

Next ==
    \/ Applies \/ Changes
    \/ CommandFails \/ Killed \/ Reboots \/ Disturbed \/ OthersReload

Spec == Init /\ [][Next]_vars

-----------------------------------------------------------------------------
TypeOK ==
    /\ disk \in [FILES -> {"old", "absent", "new"}]
    /\ sound \subseteq Contracts
    /\ Busy => run.i \in 1..Len(Program)

(* A run that says it switched has Nginx run the four new files, one that     *)
(* says the previous configuration was restored has it run those of before.   *)
NginxReportIsTrue ==
    live # Down =>
        /\ outcome.end = "switched" => (disk = New /\ live = New)
        /\ outcome.end = "restored" => (disk = outcome.original /\ live = outcome.original)

(* While the switch runs Nginx runs what was loaded, all that is written or   *)
(* all of before, never a half of each: unless another program loads it.      *)
LoadsWhole == (Busy /\ live' # live /\ trouble' = trouble) => live' \in {New, run.original}
NeverHalfLoaded == [][LoadsWhole]_vars
=============================================================================
