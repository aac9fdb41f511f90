---------------------------- MODULE HardenRpcbind ----------------------------
(***************************************************************************)
(* deploy/harden-rpcbind.py: rpcbind's service and socket are disabled and *)
(* stopped, or put back as they were.  The state before is kept in /run as *)
(* long as the host is hardened.  The service is activated by the first    *)
(* connection to the socket, needs the socket, and is enabled with it.     *)
(***************************************************************************)
EXTENDS Naturals, Sequences

CONSTANTS
    MaxTrouble,     \* bound on failures, kills and reboots
    NoRecord

VARIABLES
    units,          \* TARGET_UNITS -> enabled, active
    busyPort,       \* another program has port 111
    evidence,       \* no NFS mount, no other dependency, no other RPC program
    record,         \* rpcbind-hardening-state.json
    prior,          \* history: the units when the last change began, or as a reboot
                    \* left them, since which nothing is noted
    run, outcome, trouble

vars == <<units, busyPort, evidence, record, prior, run, outcome, trouble>>

TARGET_UNITS == {"service", "socket"}
Idle == [op |-> "idle", phase |-> "main", i |-> 1, previous |-> NoRecord]

MutantNotesLast ==
    << <<"disable">>, <<"stop", "socket">>, <<"stop", "service">>, <<"note">>, <<"hardened">> >>

Applying ==
    << <<"note">>, <<"disable">>, <<"stop", "socket">>, <<"stop", "service">>, <<"hardened">> >>

(* A restore that fails hardens the host again.                              *)
Disabling == << <<"disable">>, <<"stop", "socket">>, <<"stop", "service">>, <<"hardened">> >>

(* restore_recorded_state, what the record says each unit was; then the       *)
(* record goes.                                                              *)
Recovering ==
    << <<"reenable", "service">>, <<"reenable", "socket">>,
       <<"restart", "service">>, <<"restart", "socket">>,
       <<"unstart", "service">>, <<"unstart", "socket">>,
       <<"reverted">>, <<"portlike">>, <<"forget">> >>

Program ==
    CASE run.op = "apply"   -> IF run.phase = "main" THEN Applying ELSE Recovering
      [] run.op = "restore" -> IF run.phase = "main" THEN Recovering ELSE Disabling

Busy    == run.op # "idle"
Command == Program[run.i]
Verb    == Command[1]

-----------------------------------------------------------------------------
PortBound == busyPort \/ units["socket"].active

(* read_rpcbind_state and _is_hardened *)
IsDisabled(e) == e \in {"disabled", "static"}
IsHardened ==
    /\ \A u \in TARGET_UNITS : IsDisabled(units[u].enabled) /\ ~units[u].active
    /\ ~PortBound

Passes ==
    CASE Verb = "hardened" -> IsHardened
      [] Verb = "reverted" -> units = run.previous.units
      [] Verb = "portlike" -> PortBound = run.previous.bound

Checks == {"hardened", "reverted", "portlike"}

Enabled(e) == e \in {"enabled", "enabled-runtime"}

(* systemctl enable and disable of the service do the same to the socket.    *)
Enable(us, u, e) ==
    [x \in TARGET_UNITS |->
        IF x = u \/ (u = "service" /\ us[x].enabled # "static")
        THEN [us[x] EXCEPT !.enabled = IF @ = "static" THEN @ ELSE e]
        ELSE us[x]]

Start(us, u) ==
    [x \in TARGET_UNITS |-> IF x = u \/ u = "service" THEN [us[x] EXCEPT !.active = TRUE] ELSE us[x]]
Stop(us, u) ==
    [x \in TARGET_UNITS |-> IF x = u \/ u = "socket" THEN [us[x] EXCEPT !.active = FALSE] ELSE us[x]]

(* _restore_enable_state; a static unit is left alone.                       *)
Reenable(u) ==
    LET was == run.previous.units[u].enabled
    IN  IF was = "static" THEN units ELSE Enable(units, u, was)

Noted == [units |-> run.previous.units, bound |-> run.previous.bound]

Acts ==
    /\ units' =
        CASE Verb = "disable" ->
                [u \in TARGET_UNITS |-> [units[u] EXCEPT !.enabled = IF Enabled(@) THEN "disabled" ELSE @]]
          [] Verb = "stop"     -> Stop(units, Command[2])
          [] Verb = "reenable" -> Reenable(Command[2])
          [] Verb = "restart"  -> IF run.previous.units[Command[2]].active
                                  THEN Start(units, Command[2]) ELSE units
          [] Verb = "unstart"  -> IF run.previous.units[Command[2]].active
                                  THEN units ELSE Stop(units, Command[2])
          [] OTHER             -> units
    /\ record' = CASE Verb = "note"   -> Noted
                   [] Verb = "forget" -> NoRecord
                   [] OTHER           -> record

Reports(end) == run' = Idle /\ outcome' = [op |-> run.op, end |-> end]

Goes ==
    IF run.i < Len(Program)
    THEN run' = [run EXCEPT !.i = @ + 1] /\ UNCHANGED outcome
    ELSE Reports(IF run.phase = "main" THEN "done" ELSE "undone")

MutantForgetsInside == run.op = "apply" /\ Verb = "note"

(* The record is written before the try of apply, and removed after the try  *)
(* of restore.                                                               *)
OutsideTry ==
    \/ run.op = "apply" /\ Verb = "note"
    \/ run.op = "restore" /\ Verb = "forget"

Fails ==
    IF run.phase = "undo" \/ OutsideTry THEN Reports("lost")
    ELSE run' = [run EXCEPT !.phase = "undo", !.i = 1] /\ UNCHANGED outcome

-----------------------------------------------------------------------------
Safe == evidence

(* apply_hardening; it does nothing where the host is hardened already.      *)
Applies ==
    /\ ~Busy
    /\ record = NoRecord /\ Safe /\ ~IsHardened
    /\ run' = [Idle EXCEPT !.op = "apply", !.previous = [units |-> units, bound |-> PortBound]]
    /\ prior' = units
    /\ outcome' = [op |-> "apply", end |-> "running"]
    /\ UNCHANGED <<units, busyPort, evidence, record, trouble>>

AdmitsRestore == record # NoRecord /\ IsHardened

Restores ==
    /\ ~Busy
    /\ AdmitsRestore
    /\ run' = [Idle EXCEPT !.op = "restore", !.previous = record]
    /\ outcome' = [op |-> "restore", end |-> "running"]
    /\ UNCHANGED <<units, busyPort, evidence, record, prior, trouble>>

Changes ==
    /\ Busy /\ Verb \notin Checks
    /\ Acts
    /\ Goes
    /\ UNCHANGED <<busyPort, evidence, prior, trouble>>

Verifies ==
    /\ Busy /\ Verb \in Checks
    /\ IF Passes THEN Goes ELSE Fails
    /\ UNCHANGED <<units, busyPort, evidence, record, prior, trouble>>

(* A client connects: the socket activates the service.                      *)
Connects ==
    /\ units["socket"].active
    /\ units' = [units EXCEPT !["service"].active = TRUE]
    /\ UNCHANGED <<busyPort, evidence, record, prior, run, outcome, trouble>>

Trouble == trouble < MaxTrouble /\ trouble' = trouble + 1

CommandFails ==
    /\ Trouble
    /\ Busy
    /\ \/ Verb \notin Checks /\ Acts
       \/ UNCHANGED <<units, record>>
    /\ Fails
    /\ UNCHANGED <<busyPort, evidence, prior>>

Killed ==
    /\ Trouble
    /\ Busy
    /\ Reports("cut")
    /\ UNCHANGED <<units, busyPort, evidence, record, prior>>

(* /run and the runtime enablement are gone, what is enabled starts.          *)
Reboots ==
    /\ Trouble
    /\ Reports("cut")
    /\ record' = NoRecord
    /\ units' =
        LET on(u) == units[u].enabled = "enabled"
        IN  [u \in TARGET_UNITS |->
               [enabled |-> IF units[u].enabled = "enabled-runtime" THEN "disabled" ELSE units[u].enabled,
                active  |-> on("service") \/ (u = "socket" /\ on("socket"))]]
    /\ prior' = units'
    /\ UNCHANGED <<busyPort, evidence>>

Disturbed ==
    /\ Trouble
    /\ \/ evidence' = ~evidence /\ UNCHANGED busyPort
       \/ busyPort' = ~busyPort /\ UNCHANGED evidence
    /\ UNCHANGED <<units, record, prior, run, outcome>>

Init ==
    /\ units \in [TARGET_UNITS -> [enabled : {"enabled", "enabled-runtime", "disabled", "static"},
                                   active : BOOLEAN]]
    /\ units["service"].active => units["socket"].active
    /\ busyPort = FALSE /\ evidence = TRUE
    /\ record = NoRecord
    /\ prior = units
    /\ run = Idle
    /\ outcome = [op |-> "none", end |-> "done"]
    /\ trouble = 0

Next ==
    \/ Applies \/ Restores \/ Changes \/ Verifies \/ Connects
    \/ CommandFails \/ Killed \/ Reboots \/ Disturbed

Spec == Init /\ [][Next]_vars

-----------------------------------------------------------------------------
(* The units as systemctl shows them, and as the record keeps them.          *)
UnitStates == [enabled : {"enabled", "enabled-runtime", "disabled", "static"}, active : BOOLEAN]
Notes      == [units : [TARGET_UNITS -> UnitStates], bound : BOOLEAN]

TypeOK ==
    /\ {units, prior} \subseteq [TARGET_UNITS -> UnitStates] /\ busyPort \in BOOLEAN
    /\ record \in Notes \cup {NoRecord}
    /\ run \in [op : {"idle", "apply", "restore"}, phase : {"main", "undo"}, i : Nat,
               previous : Notes \cup {NoRecord}]
    /\ Busy => run.i \in 1..Len(Program)

(* The units are what they were, the activation of the service aside.        *)
AsBefore ==
    /\ \A u \in TARGET_UNITS : units[u].enabled = prior[u].enabled
    /\ units["socket"].active = prior["socket"].active
    /\ prior["service"].active => units["service"].active

(* Hardened means disabled and stopped with the way back kept; restored means *)
(* as before, with nothing kept; a failed restore leaves the host hardened.   *)
RpcbindReportIsTrue ==
    (~Busy /\ ~busyPort) =>
        CASE outcome \in {[op |-> "apply", end |-> "done"], [op |-> "restore", end |-> "undone"]} ->
                IsHardened /\ record # NoRecord
          [] outcome \in {[op |-> "apply", end |-> "undone"], [op |-> "restore", end |-> "done"]} ->
                AsBefore /\ record = NoRecord
          [] OTHER -> TRUE

Place ==
    IF AsBefore THEN "before"
    ELSE IF \A u \in TARGET_UNITS : IsDisabled(units[u].enabled) /\ ~units[u].active THEN "after"
    ELSE "between"
Recorded == record # NoRecord /\ record.units = prior
=============================================================================
