----------------------------- MODULE SyncCanary -----------------------------
(***************************************************************************)
(* deploy/sync-canary.py: the provisioning-sync service moves from the     *)
(* legacy container to a stable one behind the loopback port 3021, by way  *)
(* of a canary on 3022.  A relay (a systemd unit) binds the port and       *)
(* forwards to its container; of two active relays one has the port.       *)
(*                                                                         *)
(* An operation is a program: a sequence of commands, interpreted one at a *)
(* time, and a second program for the case that one of them fails.  Nothing*)
(* is written down between the commands, so a kill or a reboot leaves what *)
(* was done.  A command may fail with or without its effect; the first     *)
(* SIGINT, SIGTERM or SIGHUP is such a failure, a later one is deferred.   *)
(***************************************************************************)
EXTENDS Naturals, Sequences

CONSTANTS
    MaxTrouble,     \* bound on failures, kills and reboots
    MaxBuilds,      \* bound on image builds
    MaxCommits,     \* bound on commits to the release tree
    NoNote

VARIABLES
    unit,           \* relay -> active, enabled
    box,            \* relay -> its container: state and image
    bound,          \* the relay that has port 3021
    head,           \* the release tree: commit, and version of the image's inputs
    tag,            \* the image the release tag names
    note,           \* /run/sub2api-gate/sync-image.json
    kept,           \* the contracts that hold: release files, settings, live services
    run,            \* the controller
    outcome,        \* what the last operation reported
    passed,         \* history: this operation passed over a failed command
    trouble, builds

host   == <<unit, box, bound>>
image  == <<head, tag, note, builds>>
vars   == <<host, image, kept, run, outcome, passed, trouble>>

Relays == {"legacy", "canary", "stable"}
Stable == {"legacy", "stable"}              \* the relays of port 3021
Contracts == {"release", "private", "storage", "runtime", "role", "nonce"}
NoImage == <<0, 0>>                         \* an image: build number, inputs version
Idle == [op |-> "idle", phase |-> "main", i |-> 1, want |-> NoImage, at |-> 0]

(* start_canary after its checks. *)
Starting ==
    << <<"up", "canary">>, <<"wait", "canary">>, <<"start", "canary">>,
       <<"require", "canary", TRUE, FALSE>>, <<"nonce">>, <<"answers", 3022>> >>
StoppingCanary == << <<"stop", "canary">>, <<"halt", "canary">> >>

MutantEnablesBeforeProof ==
    << <<"stop", "legacy">>, <<"require", "legacy", FALSE, TRUE>>, <<"free">>,
       <<"halt", "legacy">>, <<"disable", "legacy">>, <<"up", "stable">>, <<"wait", "stable">>,
       <<"start", "stable">>, <<"require", "stable", TRUE, FALSE>>, <<"answers", 3021>>,
       <<"enable", "stable">>, <<"require", "stable", TRUE, TRUE>>,
       <<"stop", "canary">>, <<"require", "canary", FALSE, FALSE>>, <<"halt", "canary">>,
       <<"halted">>, <<"require", "legacy", FALSE, FALSE>> >>

(* promote after its checks. *)
Promoting ==
    << <<"stop", "legacy">>, <<"require", "legacy", FALSE, TRUE>>, <<"free">>,
       <<"up", "stable">>, <<"wait", "stable">>,
       <<"start", "stable">>, <<"require", "stable", TRUE, FALSE>>, <<"answers", 3021>>,
       <<"enable", "stable">>, <<"require", "stable", TRUE, TRUE>>,
       <<"stop", "canary">>, <<"require", "canary", FALSE, FALSE>>, <<"halt", "canary">>,
       <<"halt", "legacy">>, <<"halted">>, <<"disable", "legacy">>,
       <<"require", "legacy", FALSE, FALSE>> >>

MutantLeavesStopped ==
    << <<"stop", "stable">>, <<"disable", "stable">>, <<"require", "stable", FALSE, FALSE>>,
       <<"free">>, <<"halt", "stable">>, <<"enable", "legacy">>, <<"start", "legacy">>,
       <<"require", "legacy", TRUE, TRUE>> >>

(* recover_legacy. *)
RecoveringLegacy ==
    << <<"stop", "stable">>, <<"disable", "stable">>, <<"require", "stable", FALSE, FALSE>>,
       <<"free">>, <<"halt", "stable">>, <<"revive">>, <<"enable", "legacy">>,
       <<"start", "legacy">>, <<"require", "legacy", TRUE, TRUE>>, <<"answers", 3021>> >>

(* rollback after its checks, and what it does when a command fails. *)
RollingBack ==
    << <<"stop", "stable">>, <<"disable", "stable">>, <<"require", "stable", FALSE, FALSE>>,
       <<"free">>, <<"halt", "stable">>, <<"revive">>, <<"enable", "legacy">>,
       <<"start", "legacy">>, <<"require", "legacy", TRUE, TRUE>>, <<"answers", 3021>> >>
RestoringStable ==
    << <<"stop", "legacy">>, <<"disable", "legacy">>, <<"halt", "legacy">>,
       <<"up", "stable">>, <<"wait", "stable">>, <<"start", "stable">>, <<"enable", "stable">>,
       <<"require", "stable", TRUE, TRUE>>, <<"answers", 3021>> >>

(* prepare_sync_image: the note is written last. *)
Preparing == << <<"build">>, <<"tag">>, <<"attest">>, <<"write">> >>

Program(op, phase) ==
    CASE op = "prepare"  -> IF phase = "main" THEN Preparing ELSE <<>>
      [] op = "start"    -> IF phase = "main" THEN Starting ELSE StoppingCanary
      [] op = "promote"  -> IF phase = "main" THEN Promoting ELSE RecoveringLegacy
      [] op = "rollback" -> IF phase = "main" THEN RollingBack ELSE RestoringStable

(* The commands whose failure `except CanaryError: pass` passes over.        *)
PassedOver ==
    run.phase = "undo" /\ (run.op = "start" \/ (run.op = "rollback" /\ run.i <= 3))

Busy    == run.op # "idle"
Command == Program(run.op, run.phase)[run.i]
Verb    == Command[1]

-----------------------------------------------------------------------------
(* What the checks look at. *)

RelayIs(u, active, enabled) == unit[u] = [active |-> active, enabled |-> enabled]
Runs(u, i)   == box[u] = [state |-> "up", image |-> i]
LegacyRuns   == box["legacy"].state = "up"
PortFree     == bound = "nobody"

(* wait_for_loopback: something accepts connections on the port.              *)
Reached(port) ==
    IF port = 3021 THEN bound # "nobody"
    ELSE unit["canary"].active /\ box["canary"].state = "up"

NonceKept == "nonce" \in kept

(* verify_signed_status: a signed request is answered, its replay refused.     *)
Answers(port) == Reached(port) /\ NonceKept

ReleaseKept == "release" \in kept
PrivateKept == "private" \in kept
StorageKept == "storage" \in kept
RuntimeKept == "runtime" \in kept
RoleKept    == "role" \in kept

HasNote     == note # NoNote
Attested(i) == tag = i
ComesUp(u)  == Runs(u, run.want)

(* require_prebuilt_sync_image: image and commit are those of the note.       *)
Prebuilt == HasNote /\ note.at.commit = head.commit /\ Attested(note.image)

Passes ==
    CASE Verb = "require" -> RelayIs(Command[2], Command[3], Command[4])
      [] Verb = "wait"    -> ComesUp(Command[2])
      [] Verb = "answers" -> Answers(Command[2])
      [] Verb = "free"    -> PortFree
      [] Verb = "halted"  -> ~LegacyRuns
      [] Verb = "nonce"   -> NonceKept
      [] Verb = "attest"  -> Attested(run.want)

Checks == {"require", "wait", "answers", "free", "halted", "nonce", "attest"}

-----------------------------------------------------------------------------
(* Effects of the commands. *)

(* Of the relays that are active and have a container one has the port.       *)
Takes(units, boxes) ==
    LET able == {u \in Stable : units[u].active /\ boxes[u].state = "up"}
    IN  IF bound \in able THEN {bound} ELSE IF able = {} THEN {"nobody"} ELSE able

Noted == [image |-> run.want, at |-> run.at]

Becomes(units, boxes) ==
    /\ unit' = units
    /\ box' = boxes
    /\ bound' \in Takes(units, boxes)

(* systemctl, docker compose up and stop, docker start and stop.  `up` makes   *)
(* the container anew when the tag names another image.                      *)
Acts ==
    /\ CASE Verb = "stop"    -> Becomes([unit EXCEPT ![Command[2]].active = FALSE], box)
         [] Verb = "start"   -> Becomes([unit EXCEPT ![Command[2]].active = TRUE], box)
         [] Verb = "disable" -> Becomes([unit EXCEPT ![Command[2]].enabled = FALSE], box)
         [] Verb = "enable"  -> Becomes([unit EXCEPT ![Command[2]].enabled = TRUE], box)
         [] Verb = "halt"    -> Becomes(unit, [box EXCEPT ![Command[2]].state =
                                                   IF @ = "up" THEN "stopped" ELSE @])
         [] Verb = "revive"  -> Becomes(unit, [box EXCEPT !["legacy"].state = "up"])
         [] Verb = "up"      -> Becomes(unit, [box EXCEPT ![Command[2]] =
                                                   [state |-> "up", image |-> tag]])
         [] OTHER            -> UNCHANGED host
    /\ tag'    = IF Verb = "tag" THEN run.want ELSE tag
    /\ note'   = IF Verb = "write" THEN Noted ELSE note
    /\ builds' = IF Verb = "build" THEN builds + 1 ELSE builds
    /\ UNCHANGED <<head, kept>>

Built == IF Verb = "build" THEN <<builds + 1, head.inputs>> ELSE run.want

Reports(end) == run' = Idle /\ outcome' = [op |-> run.op, end |-> end]

Goes ==
    IF run.i < Len(Program(run.op, run.phase))
    THEN run' = [run EXCEPT !.i = @ + 1, !.want = Built] /\ UNCHANGED outcome
    ELSE Reports(IF run.phase = "main" THEN "done" ELSE "undone")

(* The except blocks. *)
Fails ==
    IF PassedOver
    THEN Goes /\ passed' = TRUE
    ELSE /\ UNCHANGED passed
         /\ IF run.phase = "main" /\ run.op # "prepare"
            THEN run' = [run EXCEPT !.phase = "undo", !.i = 1] /\ UNCHANGED outcome
            ELSE Reports("lost")

-----------------------------------------------------------------------------
(* What each operation requires before its first command.                     *)
AdmitsStart ==
    /\ RelayIs("legacy", TRUE, TRUE) /\ RelayIs("canary", FALSE, FALSE)
    /\ RelayIs("stable", FALSE, FALSE) /\ LegacyRuns /\ Answers(3021)

MutantAnyCanary ==
    /\ box["canary"].state = "up" /\ RelayIs("canary", TRUE, FALSE) /\ Answers(3022)
    /\ RelayIs("legacy", TRUE, TRUE) /\ RelayIs("stable", FALSE, FALSE) /\ LegacyRuns

AdmitsPromote ==
    /\ Runs("canary", tag) /\ RelayIs("canary", TRUE, FALSE) /\ Answers(3022)
    /\ RelayIs("legacy", TRUE, TRUE) /\ RelayIs("stable", FALSE, FALSE) /\ LegacyRuns

AdmitsRollback ==
    /\ Runs("stable", tag) /\ RelayIs("stable", TRUE, TRUE) /\ Answers(3021)
    /\ RelayIs("legacy", FALSE, FALSE) /\ RelayIs("canary", FALSE, FALSE) /\ ~LegacyRuns

Admits(op) ==
    /\ ReleaseKept /\ PrivateKept /\ StorageKept /\ Prebuilt
    /\ RuntimeKept /\ NonceKept /\ (op # "rollback" => RoleKept)
    /\ CASE op = "start" -> AdmitsStart
         [] op = "promote" -> AdmitsPromote
         [] op = "rollback" -> AdmitsRollback

Begins(op) ==
    /\ ~Busy
    /\ run' = [Idle EXCEPT !.op = op, !.want = tag, !.at = head]
    /\ outcome' = [op |-> op, end |-> "running"]
    /\ passed' = FALSE
    /\ UNCHANGED <<host, image, kept, trouble>>

Prepares == builds < MaxBuilds /\ ReleaseKept /\ Begins("prepare")
Operates == \E op \in {"start", "promote", "rollback"} : Admits(op) /\ Begins(op)

(* reattest_sync_image: the note moves to the present commit when no input    *)
(* of the image has changed and the stable service runs that image.          *)
Reattests ==
    /\ ~Busy /\ ReleaseKept /\ HasNote
    /\ note.at.commit <= head.commit /\ note.at.inputs = head.inputs
    /\ Attested(note.image) /\ Runs("stable", tag)
    /\ RelayIs("stable", TRUE, TRUE) /\ RelayIs("canary", FALSE, FALSE)
    /\ RelayIs("legacy", FALSE, FALSE) /\ ~LegacyRuns
    /\ note' = [note EXCEPT !.at = head]
    /\ UNCHANGED <<host, head, tag, builds, kept, run, outcome, passed, trouble>>

Changes ==
    /\ Busy /\ Verb \notin Checks
    /\ Acts
    /\ Goes
    /\ UNCHANGED <<passed, trouble>>

Verifies ==
    /\ Busy /\ Verb \in Checks
    /\ IF Passes THEN Goes /\ UNCHANGED passed ELSE Fails
    /\ UNCHANGED <<host, image, kept, trouble>>

-----------------------------------------------------------------------------
Trouble == trouble < MaxTrouble /\ trouble' = trouble + 1

(* A command fails, times out or is interrupted, before or after its effect. *)
CommandFails ==
    /\ Trouble
    /\ Busy
    /\ \/ Verb \notin Checks /\ Acts
       \/ UNCHANGED <<host, image, kept>>
    /\ Fails

Killed ==
    /\ Trouble
    /\ Busy
    /\ Reports("cut")
    /\ UNCHANGED <<host, image, kept, passed>>

(* /run is empty after a reboot, enabled units start, and so do the           *)
(* containers that nobody stopped.                                           *)
Reboots ==
    /\ Trouble
    /\ Reports("cut")
    /\ note' = NoNote
    /\ Becomes([u \in Relays |-> [unit[u] EXCEPT !.active = unit[u].enabled]], box)
    /\ UNCHANGED <<head, tag, builds, kept, passed>>

Disturbed ==
    /\ Trouble
    /\ \E c \in Contracts : kept' = (kept \ {c}) \cup ({c} \ kept)
    /\ UNCHANGED <<host, image, run, outcome, passed>>

(* A change of the inputs is never taken back by a later commit.             *)
Commits ==
    /\ head.commit < MaxCommits
    /\ \E d \in {0, 1} : head' = [commit |-> head.commit + 1, inputs |-> head.inputs + d]
    /\ UNCHANGED <<host, tag, note, builds, kept, run, outcome, passed, trouble>>

Init ==
    /\ unit = [u \in Relays |-> [active |-> u = "legacy", enabled |-> u = "legacy"]]
    /\ box = [u \in Relays |-> [state |-> IF u = "legacy" THEN "up" ELSE "absent",
                                image |-> NoImage]]
    /\ bound = "legacy"
    /\ head = [commit |-> 1, inputs |-> 1]
    /\ tag = NoImage /\ note = NoNote /\ builds = 0
    /\ kept = Contracts
    /\ run = Idle
    /\ outcome = [op |-> "none", end |-> "done"]
    /\ passed = FALSE
    /\ trouble = 0

Next ==
    \/ Prepares \/ Operates \/ Reattests \/ Changes \/ Verifies
    \/ CommandFails \/ Killed \/ Reboots \/ Disturbed \/ Commits

Spec == Init /\ [][Next]_vars

-----------------------------------------------------------------------------
(* Shape of the state.                                                       *)
TypeOK ==
    /\ unit \in [Relays -> [active : BOOLEAN, enabled : BOOLEAN]]
    /\ \A u \in Relays : box[u].state \in {"absent", "up", "stopped"}
    /\ bound \in Stable \cup {"nobody"}
    /\ kept \subseteq Contracts
    /\ Busy => run.i \in 1..Len(Program(run.op, run.phase))

ServedBy(u) == bound = u /\ RelayIs(u, TRUE, TRUE)

(* What an operation reports is what the host is: promoted and restored mean  *)
(* that the one relay serves the port and will after a reboot, and the other  *)
(* will not.                                                                 *)
ReportIsTrue ==
    ~Busy /\ ~passed =>
        CASE outcome \in {[op |-> "promote", end |-> "done"], [op |-> "rollback", end |-> "undone"]} ->
                ServedBy("stable") /\ RelayIs("legacy", FALSE, FALSE)
          [] outcome \in {[op |-> "promote", end |-> "undone"], [op |-> "rollback", end |-> "done"]} ->
                ServedBy("legacy") /\ RelayIs("stable", FALSE, FALSE)
          [] outcome = [op |-> "start", end |-> "undone"] ->
                ~unit["canary"].active /\ box["canary"].state # "up"
          [] OTHER -> TRUE

WouldServe(u) == unit[u].enabled /\ box[u].state = "up"

(* While an operation goes forward a reboot finds a relay that is enabled and *)
(* has its container: a promotion enables the stable relay only when it was   *)
(* proved, and gives the legacy one up only after that.                      *)
RebootServes ==
    (run.phase = "main" /\ run.op \in {"start", "promote"}) => \E u \in Stable : WouldServe(u)

(* The stable container is started from the image the canary was proved with, *)
(* built from the inputs of the commit that was current when it was admitted. *)
StartsWhatWasProved ==
    (box'["stable"] # box["stable"] /\ box'["stable"].state = "up" /\ run.op = "promote") =>
        /\ box'["stable"].image = box["canary"].image
        /\ box'["stable"].image[2] = run.at.inputs
PromotedWasProved == [][StartsWhatWasProved]_vars
=============================================================================
