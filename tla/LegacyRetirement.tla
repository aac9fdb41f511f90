--------------------------- MODULE LegacyRetirement ---------------------------
(***************************************************************************)
(* deploy/retire-legacy-data.py next to deploy/traffic-canary.py: the      *)
(* identities of the legacy data are recorded while it is in use, and the  *)
(* three directories are removed, each noted in the record, when the       *)
(* migrated target serves and the legacy containers are gone.  The record  *)
(* lies in /run.  The operator confirms at a prompt that may wait for long.*)
(***************************************************************************)
EXTENDS Naturals, Sequences

CONSTANTS
    MaxTrouble,     \* bound on failures, kills, reboots and disturbances
    MaxMade,        \* bound on directories made anew
    NoRecord, NoDir

VARIABLES
    legacy, target, sound, cache, run, outcome, trouble,    \* as in TrafficCanary
    dirs,           \* component -> the directory at its path, no two have one number
    stat,           \* component -> its device, inode, owner and mode
    whole,          \* component -> nothing in it was removed
    upstream,       \* the port of the active Nginx upstream
    logsClean,      \* historical logs are cleaned
    record,         \* legacy-data-retirement.json
    retire,         \* the retirement, if one runs: where it is, its copy of the record,
                    \* and what was made when it checked an identity (history)
    made            \* the number of the directory that was made last

T == INSTANCE TrafficCanary

canary == <<legacy, target, sound, cache, run, outcome>>
paths  == <<dirs, stat, whole, made>>
vars   == <<canary, trouble, paths, upstream, logsClean, record, retire>>

DELETE_ORDER == <<"postgres", "redis", "app">>
Components == T!Components

(* The hosting filesystem of each directory: two share one.                  *)
Filesystem(c) == IF c = "redis" THEN "second" ELSE "first"
Filesystems == {Filesystem(c) : c \in Components}

(* legacy-data-retirement.json has the identity of each directory; which       *)
(* directory it was (dir) is history, no program can tell.                   *)
Journals ==
    [status : {"recorded", "retiring", "complete"},
     dir : [Components -> Nat], stat : [Components -> Nat],
     retired : SUBSET Components, trimmed : SUBSET Filesystems, cleaned : BOOLEAN]

At(place, rec) == [at |-> place, copy |-> rec, since |-> 0]
Resting == At("idle", NoRecord)
Active  == retire.at # "idle"

-----------------------------------------------------------------------------
LegacyGone == \A c \in Components : legacy[c] = "absent"

(* require_directory_identity, the nested mounts and the filesystem with it.  *)
SameDirectory(c, rec) == dirs[c] # NoDir /\ stat[c] = rec.stat[c]

(* create_record: the legacy stack runs behind the stable upstream.          *)
Records ==
    /\ ~Active
    /\ record = NoRecord
    /\ \A c \in Components : dirs[c] # NoDir
    /\ upstream = 8080 /\ T!LegacyIdentified /\ T!ReleaseKept
    /\ record' = [status |-> "recorded", dir |-> dirs, stat |-> stat,
                   retired |-> {}, trimmed |-> {}, cleaned |-> FALSE]
    /\ UNCHANGED <<canary, trouble, paths, upstream, logsClean, retire>>

(* verify_recorded_identity, which the cutover asks before it stops writers.  *)
RecordVerified ==
    /\ record # NoRecord
    /\ record.status = "recorded" /\ record.retired = {}
    /\ upstream = 8080 /\ T!LegacyIdentified
    /\ \A c \in Components : SameDirectory(c, record)

(* The gates on the live system. *)
Gates == upstream = 8081 /\ LegacyGone /\ T!TargetValid /\ T!Distinct /\ T!ReleaseKept

(* Logs are cleaned before the first directory, and its record kept after.   *)
LogsGate(rec) == logsClean /\ ("app" \in rec.retired => rec.cleaned)

PathsMatch(rec) ==
    \A c \in Components :
        IF c \in rec.retired THEN dirs[c] = NoDir ELSE SameDirectory(c, rec)

CanRetire(rec) == rec.status # "complete" /\ Gates /\ LogsGate(rec) /\ PathsMatch(rec)

Keeps(rec, at) == record' = rec /\ retire' = At(at, rec)

(* retire_recorded_data up to the prompt: that the logs are clean is saved    *)
(* before the directories are looked at.                                     *)
Asks ==
    /\ ~Active
    /\ record # NoRecord /\ record.status # "complete"
    /\ Gates /\ LogsGate(record)
    /\ LET rec == [record EXCEPT !.cleaned = TRUE]
       IN  /\ record' = rec
           /\ retire' = IF PathsMatch(rec) THEN At("prompt", rec) ELSE Resting
    /\ UNCHANGED <<canary, trouble, paths, upstream, logsClean>>

(* The next in DELETE_ORDER that is not retired. *)
Following(rec) ==
    DELETE_ORDER[CHOOSE i \in 1..3 : /\ DELETE_ORDER[i] \notin rec.retired
                                   /\ \A j \in 1..(i - 1) : DELETE_ORDER[j] \in rec.retired]
Then(rec) == IF rec.retired = Components THEN "trim" ELSE "delete"

Confirms ==
    /\ retire.at = "prompt"
    /\ Keeps([retire.copy EXCEPT !.status = "retiring"], Then(retire.copy))
    /\ UNCHANGED <<canary, trouble, paths, upstream, logsClean>>

Component == Following(retire.copy)

MutantVerified(c) == TRUE

(* delete_exact_directory: the directory opened is the recorded one.          *)
Verified(c) == SameDirectory(c, retire.copy)

(* Its descriptor is closed, and what is removed is what the name stands for   *)
(* then: shutil.rmtree opens it again, removes what is in it, and removes    *)
(* the name, by then of this directory or of another that is empty.          *)
Checks ==
    /\ retire.at = "delete"
    /\ Verified(Component)
    /\ retire' = [retire EXCEPT !.at = "remove", !.since = made]
    /\ UNCHANGED <<canary, trouble, paths, upstream, logsClean, record>>

Empties ==
    /\ retire.at = "remove"
    /\ whole' = [whole EXCEPT ![Component] = FALSE]
    /\ retire' = [retire EXCEPT !.at = "rmdir"]
    /\ UNCHANGED <<canary, trouble, dirs, stat, made, upstream, logsClean, record>>

Deletes ==
    /\ retire.at = "rmdir"
    /\ dirs' = [dirs EXCEPT ![Component] = NoDir]
    /\ retire' = [retire EXCEPT !.at = "note"]
    /\ UNCHANGED <<canary, trouble, stat, whole, made, upstream, logsClean, record>>

Notes ==
    /\ retire.at = "note"
    /\ LET rec == [retire.copy EXCEPT !.retired = @ \cup {Component}] IN Keeps(rec, Then(rec))
    /\ UNCHANGED <<canary, trouble, paths, upstream, logsClean>>

MutantTrims ==
    /\ retire.at \in {"trim", "note"}
    /\ \E f \in Filesystems \ retire.copy.trimmed :
          Keeps([retire.copy EXCEPT !.trimmed = @ \cup {f}], retire.at)
    /\ UNCHANGED <<canary, trouble, paths, upstream, logsClean>>

(* trim_filesystem, once for each.                                           *)
Trims ==
    /\ retire.at = "trim"
    /\ \E f \in Filesystems \ retire.copy.trimmed :
          Keeps([retire.copy EXCEPT !.trimmed = @ \cup {f}], "trim")
    /\ UNCHANGED <<canary, trouble, paths, upstream, logsClean>>

Completes ==
    /\ retire.at = "trim" /\ retire.copy.trimmed = Filesystems
    /\ record' = [retire.copy EXCEPT !.status = "complete"]
    /\ retire' = Resting
    /\ UNCHANGED <<canary, trouble, paths, upstream, logsClean>>

-----------------------------------------------------------------------------
Trouble == trouble < MaxTrouble /\ trouble' = trouble + 1

(* A failed step, a refused prompt or a kill: nothing is undone.             *)
Stops ==
    /\ Trouble
    /\ Active
    /\ retire' = Resting
    /\ UNCHANGED <<canary, paths, upstream, logsClean, record>>

(* The directory to remove is not the recorded one any more, another that is   *)
(* not empty has its name when it is to be removed, or one is there after.   *)
Refuses ==
    /\ \/ retire.at = "delete" /\ ~Verified(Component)
       \/ retire.at = "rmdir" /\ whole[Component]
       \/ retire.at = "note" /\ dirs[Component] # NoDir
    /\ retire' = Resting
    /\ UNCHANGED <<canary, trouble, paths, upstream, logsClean, record>>

Reboots ==
    /\ Trouble
    /\ record' = NoRecord
    /\ retire' = Resting
    /\ run' = T!Idle /\ outcome' = "cut"
    /\ UNCHANGED <<legacy, target, sound, cache, paths, upstream, logsClean>>

(* The operator switches the upstream, cleans the logs, or makes a directory *)
(* anew where one was.                                                       *)
OperatorActs ==
    /\ \/ \E u \in {8080, 8081} : u # upstream /\ upstream' = u /\ UNCHANGED <<logsClean, trouble>>
       \/ ~logsClean /\ logsClean' = TRUE /\ UNCHANGED <<upstream, trouble>>
    /\ UNCHANGED <<canary, paths, record, retire>>

(* It may come by the identity of the one it replaces: inodes are used again. *)
Remakes ==
    /\ Trouble
    /\ made < MaxMade
    /\ made' = made + 1
    /\ \E c \in Components : \E id \in 0..made' :
          /\ dirs' = [dirs EXCEPT ![c] = made']
          /\ stat' = [stat EXCEPT ![c] = id]
          /\ whole' = [whole EXCEPT ![c] = TRUE]
    /\ UNCHANGED <<canary, upstream, logsClean, record, retire>>

CanaryMoves == T!Next /\ UNCHANGED <<paths, upstream, logsClean, record, retire>>

(* Removing the stopped legacy containers is the operator's next step, no    *)
(* trouble.                                                                  *)
LegacyRemoved ==
    /\ upstream = 8081
    /\ legacy' = [c \in Components |-> "absent"]
    /\ UNCHANGED <<target, sound, cache, run, outcome, trouble, paths, upstream, logsClean, record, retire>>

Init ==
    /\ T!Init
    /\ dirs = [c \in Components |-> 0] /\ stat = dirs
    /\ whole = [c \in Components |-> TRUE]
    /\ upstream = 8080
    /\ logsClean = FALSE
    /\ record = NoRecord
    /\ retire = Resting
    /\ made = 0

Next ==
    \/ Records \/ Asks \/ Confirms \/ Checks \/ Empties \/ Deletes \/ Notes \/ Trims
    \/ Completes \/ Stops \/ Refuses \/ Reboots \/ OperatorActs \/ Remakes \/ CanaryMoves \/ LegacyRemoved

Spec == Init /\ [][Next]_vars

-----------------------------------------------------------------------------
TypeOK ==
    /\ T!TypeOK
    /\ made \in Nat /\ dirs \in [Components -> 0..made \cup {NoDir}]
    /\ stat \in [Components -> Nat] /\ whole \in [Components -> BOOLEAN]
    /\ record \in Journals \cup {NoRecord}
    /\ record # NoRecord => record.dir \in [Components -> 0..made]
    /\ retire \in [at : {"idle", "prompt", "delete", "remove", "rmdir", "note", "trim"},
                   copy : Journals \cup {NoRecord}, since : 0..made]

(* At a path is the recorded identity, or what was made after it was checked.  *)
MayGo(c) == stat[c] = record.stat[c] \/ dirs[c] > retire.since

Removing == retire.at \in {"remove", "rmdir"}

(* The retirement that runs has the record as it is, and what led it where it *)
(* is still holds of it, a directory made anew or not.                       *)
KnowsRecord ==
    /\ Active => record # NoRecord /\ retire.copy = record /\ record.cleaned
    /\ retire.at \in {"delete", "remove", "rmdir", "note", "trim"} => record.status = "retiring"
    /\ retire.at \in {"delete", "remove", "rmdir", "note"} => record.retired # Components
    /\ Removing => dirs[Component] # NoDir /\ MayGo(Component)
    /\ retire.at = "note" => dirs[Component] # record.dir[Component]
    /\ retire.at = "trim" => record.retired = Components

(* A directory, or what is in it, is removed by a retirement that was          *)
(* confirmed after its gates, for a component not yet retired, and only if   *)
(* its identity is the recorded one.  So what was made in its place while    *)
(* the prompt waited stays.  The code cannot spare what got the same         *)
(* identity, nor what was made after the identity was checked.               *)
Loses(c) ==
    /\ dirs[c] # NoDir
    /\ dirs'[c] = NoDir \/ (dirs'[c] = dirs[c] /\ whole[c] /\ ~whole'[c])
RemovesRecorded ==
    \A c \in Components :
        Loses(c) =>
            /\ record # NoRecord /\ record.status = "retiring" /\ record.cleaned
            /\ c \notin record.retired
            /\ Removing /\ MayGo(c)
OnlyRecordedRemoved == [][RemovesRecorded]_vars

(* Of what the record says was retired, the directory that was recorded is     *)
(* gone, and a filesystem is trimmed only when every one it held is gone: a   *)
(* complete record is a true one.                                            *)
ProgressIsTrue ==
    record # NoRecord =>
        /\ \A c \in record.retired : dirs[c] # record.dir[c]
        /\ \A c \in Components : Filesystem(c) \in record.trimmed => c \in record.retired
        /\ record.status = "complete" =>
              record.retired = Components /\ record.trimmed = Filesystems /\ record.cleaned
=============================================================================
