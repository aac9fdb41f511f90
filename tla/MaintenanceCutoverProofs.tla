---------------------- MODULE MaintenanceCutoverProofs ----------------------
(* Theorems about the maintenance cutover, as OperatorTools runs it, for any  *)
(* bounds on runs and trouble.  CutInv says what holds before each step of    *)
(* execute and of rollback, so that wherever the controller is killed the     *)
(* host without a record is untouched or migrated.                            *)
EXTENDS OperatorTools, TLAPS

(* Of the cutover's behaviours every step is the cutover's.                   *)
LEMMA CutoverSteps ==
    ASSUME [Next]_vars
    PROVE  tool' = tool /\ (tool = "cutover" => [Cut!Next]_(Cut!vars))
BY DEF Next, Redises, Rpcbinds, Units, Directs, Aops, Retires, Canaries, Cutovers, vars,
       Cut!vars, Cut!target, Cut!nginx, Cut!past, Cut!bounds


CutPlaces ==
    {"idle", "caught"} \cup {Cut!Steps[k] : k \in 1..28} \cup {Cut!Undoing[k] : k \in 1..11}
CutErrors == {"pg", "redis", "app", "sync", "stable", "identity", "down", "nonce", "reset"}
CutRuns ==
    [pc : CutPlaces, targets : BOOLEAN, nonce : BOOLEAN, pins : [Cut!Pinned -> Cut!Ids \cup {0}],
     errors : SUBSET CutErrors]

CutTyped ==
    /\ s1 \in [Cut!Services -> {"up", "stopped", "fell"}]
    /\ s2 \in [Cut!Names -> Cut!Ids \cup {0}]
    /\ s6 \in {"stable", "canary"} /\ s7 \in {"stable", "canary"}
    /\ s8 \in Cut!Documents \cup {None} /\ (s8 # None => s8.targets)
    /\ run \in CutRuns

NoTargets == \A n \in Cut!Names : s2[n] = 0

(* The host, wherever the controller is: the target that serves is there, and *)
(* who may have to remove the nonce container knows of it.                   *)
CutHost ==
    /\ s7 = "canary" => \A n \in Cut!Names : s2[n] # 0
    /\ s10 => s4 \in {"partial", "copied"}
    /\ s8 # None /\ s2["nonce"] # 0 => s8.nonce
    /\ run.targets /\ s2["nonce"] # 0 => run.nonce

(* Without a record nothing was done, or everything.                         *)
CutTraceless ==
    s8 = None /\ ~s11 => Cut!Untouched \/ (run.pc = "idle" /\ Cut!Migrated)

(* What holds before the k-th step of execute. *)
ExecuteAt(k) ==
    /\ k <= 2 => ~run.targets /\ s8 = None
    /\ k = 2 => NoTargets
    /\ k \in 2..26 => s7 = "stable"
    /\ k >= 3 => run.targets /\ s8 # None
    /\ k >= 4 => s2["redis"] # 0
    /\ k >= 9 => run.nonce /\ s8.nonce
    /\ k >= 12 => s1["sync"] # "up"
    /\ k >= 13 => s1["app"] # "up"
    /\ k >= 15 => s4 = "copied" /\ ~s10
    /\ k >= 18 => s2["pg"] # 0
    /\ k >= 21 => ~s5
    /\ k >= 22 => s2["nonce"] # 0
    /\ k >= 23 => s2["app"] # 0
    /\ k >= 26 => s6 = "canary"
    /\ k >= 27 => s7 = "canary"

(* And before the k-th of rollback. *)
UndoneSoFar(k) ==
    /\ run.targets
    /\ k >= 2 => "pg" \in run.errors \/ s1["pg"] # "stopped"
    /\ k >= 3 => "redis" \in run.errors \/ s1["redis"] # "stopped"
    /\ k >= 4 => "app" \in run.errors \/ s1["app"] # "stopped"
    /\ k >= 5 => "sync" \in run.errors \/ s1["sync"] # "stopped"

RollbackAt(k) ==
    /\ UndoneSoFar(k)
    /\ k \in 6..10 => s6 = "stable"
    /\ k \in 7..10 => s7 = "stable"
    /\ k \in 9..10 => "down" \in run.errors \/ \A n \in Cut!Pinned : s2[n] = 0
    /\ k = 10 => "nonce" \in run.errors \/ s2["nonce"] = 0
    /\ k = 11 => run.errors # {} \/ (s6 = "stable" /\ s7 = "stable" /\ NoTargets /\ s4 = "empty")

CutPlace ==
    /\ \A k \in 1..28 : run.pc = Cut!Steps[k] => ExecuteAt(k)
    /\ \A k \in 1..11 : run.pc = Cut!Undoing[k] => RollbackAt(k)
    /\ run.pc = "caught" => run.targets \/ s8 = None

CutInv == CutTyped /\ CutHost /\ CutTraceless /\ CutPlace

(* Where each step stands in execute, and in rollback. *)
LEMMA StepOrder ==
    /\ DOMAIN Cut!Steps = 1..28
    /\ \A i, j \in 1..28 : Cut!Steps[i] = Cut!Steps[j] => i = j
    /\ \A i \in 1..28 : Cut!Steps[i] \notin {"idle", "caught", "pg", "redis", "app", "sync", "stable", "serve",
                                             "identify", "down", "downnonce", "reset", "finish"}
<1>1. DOMAIN Cut!Steps = 1..28
    BY DEF Cut!Steps
<1>2. \A i, j \in 1..28 : Cut!Steps[i] = Cut!Steps[j] => i = j
    BY DEF Cut!Steps
<1>3. \A i \in 1..28 : Cut!Steps[i] \notin {"idle", "caught", "pg", "redis", "app", "sync", "stable", "serve",
                                            "identify", "down", "downnonce", "reset", "finish"}
    BY DEF Cut!Steps
<1> QED BY <1>1, <1>2, <1>3

LEMMA UndoOrder ==
    /\ Cut!Undoing \in [1..11 -> {"pg", "redis", "app", "sync", "stable", "serve", "identify", "down", "downnonce",
                                  "reset", "finish"}]
    /\ \A i, j \in 1..11 : Cut!Undoing[i] = Cut!Undoing[j] => i = j
BY DEF Cut!Undoing

LEMMA StepNames ==
    /\ Cut!Steps[1] = "check" /\ Cut!Steps[2] = "mark" /\ Cut!Steps[3] = "up" /\ Cut!Steps[4] = "pinpg"
    /\ Cut!Steps[5] = "pinredis" /\ Cut!Steps[6] = "persist1" /\ Cut!Steps[7] = "acl"
    /\ Cut!Steps[8] = "marknonce" /\ Cut!Steps[9] = "upnonce" /\ Cut!Steps[10] = "ready"
    /\ Cut!Steps[11] = "stopsync" /\ Cut!Steps[12] = "stopapp" /\ Cut!Steps[13] = "quiet"
    /\ Cut!Steps[14] = "copy" /\ Cut!Steps[15] = "droppg" /\ Cut!Steps[16] = "persist2"
    /\ Cut!Steps[17] = "reup" /\ Cut!Steps[18] = "repin" /\ Cut!Steps[19] = "persist3"
    /\ Cut!Steps[20] = "dropnonce" /\ Cut!Steps[21] = "renonce" /\ Cut!Steps[22] = "upapp"
    /\ Cut!Steps[23] = "pinapp" /\ Cut!Steps[24] = "persist4" /\ Cut!Steps[25] = "switch"
    /\ Cut!Steps[26] = "reload" /\ Cut!Steps[27] = "canary" /\ Cut!Steps[28] = "clear"
BY DEF Cut!Steps

LEMMA UndoNames ==
    /\ Cut!Undoing[1] = "pg" /\ Cut!Undoing[2] = "redis" /\ Cut!Undoing[3] = "app" /\ Cut!Undoing[4] = "sync"
    /\ Cut!Undoing[5] = "stable" /\ Cut!Undoing[6] = "serve" /\ Cut!Undoing[7] = "identify"
    /\ Cut!Undoing[8] = "down" /\ Cut!Undoing[9] = "downnonce" /\ Cut!Undoing[10] = "reset"
    /\ Cut!Undoing[11] = "finish"
BY DEF Cut!Undoing

LEMMA StepAfter ==
    ASSUME NEW k \in 1..27, run.pc = Cut!Steps[k]
    PROVE  Cut!After(Cut!Steps) = Cut!Steps[k + 1]
<1>1. DOMAIN Cut!Steps = 1..28
    BY StepOrder
<1>2. \A i \in DOMAIN Cut!Steps : Cut!Steps[i] = run.pc <=> i = k
    BY <1>1, StepOrder
<1>3. (CHOOSE i \in DOMAIN Cut!Steps : Cut!Steps[i] = run.pc) = k
    BY <1>1, <1>2
<1> QED BY <1>3 DEF Cut!After

LEMMA UndoAfter ==
    ASSUME NEW k \in 1..10, run.pc = Cut!Undoing[k]
    PROVE  Cut!After(Cut!Undoing) = Cut!Undoing[k + 1]
<1>1. DOMAIN Cut!Undoing = 1..11
    BY UndoOrder
<1>2. \A i \in DOMAIN Cut!Undoing : Cut!Undoing[i] = run.pc <=> i = k
    BY <1>1, UndoOrder
<1>3. (CHOOSE i \in DOMAIN Cut!Undoing : Cut!Undoing[i] = run.pc) = k
    BY <1>1, <1>2
<1> QED BY <1>3 DEF Cut!After

(* The controller goes to one place. *)
LEMMA CutAdvances ==
    ASSUME NEW k \in 1..28, run'.pc = Cut!Steps[k], ExecuteAt(k)'
    PROVE  CutPlace'
<1>1. ASSUME NEW j \in 1..28, run'.pc = Cut!Steps[j]
      PROVE  ExecuteAt(j)'
    <2>1. j = k
        BY <1>1, StepOrder
    <2> QED BY <2>1
<1>2. \A j \in 1..11 : run'.pc # Cut!Undoing[j]
    BY StepOrder, UndoOrder
<1>3. run'.pc # "caught"
    BY StepOrder
<1> QED BY <1>1, <1>2, <1>3 DEF CutPlace

LEMMA CutRetreats ==
    ASSUME NEW k \in 1..11, run'.pc = Cut!Undoing[k], RollbackAt(k)'
    PROVE  CutPlace'
<1>1. ASSUME NEW j \in 1..11, run'.pc = Cut!Undoing[j]
      PROVE  RollbackAt(j)'
    <2>1. j = k
        BY <1>1, UndoOrder
    <2> QED BY <2>1
<1>2. \A j \in 1..28 : run'.pc # Cut!Steps[j]
    BY StepOrder, UndoOrder
<1>3. run'.pc # "caught"
    BY UndoOrder
<1> QED BY <1>1, <1>2, <1>3 DEF CutPlace

LEMMA CutLeaves ==
    ASSUME run'.pc \in {"idle", "caught"}, run'.pc = "caught" => run'.targets \/ s8' = None
    PROVE  CutPlace'
<1>1. \A j \in 1..28 : run'.pc # Cut!Steps[j]
    BY StepOrder
<1>2. \A j \in 1..11 : run'.pc # Cut!Undoing[j]
    BY UndoOrder
<1> QED BY <1>1, <1>2 DEF CutPlace

(* What a move of the controller leaves of its memory. *)
LEMMA CutMoves ==
    ASSUME run \in CutRuns, NEW p \in CutPlaces, run' = [run EXCEPT !.pc = p]
    PROVE  /\ run' \in CutRuns /\ run'.pc = p /\ run'.targets = run.targets /\ run'.nonce = run.nonce
           /\ run'.pins = run.pins /\ run'.errors = run.errors
<1>1. run' = [pc |-> p, targets |-> run.targets, nonce |-> run.nonce, pins |-> run.pins, errors |-> run.errors]
    BY DEF CutRuns
<1> QED BY <1>1 DEF CutRuns

LEMMA CutNotes ==
    ASSUME run \in CutRuns, NEW p \in CutPlaces, NEW e \in CutErrors,
           run' = [run EXCEPT !.pc = p, !.errors = @ \cup {e}]
    PROVE  /\ run' \in CutRuns /\ run'.pc = p /\ run'.targets = run.targets /\ run'.nonce = run.nonce
           /\ run'.pins = run.pins /\ run'.errors = run.errors \cup {e}
<1>1. run' = [pc |-> p, targets |-> run.targets, nonce |-> run.nonce, pins |-> run.pins,
              errors |-> run.errors \cup {e}]
    BY DEF CutRuns
<1> QED BY <1>1 DEF CutRuns

(* Onward from the k-th step, and back from the k-th of the rollback. *)
LEMMA CutOnward ==
    ASSUME run \in CutRuns, NEW k \in 1..27, run.pc = Cut!Steps[k], run' = Cut!Onward
    PROVE  /\ run' \in CutRuns /\ run'.pc = Cut!Steps[k + 1] /\ run'.targets = run.targets
           /\ run'.nonce = run.nonce /\ run'.pins = run.pins /\ run'.errors = run.errors
<1>1. Cut!Steps[k + 1] \in CutPlaces
    BY DEF CutPlaces
<1>2. run' = [run EXCEPT !.pc = Cut!Steps[k + 1]]
    BY StepAfter DEF Cut!Onward
<1> QED BY <1>1, <1>2, CutMoves

LEMMA CutCaught ==
    ASSUME run \in CutRuns, run' = Cut!Caught
    PROVE  /\ run' \in CutRuns /\ run'.pc = "caught" /\ run'.targets = run.targets
           /\ run'.nonce = run.nonce /\ run'.pins = run.pins /\ run'.errors = run.errors
BY CutMoves DEF Cut!Caught, CutPlaces

LEMMA CutUndone ==
    ASSUME run \in CutRuns, NEW k \in 1..10, run.pc = Cut!Undoing[k], run' = Cut!Undone
    PROVE  /\ run' \in CutRuns /\ run'.pc = Cut!Undoing[k + 1] /\ run'.targets = run.targets
           /\ run'.nonce = run.nonce /\ run'.pins = run.pins /\ run'.errors = run.errors
<1>1. Cut!Undoing[k + 1] \in CutPlaces
    BY DEF CutPlaces
<1>2. run' = [run EXCEPT !.pc = Cut!Undoing[k + 1]]
    BY UndoAfter DEF Cut!Undone
<1> QED BY <1>1, <1>2, CutMoves

LEMMA CutFailing ==
    ASSUME run \in CutRuns, NEW k \in 1..10, run.pc = Cut!Undoing[k], NEW e \in CutErrors, run' = Cut!Failing(e)
    PROVE  /\ run' \in CutRuns /\ run'.pc = Cut!Undoing[k + 1] /\ run'.targets = run.targets
           /\ run'.nonce = run.nonce /\ run'.pins = run.pins /\ run'.errors = run.errors \cup {e}
<1>1. Cut!Undoing[k + 1] \in CutPlaces
    BY DEF CutPlaces
<1>2. run' = [run EXCEPT !.pc = Cut!Undoing[k + 1], !.errors = @ \cup {e}]
    BY UndoAfter DEF Cut!Failing
<1> QED BY <1>1, <1>2, CutNotes

LEMMA CutGivenUp ==
    ASSUME run \in CutRuns, NEW e \in CutErrors, run' = Cut!GivenUp(e)
    PROVE  /\ run' \in CutRuns /\ run'.pc = Cut!Undoing[11] /\ run'.targets = run.targets
           /\ run'.nonce = run.nonce /\ run'.pins = run.pins /\ run'.errors = run.errors \cup {e}
<1>1. run' = [run EXCEPT !.pc = "finish", !.errors = @ \cup {e}]
    BY DEF Cut!GivenUp
<1>2. "finish" = Cut!Undoing[11]
    BY UndoNames
<1>3. Cut!Undoing[11] \in CutPlaces
    BY DEF CutPlaces
<1>4. run' = [run EXCEPT !.pc = Cut!Undoing[11], !.errors = @ \cup {e}]
    BY <1>1, <1>2
<1> QED BY <1>3, <1>4, CutNotes

(* docker compose up and down. *)
LEMMA CutCreates ==
    ASSUME CutTyped, NEW S \in SUBSET Cut!Names, Cut!Created(S)
    PROVE  /\ s2' \in [Cut!Names -> Cut!Ids \cup {0}]
           /\ \A n \in S : s2'[n] # 0
           /\ \A n \in Cut!Names : (s2[n] # 0 => s2'[n] # 0) /\ (n \notin S => s2'[n] = s2[n])
<1>1. ASSUME NEW n \in Cut!Names
      PROVE  Cut!NewId(n) \in Cut!Ids
    <2>1. \A a, b, c : \E i \in 1..4 : i \notin {a, b, c}
        OBVIOUS
    <2> DEFINE seen == {s2[n]} \cup (IF n = "nonce" THEN {}
                        ELSE {run.pins[n]} \cup (IF s8 = None THEN {} ELSE {s8.pins[n]}))
    <2>2. seen \subseteq {s2[n], run.pins[n], s8.pins[n]}
        OBVIOUS
    <2>3. \E i \in Cut!Ids : i \notin seen
        BY <2>1, <2>2 DEF Cut!Ids
    <2> HIDE DEF seen
    <2>4. (CHOOSE i \in Cut!Ids : i \notin seen) \in Cut!Ids
        BY <2>3
    <2> QED BY <2>4 DEF Cut!NewId, seen
<1>2. \A n \in Cut!Names : Cut!NewId(n) \in Cut!Ids /\ Cut!NewId(n) # 0
    BY <1>1 DEF Cut!Ids
<1>3. s2' = [n \in Cut!Names |-> IF n \in S /\ s2[n] = 0 THEN Cut!NewId(n) ELSE s2[n]]
    BY DEF Cut!Created
<1>4. s2 \in [Cut!Names -> Cut!Ids \cup {0}]
    BY DEF CutTyped
<1> QED BY <1>2, <1>3, <1>4

LEMMA CutRemoves ==
    ASSUME CutTyped, NEW S \in SUBSET Cut!Names, Cut!Removed(S)
    PROVE  /\ s2' \in [Cut!Names -> Cut!Ids \cup {0}]
           /\ \A n \in Cut!Names : s2'[n] = IF n \in S THEN 0 ELSE s2[n]
BY DEF CutTyped, Cut!Removed

(* What a step may not do to the target.                                     *)
CutMovesSafely == Cut!SparesServing /\ Cut!CopiesAlone

LEMMA StepHolds ==
    ASSUME CutInv, NEW k \in 1..28, run.pc = Cut!Steps[k]
    PROVE  ExecuteAt(k) /\ run.pc # "idle" /\ run \in CutRuns
BY StepOrder DEF CutInv, CutPlace, CutTyped

LEMMA UndoHolds ==
    ASSUME CutInv, NEW k \in 1..11, run.pc = Cut!Undoing[k]
    PROVE  RollbackAt(k) /\ run.pc # "idle" /\ run \in CutRuns
<1>1. run.pc # "idle"
    BY UndoOrder
<1> QED BY <1>1 DEF CutInv, CutPlace, CutTyped

(* A legacy service that was started, or noted as failing, stays so.         *)
LEMMA CutStays ==
    ASSUME NEW k \in 5..10, UndoneSoFar(k), s1' = s1, run'.targets = run.targets, run.errors \subseteq run'.errors,
           NEW j \in 5..11
    PROVE  UndoneSoFar(j)'
BY DEF UndoneSoFar

(* A step that only looks leaves the host to the next one.                   *)
LEMMA CutKeeps ==
    ASSUME CutInv, run.pc # "idle", UNCHANGED <<s1, s2, s4, s6, s7, s8, s10, s11>>, run' \in CutRuns,
           run'.targets = run.targets, run'.nonce = run.nonce
    PROVE  CutTyped' /\ CutHost' /\ CutTraceless' /\ CutMovesSafely
<1>1. CutTyped' /\ CutHost'
    BY DEF CutInv, CutTyped, CutHost
<1>2. CutTraceless'
    BY DEF CutInv, CutTraceless, Cut!Untouched
<1>3. CutMovesSafely
    BY DEF CutMovesSafely, Cut!SparesServing, Cut!CopiesAlone
<1> QED BY <1>1, <1>2, <1>3

(* Whatever was begun is in the record, so that it can be caught.             *)
LEMMA CutFallsBack ==
    ASSUME CutInv, NEW k \in 1..28, run.pc = Cut!Steps[k], run'.pc = "caught", run'.targets = run.targets, s8' = s8
    PROVE  CutPlace'
<1>1. run.targets \/ s8 = None
    BY StepHolds DEF ExecuteAt
<1> QED BY <1>1, CutLeaves

LEMMA CutLooks ==
    ASSUME CutInv, NEW k \in 1..27, run.pc = Cut!Steps[k], k \notin {1, 2, 3, 6, 8, 9, 11, 12, 14, 15, 17, 20, 21, 22, 25, 26},
           UNCHANGED <<s1, s2, s4, s6, s7, s8, s10, s11>>, s5' = s5 \/ k = 7, run' \in CutRuns,
           run'.targets = run.targets, run'.nonce = run.nonce, run'.pc = Cut!Steps[k + 1]
    PROVE  CutInv' /\ CutMovesSafely
<1>1. ExecuteAt(k) /\ run.pc # "idle"
    BY StepHolds
<1>2. PICK j \in 1..28 : j = k + 1
    OBVIOUS
<1>3. ExecuteAt(j)'
    BY <1>1, <1>2 DEF ExecuteAt
<1>4. CutPlace'
    BY <1>2, <1>3, CutAdvances
<1> QED BY <1>1, <1>4, CutKeeps DEF CutInv

LEMMA CutStopsLooking ==
    ASSUME CutInv, NEW k \in 1..28, run.pc = Cut!Steps[k], UNCHANGED <<s1, s2, s4, s6, s7, s8, s10, s11>>,
           run' \in CutRuns, run'.targets = run.targets, run'.nonce = run.nonce, run'.pc = "caught"
    PROVE  CutInv' /\ CutMovesSafely
<1>1. run.pc # "idle"
    BY StepHolds
<1> QED BY <1>1, CutKeeps, CutFallsBack DEF CutInv

LEMMA CutProceeds ==
    ASSUME CutInv, NEW k \in 1..27, run.pc = Cut!Steps[k], NEW c, Cut!Proceeds(c)
    PROVE  /\ run' \in CutRuns /\ run'.targets = run.targets /\ run'.nonce = run.nonce /\ run'.pins = run.pins
           /\ \/ c /\ run'.pc = Cut!Steps[k + 1]
              \/ ~c /\ run'.pc = "caught"
<1>1. run \in CutRuns
    BY StepHolds
<1>2. CASE c
    <2>1. run' = Cut!Onward
        BY <1>2 DEF Cut!Proceeds
    <2> QED BY <1>1, <1>2, <2>1, CutOnward
<1>3. CASE ~c
    <2>1. run' = Cut!Caught
        BY <1>3 DEF Cut!Proceeds
    <2> QED BY <1>1, <1>3, <2>1, CutCaught
<1> QED BY <1>2, <1>3

(* execute, step by step. *)
LEMMA ChecksHostStep ==
    ASSUME CutInv, Cut!ChecksHost
    PROVE  CutInv' /\ CutMovesSafely
<1>1. run.pc = Cut!Steps[1] /\ UNCHANGED <<s1, s2, s4, s5, s6, s7, s8, s10, s11>>
    BY StepNames DEF Cut!ChecksHost, Cut!At, Cut!target, Cut!nginx, Cut!past
<1> DEFINE c == /\ \A n \in Cut!Names : s2[n] = 0
                /\ \A s \in Cut!Services : s1[s] = "up"
                /\ s6 = "stable"
<1>2. Cut!Proceeds(c)
    BY DEF Cut!ChecksHost
<1>3. c => NoTargets
    BY DEF NoTargets
<1> HIDE DEF c
<1>4. /\ run' \in CutRuns /\ run'.targets = run.targets /\ run'.nonce = run.nonce
      /\ (c /\ run'.pc = Cut!Steps[2]) \/ run'.pc = "caught"
    BY <1>1, <1>2, CutProceeds
<1>5. CASE run'.pc = "caught"
    BY <1>1, <1>4, <1>5, CutStopsLooking
<1>6. CASE c /\ run'.pc = Cut!Steps[2]
    <2>1. ExecuteAt(1) /\ run.pc # "idle"
        BY <1>1, StepHolds
    <2>2. s7 = "stable"
        BY <1>3, <1>6 DEF CutInv, CutTyped, CutHost, NoTargets, Cut!Names, Cut!Pinned
    <2>3. NoTargets'
        BY <1>1, <1>3, <1>6 DEF NoTargets
    <2>4. ExecuteAt(2)'
        BY <1>1, <1>4, <2>1, <2>2, <2>3 DEF ExecuteAt
    <2>5. CutPlace'
        BY <1>6, <2>4, CutAdvances
    <2> QED BY <1>1, <1>4, <2>1, <2>5, CutKeeps DEF CutInv
<1> QED BY <1>4, <1>5, <1>6

(* The steps that look at the host and at the containers, or pin one.         *)
LEMMA LooksStep ==
    ASSUME CutInv, Cut!ChecksRollback \/ Cut!ChecksStopped \/ Cut!Canaries \/ Cut!PinsTarget \/ Cut!InstallsAcl
    PROVE  CutInv' /\ CutMovesSafely
<1>1. CASE Cut!ChecksRollback
    <2>1. PICK c : Cut!Proceeds(c)
        BY <1>1 DEF Cut!ChecksRollback
    <2>2. run.pc = Cut!Steps[10] /\ UNCHANGED <<s1, s2, s4, s5, s6, s7, s8, s10, s11>>
        BY <1>1, StepNames DEF Cut!ChecksRollback, Cut!At, Cut!target, Cut!nginx, Cut!past
    <2> QED BY <2>1, <2>2, CutProceeds, CutLooks, CutStopsLooking
<1>2. CASE Cut!ChecksStopped
    <2>1. PICK c : Cut!Proceeds(c)
        BY <1>2 DEF Cut!ChecksStopped
    <2>2. run.pc = Cut!Steps[13] /\ UNCHANGED <<s1, s2, s4, s5, s6, s7, s8, s10, s11>>
        BY <1>2, StepNames DEF Cut!ChecksStopped, Cut!At, Cut!target, Cut!nginx, Cut!past
    <2> QED BY <2>1, <2>2, CutProceeds, CutLooks, CutStopsLooking
<1>3. CASE Cut!Canaries
    <2>1. PICK c : Cut!Proceeds(c)
        BY <1>3 DEF Cut!Canaries
    <2>2. run.pc = Cut!Steps[27] /\ UNCHANGED <<s1, s2, s4, s5, s6, s7, s8, s10, s11>>
        BY <1>3, StepNames DEF Cut!Canaries, Cut!At, Cut!target, Cut!nginx, Cut!past
    <2> QED BY <2>1, <2>2, CutProceeds, CutLooks, CutStopsLooking
<1>4. CASE Cut!InstallsAcl
    <2>1. run.pc = Cut!Steps[7] /\ run' = Cut!Onward /\ UNCHANGED <<s1, s2, s4, s6, s7, s8, s10, s11>>
        BY <1>4, StepNames DEF Cut!InstallsAcl, Cut!At, Cut!nginx, Cut!past
    <2> QED BY <2>1, StepHolds, CutOnward, CutLooks
<1>5. CASE Cut!PinsTarget
    <2>1. PICK k \in {4, 5, 18, 23} : run.pc = Cut!Steps[k]
        BY <1>5, StepNames DEF Cut!PinsTarget
    <2>2. UNCHANGED <<s1, s2, s4, s5, s6, s7, s8, s10, s11>> /\ run \in CutRuns
        BY <1>5, <2>1, StepHolds DEF Cut!PinsTarget, Cut!target, Cut!nginx, Cut!past
    <2>3. PICK n \in Cut!Pinned, well \in BOOLEAN :
              run' = [IF well THEN Cut!Onward ELSE Cut!Caught EXCEPT
                          !.pins = [run.pins EXCEPT ![n] = IF run.pins[n] = 0 THEN s2[n] ELSE run.pins[n]]]
        BY <1>5 DEF Cut!PinsTarget, Cut!Pinned, Cut!At
    <2> DEFINE pins == [run.pins EXCEPT ![n] = IF run.pins[n] = 0 THEN s2[n] ELSE run.pins[n]]
    <2>4. pins \in [Cut!Pinned -> Cut!Ids \cup {0}]
        BY <2>2 DEF CutRuns, CutInv, CutTyped, Cut!Names
    <2> HIDE DEF pins
    <2>5. PICK p \in {Cut!Steps[k + 1], "caught"} : run' = [[run EXCEPT !.pc = p] EXCEPT !.pins = pins]
        <3>1. Cut!After(Cut!Steps) = Cut!Steps[k + 1]
            BY <2>1, StepAfter
        <3>2. CASE well = TRUE
            <4>1. run' = [[run EXCEPT !.pc = Cut!Steps[k + 1]] EXCEPT !.pins = pins]
                BY <2>3, <3>1, <3>2 DEF pins, Cut!Onward
            <4> QED BY <4>1
        <3>3. CASE well = FALSE
            <4>1. run' = [[run EXCEPT !.pc = "caught"] EXCEPT !.pins = pins]
                BY <2>3, <3>3 DEF pins, Cut!Caught
            <4> QED BY <4>1
        <3> QED BY <3>2, <3>3
    <2>6. p \in CutPlaces
        BY <2>1 DEF CutPlaces
    <2>7. run' = [pc |-> p, targets |-> run.targets, nonce |-> run.nonce, pins |-> pins, errors |-> run.errors]
        BY <2>2, <2>5 DEF CutRuns
    <2>8. run' \in CutRuns /\ run'.pc = p /\ run'.targets = run.targets /\ run'.nonce = run.nonce
        BY <2>2, <2>4, <2>6, <2>7 DEF CutRuns
    <2> QED BY <2>1, <2>2, <2>5, <2>8, CutLooks, CutStopsLooking
<1> QED BY <1>1, <1>2, <1>3, <1>4, <1>5

(* A step that changes the host has its record, and works before the reload.  *)
LEMMA CutRecorded ==
    ASSUME CutInv, NEW k \in 3..26, run.pc = Cut!Steps[k], s8' # None,
           s4' \in {"partial", "copied"} /\ s4' # s4 => \A s \in Cut!Writers : s1[s] # "up"
    PROVE  CutTraceless' /\ CutMovesSafely
<1>1. s7 = "stable"
    BY StepHolds DEF ExecuteAt
<1> QED BY <1>1 DEF CutTraceless, CutMovesSafely, Cut!SparesServing, Cut!CopiesAlone

LEMMA DocumentsAreSome == \A d \in Cut!Documents : d # None
BY NoneAssumption

LEMMA MarksStep ==
    ASSUME CutInv, Cut!Marks
    PROVE  CutInv' /\ CutMovesSafely
<1> DEFINE doc(t, n) == [targets |-> t, nonce |-> n, pins |-> run.pins]
<1>1. UNCHANGED <<s1, s2, s4, s5, s6, s7, s10, s11>>
    BY DEF Cut!Marks, Cut!target, Cut!nginx, Cut!past
<1>2. CASE run.pc = Cut!Steps[2]
    <2>1. ExecuteAt(2) /\ run \in CutRuns
        BY <1>2, StepHolds
    <2>2. run' = [[run EXCEPT !.pc = Cut!Steps[3]] EXCEPT !.targets = TRUE]
        <3>1. Cut!After(Cut!Steps) = Cut!Steps[3]
            BY <1>2, StepAfter
        <3>2. Cut!Marked = [Cut!Onward EXCEPT !.targets = TRUE]
            BY <1>2, StepNames DEF Cut!Marked, Cut!At
        <3> QED BY <3>1, <3>2 DEF Cut!Marks, Cut!Onward
    <2>3. run' = [pc |-> Cut!Steps[3], targets |-> TRUE, nonce |-> run.nonce, pins |-> run.pins, errors |-> run.errors]
        BY <2>1, <2>2 DEF CutRuns
    <2>4. run' \in CutRuns /\ run'.pc = Cut!Steps[3] /\ run'.targets /\ run'.nonce = run.nonce
        BY <2>1, <2>3 DEF CutRuns, CutPlaces
    <2>5. s8' = doc(TRUE, run.nonce)
        BY <1>2, <2>1, StepNames DEF Cut!Marks, Cut!Marked, Cut!At, Cut!Onward, CutRuns
    <2>6. s8' \in Cut!Documents /\ s8' # None /\ s8'.targets
        <3>1. s8' \in Cut!Documents /\ s8'.targets
            BY <2>1, <2>5 DEF Cut!Documents, CutRuns
        <3> QED BY <3>1, DocumentsAreSome
    <2>7. s2["nonce"] = 0 /\ s7 = "stable"
        BY <2>1 DEF ExecuteAt, NoTargets, Cut!Names
    <2>8. CutTyped'
        BY <1>1, <2>4, <2>6 DEF CutInv, CutTyped
    <2>9. CutHost'
        BY <1>1, <2>7 DEF CutInv, CutHost
    <2>10. CutTraceless' /\ CutMovesSafely
        BY <1>1, <2>6 DEF CutTraceless, CutMovesSafely, Cut!SparesServing, Cut!CopiesAlone
    <2>11. ExecuteAt(3)'
        BY <1>1, <2>4, <2>6, <2>7 DEF ExecuteAt
    <2> QED BY <2>4, <2>8, <2>9, <2>10, <2>11, CutAdvances DEF CutInv
<1>3. CASE run.pc = Cut!Steps[8]
    <2>1. ExecuteAt(8) /\ run \in CutRuns
        BY <1>3, StepHolds
    <2>2. run' = [[run EXCEPT !.pc = Cut!Steps[9]] EXCEPT !.nonce = TRUE]
        <3>1. Cut!After(Cut!Steps) = Cut!Steps[9]
            BY <1>3, StepAfter
        <3>2. Cut!Marked = [Cut!Onward EXCEPT !.nonce = TRUE]
            BY <1>3, StepNames DEF Cut!Marked, Cut!At
        <3> QED BY <3>1, <3>2 DEF Cut!Marks, Cut!Onward
    <2>3. run' = [pc |-> Cut!Steps[9], targets |-> run.targets, nonce |-> TRUE, pins |-> run.pins, errors |-> run.errors]
        BY <2>1, <2>2 DEF CutRuns
    <2>4. run' \in CutRuns /\ run'.pc = Cut!Steps[9] /\ run'.targets /\ run'.nonce
        BY <2>1, <2>3 DEF CutRuns, CutPlaces, ExecuteAt
    <2>5. s8' = doc(run.targets, TRUE)
        BY <1>3, <2>1, StepNames DEF Cut!Marks, Cut!Marked, Cut!At, Cut!Onward, CutRuns
    <2>6. s8' \in Cut!Documents /\ s8' # None /\ s8'.targets /\ s8'.nonce
        <3>1. s8' \in Cut!Documents /\ s8'.targets /\ s8'.nonce
            BY <2>1, <2>5 DEF Cut!Documents, CutRuns, ExecuteAt
        <3> QED BY <3>1, DocumentsAreSome
    <2>7. CutTyped'
        BY <1>1, <2>4, <2>6 DEF CutInv, CutTyped
    <2>8. CutHost'
        BY <1>1, <2>4, <2>6 DEF CutInv, CutHost
    <2>9. CutTraceless' /\ CutMovesSafely
        BY <1>1, <1>3, <2>6, CutRecorded
    <2>10. ExecuteAt(9)'
        BY <1>1, <2>1, <2>4, <2>6 DEF ExecuteAt
    <2> QED BY <2>4, <2>7, <2>8, <2>9, <2>10, CutAdvances DEF CutInv
<1> QED BY <1>2, <1>3, StepNames DEF Cut!Marks

LEMMA DocumentIs ==
    ASSUME run \in CutRuns, run.targets, s8' = Cut!Document
    PROVE  s8' \in Cut!Documents /\ s8' # None /\ s8'.targets /\ s8'.nonce = run.nonce
<1>1. s8' = [targets |-> run.targets, nonce |-> run.nonce, pins |-> run.pins]
    BY DEF Cut!Document
<1>2. s8' \in Cut!Documents /\ s8'.targets /\ s8'.nonce = run.nonce
    BY <1>1 DEF Cut!Documents, CutRuns
<1> QED BY <1>2, DocumentsAreSome

LEMMA PersistsStep ==
    ASSUME CutInv, Cut!Persists
    PROVE  CutInv' /\ CutMovesSafely
<1>1. UNCHANGED <<s1, s2, s4, s5, s6, s7, s10, s11>> /\ s8' = Cut!Document /\ run' = Cut!Onward
    BY DEF Cut!Persists, Cut!target, Cut!nginx, Cut!past
<1>2. PICK k \in {6, 16, 19, 24} : run.pc = Cut!Steps[k]
    BY StepNames DEF Cut!Persists
<1>3. ExecuteAt(k) /\ run \in CutRuns /\ run.targets
    BY <1>2, StepHolds DEF ExecuteAt
<1>4. s8' \in Cut!Documents /\ s8' # None /\ s8'.targets /\ s8'.nonce = run.nonce
    BY <1>1, <1>3, DocumentIs
<1>5. run' \in CutRuns /\ run'.pc = Cut!Steps[k + 1] /\ run'.targets = run.targets /\ run'.nonce = run.nonce
    <2>1. run' = Cut!Onward /\ k \in 1..27
        BY <1>1, <1>2
    <2> QED BY <1>2, <1>3, <2>1, CutOnward
<1>6. CutTyped' /\ CutHost'
    BY <1>1, <1>3, <1>4, <1>5 DEF CutInv, CutTyped, CutHost
<1>7. CutTraceless' /\ CutMovesSafely
    BY <1>1, <1>2, <1>4, CutRecorded
<1>8. PICK j \in 1..28 : j = k + 1
    BY <1>2
<1>9. ExecuteAt(j)'
    BY <1>1, <1>2, <1>3, <1>4, <1>5, <1>8 DEF ExecuteAt
<1> QED BY <1>5, <1>6, <1>7, <1>8, <1>9, CutAdvances DEF CutInv

LEMMA StartsTargetsStep ==
    ASSUME CutInv, Cut!StartsTargets
    PROVE  CutInv' /\ CutMovesSafely
<1>1. /\ UNCHANGED <<s1, s5, s6, s7, s8, s10, s11>> /\ run' = Cut!Onward /\ Cut!Created(Cut!Starting)
      /\ s4' = s4 \/ (s4 = "empty" /\ s4' = "fresh" /\ run.pc = "up")
    BY DEF Cut!StartsTargets, Cut!nginx, Cut!past, Cut!At
<1>2. PICK k \in {3, 9, 17, 21, 22} : run.pc = Cut!Steps[k]
    BY StepNames DEF Cut!StartsTargets
<1>3. ExecuteAt(k) /\ run \in CutRuns /\ CutTyped
    BY <1>2, StepHolds DEF CutInv
<1>4. run' \in CutRuns /\ run'.pc = Cut!Steps[k + 1] /\ run'.targets = run.targets /\ run'.nonce = run.nonce
    BY <1>1, <1>2, <1>3, CutOnward
<1>5. /\ Cut!Starting \in SUBSET Cut!Names
      /\ k \in {3, 17} => Cut!Starting = {"pg", "redis"}
      /\ k \in {9, 21} => Cut!Starting = {"nonce"}
      /\ k = 22 => Cut!Starting = {"app"}
    BY <1>2, StepNames DEF Cut!Starting, Cut!Names, Cut!Pinned
<1>6. /\ s2' \in [Cut!Names -> Cut!Ids \cup {0}]
      /\ \A n \in Cut!Starting : s2'[n] # 0
      /\ \A n \in Cut!Names : (s2[n] # 0 => s2'[n] # 0) /\ (n \notin Cut!Starting => s2'[n] = s2[n])
    BY <1>1, <1>3, <1>5, CutCreates
<1>7. {"pg", "redis", "app", "nonce"} \subseteq Cut!Names
    BY DEF Cut!Names, Cut!Pinned
<1>8. s8 # None /\ run.targets /\ s7 = "stable"
    BY <1>2, <1>3 DEF ExecuteAt
<1>9. CutTyped'
    BY <1>1, <1>4, <1>6 DEF CutInv, CutTyped
<1>10. CutHost'
    <2>1. CASE k \in {9, 21}
        <3>1. run.nonce /\ s8.nonce
            BY <1>2, <1>3, <2>1 DEF ExecuteAt
        <3> QED BY <1>1, <1>4, <1>8, <3>1 DEF CutInv, CutHost
    <2>2. CASE k \in {3, 17, 22}
        <3>1. s2'["nonce"] = s2["nonce"]
            BY <1>5, <1>6, <1>7, <2>2
        <3> QED BY <1>1, <1>4, <1>8, <3>1 DEF CutInv, CutHost
    <2> QED BY <1>2, <2>1, <2>2
<1>11. CutTraceless' /\ CutMovesSafely
    BY <1>1, <1>2, <1>8, CutRecorded
<1>12. PICK j \in 1..28 : j = k + 1
    BY <1>2
<1>13. ExecuteAt(j)'
    <2>1. k # 3 => s4' = s4
        BY <1>1, <1>2, StepOrder, StepNames
    <2>2. CASE k = 3
        BY <1>1, <1>3, <1>4, <1>5, <1>6, <1>7, <1>8, <1>12, <2>2 DEF ExecuteAt
    <2>3. CASE k = 9
        BY <1>1, <1>3, <1>4, <1>5, <1>6, <1>7, <1>8, <1>12, <2>1, <2>3 DEF ExecuteAt
    <2>4. CASE k = 17
        BY <1>1, <1>3, <1>4, <1>5, <1>6, <1>7, <1>8, <1>12, <2>1, <2>4 DEF ExecuteAt
    <2>5. CASE k = 21
        BY <1>1, <1>3, <1>4, <1>5, <1>6, <1>7, <1>8, <1>12, <2>1, <2>5 DEF ExecuteAt
    <2>6. CASE k = 22
        BY <1>1, <1>3, <1>4, <1>5, <1>6, <1>7, <1>8, <1>12, <2>1, <2>6 DEF ExecuteAt
    <2> QED BY <1>2, <2>2, <2>3, <2>4, <2>5, <2>6
<1> QED BY <1>4, <1>9, <1>10, <1>11, <1>12, <1>13, CutAdvances DEF CutInv

LEMMA StopsWriterStep ==
    ASSUME CutInv, Cut!StopsWriter
    PROVE  CutInv' /\ CutMovesSafely
<1>1. /\ UNCHANGED <<s2, s4, s5, s6, s7, s8, s10, s11>> /\ run' = Cut!Onward
      /\ s1' = [s1 EXCEPT ![IF run.pc = "stopsync" THEN "sync" ELSE "app"] = "stopped"]
    BY DEF Cut!StopsWriter, Cut!target, Cut!nginx, Cut!past, Cut!At
<1>2. PICK k \in {11, 12} : run.pc = Cut!Steps[k]
    BY StepNames DEF Cut!StopsWriter
<1>3. ExecuteAt(k) /\ run \in CutRuns /\ CutTyped
    BY <1>2, StepHolds DEF CutInv
<1>4. run' \in CutRuns /\ run'.pc = Cut!Steps[k + 1] /\ run'.targets = run.targets /\ run'.nonce = run.nonce
    BY <1>1, <1>2, <1>3, CutOnward
<1>5. /\ s1' \in [Cut!Services -> {"up", "stopped", "fell"}]
      /\ k = 11 => s1'["sync"] = "stopped"
      /\ k = 12 => s1'["app"] = "stopped" /\ s1'["sync"] = s1["sync"]
    BY <1>1, <1>2, <1>3, StepNames DEF CutTyped, Cut!Services
<1>6. CutTyped' /\ CutHost'
    BY <1>1, <1>4, <1>5 DEF CutInv, CutTyped, CutHost
<1>7. CutTraceless' /\ CutMovesSafely
    BY <1>1, <1>2, <1>3, CutRecorded DEF ExecuteAt
<1>8. PICK j \in 1..28 : j = k + 1
    BY <1>2
<1>9. ExecuteAt(j)'
    BY <1>1, <1>2, <1>3, <1>4, <1>5, <1>8 DEF ExecuteAt
<1> QED BY <1>4, <1>6, <1>7, <1>8, <1>9, CutAdvances DEF CutInv

(* The copy runs beside no writer, whole or broken off. *)
LEMMA WritersAreOff ==
    ASSUME CutInv, NEW k \in 13..28, run.pc = Cut!Steps[k]
    PROVE  \A s \in Cut!Writers : s1[s] # "up"
BY StepHolds DEF ExecuteAt, Cut!Writers

LEMMA CopiesStep ==
    ASSUME CutInv, Cut!Copies
    PROVE  CutInv' /\ CutMovesSafely
<1>1. run.pc = Cut!Steps[14] /\ UNCHANGED <<s1, s2, s5, s6, s7, s8, s11>>
    BY StepNames DEF Cut!Copies, Cut!At, Cut!nginx
<1>2. ExecuteAt(14) /\ run \in CutRuns /\ \A s \in Cut!Writers : s1[s] # "up"
    BY <1>1, StepHolds, WritersAreOff
<1>3. PICK c : /\ Cut!Proceeds(c) /\ (c => s4 = "fresh" /\ s4' = "copied")
               /\ s4' = s4 \/ (s4 = "fresh" /\ s4' \in {"copied", "partial"})
    <2> DEFINE can == s1["pg"] = "up" /\ s1["redis"] = "up" /\ s3["pg"] /\ s3["nonce"]
    <2>1. Cut!Proceeds(can /\ s4 = "fresh") /\ s4' = IF s4 # "fresh" THEN s4 ELSE IF can THEN "copied" ELSE "partial"
        BY DEF Cut!Copies
    <2> HIDE DEF can
    <2> QED BY <2>1
<1>4. s10' <=> s10
    BY <1>2 DEF Cut!Copies
<1>5. /\ run' \in CutRuns /\ run'.targets = run.targets /\ run'.nonce = run.nonce
      /\ (c /\ run'.pc = Cut!Steps[15]) \/ run'.pc = "caught"
    BY <1>1, <1>3, CutProceeds
<1>6. CutTyped' /\ CutHost'
    BY <1>1, <1>3, <1>4, <1>5 DEF CutInv, CutTyped, CutHost
<1>7. CutTraceless' /\ CutMovesSafely
    BY <1>1, <1>2, CutRecorded DEF ExecuteAt
<1>8. CASE run'.pc = "caught"
    BY <1>1, <1>5, <1>6, <1>7, <1>8, CutFallsBack DEF CutInv
<1>9. CASE c /\ run'.pc = Cut!Steps[15]
    <2>1. ~s10 /\ s4' = "copied"
        BY <1>3, <1>9 DEF CutInv, CutHost
    <2>2. ExecuteAt(15)'
        BY <1>1, <1>2, <1>4, <1>5, <2>1 DEF ExecuteAt
    <2> QED BY <1>6, <1>7, <1>9, <2>2, CutAdvances DEF CutInv
<1> QED BY <1>5, <1>8, <1>9

LEMMA DropsPostgresStep ==
    ASSUME CutInv, Cut!DropsPostgres
    PROVE  CutInv' /\ CutMovesSafely
<1>1. run.pc = Cut!Steps[15] /\ UNCHANGED <<s1, s4, s5, s6, s7, s8, s10, s11>>
    BY StepNames DEF Cut!DropsPostgres, Cut!At, Cut!nginx, Cut!past
<1>2. ExecuteAt(15) /\ run \in CutRuns /\ CutTyped
    BY <1>1, StepHolds DEF CutInv
<1>3. \/ Cut!Removed({"pg"}) /\ run' = [Cut!Onward EXCEPT !.pins["pg"] = 0]
      \/ run' = Cut!Caught /\ s2' = s2
    BY DEF Cut!DropsPostgres
<1>4. CASE run' = Cut!Caught /\ s2' = s2
    BY <1>1, <1>2, <1>4, CutCaught, CutStopsLooking
<1>5. CASE Cut!Removed({"pg"}) /\ run' = [Cut!Onward EXCEPT !.pins["pg"] = 0]
    <2>1. /\ s2' \in [Cut!Names -> Cut!Ids \cup {0}]
          /\ \A n \in Cut!Names : s2'[n] = IF n \in {"pg"} THEN 0 ELSE s2[n]
        BY <1>2, <1>5, CutRemoves DEF Cut!Names, Cut!Pinned
    <2>2. s2'["nonce"] = s2["nonce"] /\ s2'["redis"] = s2["redis"]
        BY <2>1 DEF Cut!Names, Cut!Pinned
    <2>3. Cut!After(Cut!Steps) = Cut!Steps[16]
        BY <1>1, StepAfter
    <2> DEFINE pins == [run.pins EXCEPT !["pg"] = 0]
    <2>4. run' = [[run EXCEPT !.pc = Cut!Steps[16]] EXCEPT !.pins["pg"] = 0]
        BY <1>5, <2>3 DEF Cut!Onward
    <2>5. run' = [pc |-> Cut!Steps[16], targets |-> run.targets, nonce |-> run.nonce, pins |-> pins, errors |-> run.errors]
        BY <1>2, <2>4 DEF CutRuns
    <2>6. pins \in [Cut!Pinned -> Cut!Ids \cup {0}]
        BY <1>2 DEF CutRuns
    <2> HIDE DEF pins
    <2>7. run' \in CutRuns /\ run'.pc = Cut!Steps[16] /\ run'.targets = run.targets /\ run'.nonce = run.nonce
        BY <1>2, <2>5, <2>6 DEF CutRuns, CutPlaces
    <2>8. s7 = "stable"
        BY <1>2 DEF ExecuteAt
    <2>9. CutTyped' /\ CutHost'
        BY <1>1, <2>1, <2>2, <2>7, <2>8 DEF CutInv, CutTyped, CutHost
    <2>10. CutTraceless' /\ CutMovesSafely
        BY <1>1, <1>2, CutRecorded DEF ExecuteAt
    <2>11. ExecuteAt(16)'
        BY <1>1, <1>2, <2>2, <2>7 DEF ExecuteAt
    <2> QED BY <2>7, <2>9, <2>10, <2>11, CutAdvances DEF CutInv
<1> QED BY <1>3, <1>4, <1>5

LEMMA DropsNonceStep ==
    ASSUME CutInv, Cut!DropsNonce
    PROVE  CutInv' /\ CutMovesSafely
<1>1. /\ run.pc = Cut!Steps[20] /\ UNCHANGED <<s1, s4, s6, s7, s8, s10, s11>> /\ s5' = FALSE
      /\ run' = Cut!Onward /\ Cut!Removed({"nonce"})
    BY StepNames DEF Cut!DropsNonce, Cut!At, Cut!nginx, Cut!past
<1>2. ExecuteAt(20) /\ run \in CutRuns /\ CutTyped
    BY <1>1, StepHolds DEF CutInv
<1>3. /\ s2' \in [Cut!Names -> Cut!Ids \cup {0}]
      /\ \A n \in Cut!Names : s2'[n] = IF n \in {"nonce"} THEN 0 ELSE s2[n]
    BY <1>1, <1>2, CutRemoves DEF Cut!Names, Cut!Pinned
<1>4. s2'["nonce"] = 0 /\ s2'["redis"] = s2["redis"] /\ s2'["pg"] = s2["pg"]
    BY <1>3 DEF Cut!Names, Cut!Pinned
<1>5. run' \in CutRuns /\ run'.pc = Cut!Steps[21] /\ run'.targets = run.targets /\ run'.nonce = run.nonce
    BY <1>1, <1>2, CutOnward
<1>6. s7 = "stable"
    BY <1>2 DEF ExecuteAt
<1>7. CutTyped' /\ CutHost'
    BY <1>1, <1>3, <1>4, <1>5, <1>6 DEF CutInv, CutTyped, CutHost
<1>8. CutTraceless' /\ CutMovesSafely
    BY <1>1, <1>2, CutRecorded DEF ExecuteAt
<1>9. ExecuteAt(21)'
    BY <1>1, <1>2, <1>4, <1>5 DEF ExecuteAt
<1> QED BY <1>5, <1>7, <1>8, <1>9, CutAdvances DEF CutInv

LEMMA SwitchesStep ==
    ASSUME CutInv, Cut!Switches
    PROVE  CutInv' /\ CutMovesSafely
<1>1. run.pc = Cut!Steps[25] /\ UNCHANGED <<s1, s2, s4, s5, s7, s8, s10, s11>>
    BY StepNames DEF Cut!Switches, Cut!At, Cut!target, Cut!past
<1>2. ExecuteAt(25) /\ run \in CutRuns
    BY <1>1, StepHolds
<1>3. PICK c : Cut!Proceeds(c) /\ s6' = IF c THEN "canary" ELSE s6
    BY DEF Cut!Switches
<1>4. /\ run' \in CutRuns /\ run'.targets = run.targets /\ run'.nonce = run.nonce
      /\ (c /\ run'.pc = Cut!Steps[26]) \/ (~c /\ run'.pc = "caught")
    BY <1>1, <1>3, CutProceeds
<1>5. CASE ~c /\ run'.pc = "caught"
    BY <1>1, <1>3, <1>4, <1>5, CutStopsLooking
<1>6. CASE c /\ run'.pc = Cut!Steps[26]
    <2>1. s6' = "canary"
        BY <1>3, <1>6
    <2>2. CutTyped' /\ CutHost'
        BY <1>1, <1>4, <2>1 DEF CutInv, CutTyped, CutHost
    <2>3. CutTraceless' /\ CutMovesSafely
        BY <1>1, <1>2, CutRecorded DEF ExecuteAt
    <2>4. ExecuteAt(26)'
        BY <1>1, <1>2, <1>4, <2>1 DEF ExecuteAt
    <2> QED BY <1>6, <2>2, <2>3, <2>4, CutAdvances DEF CutInv
<1> QED BY <1>4, <1>5, <1>6

LEMMA ReloadsStep ==
    ASSUME CutInv, Cut!Reloads
    PROVE  CutInv' /\ CutMovesSafely
<1>1. run.pc = Cut!Steps[26] /\ UNCHANGED <<s1, s2, s4, s5, s6, s8, s10, s11>> /\ s7' = s6 /\ run' = Cut!Onward
    BY StepNames DEF Cut!Reloads, Cut!At, Cut!target, Cut!past
<1>2. ExecuteAt(26) /\ run \in CutRuns
    BY <1>1, StepHolds
<1>3. run' \in CutRuns /\ run'.pc = Cut!Steps[27] /\ run'.targets = run.targets /\ run'.nonce = run.nonce
    BY <1>1, <1>2, CutOnward
<1>4. \A n \in Cut!Names : s2[n] # 0
    BY <1>2 DEF ExecuteAt, Cut!Names, Cut!Pinned
<1>5. CutTyped' /\ CutHost'
    BY <1>1, <1>2, <1>3, <1>4 DEF CutInv, CutTyped, CutHost, ExecuteAt
<1>6. CutTraceless' /\ CutMovesSafely
    BY <1>1, <1>2, CutRecorded DEF ExecuteAt
<1>7. ExecuteAt(27)'
    BY <1>1, <1>2, <1>3 DEF ExecuteAt
<1> QED BY <1>3, <1>5, <1>6, <1>7, CutAdvances DEF CutInv

LEMMA CutIdles ==
    ASSUME run' = Cut!Idle
    PROVE  run' \in CutRuns /\ run'.pc = "idle" /\ ~run'.targets
BY DEF Cut!Idle, Cut!NoPins, CutRuns, CutPlaces, Cut!Ids

LEMMA CompletesStep ==
    ASSUME CutInv, Cut!Completes
    PROVE  CutInv' /\ CutMovesSafely
<1>1. run.pc = Cut!Steps[28] /\ UNCHANGED <<s1, s2, s4, s5, s6, s7, s10, s11>> /\ s8' = None /\ run' = Cut!Idle
    BY StepNames DEF Cut!Completes, Cut!At, Cut!target, Cut!nginx
<1>2. ExecuteAt(28)
    BY <1>1, StepHolds
<1>3. run' \in CutRuns /\ run'.pc = "idle" /\ ~run'.targets
    BY <1>1, CutIdles
<1>4. \A n \in Cut!Names : s2[n] # 0
    BY <1>2 DEF ExecuteAt, Cut!Names, Cut!Pinned
<1>5. \A s \in Cut!Writers : s1[s] # "up"
    BY <1>2 DEF ExecuteAt, Cut!Writers
<1>6. Cut!Migrated'
    BY <1>1, <1>2, <1>4, <1>5 DEF Cut!Migrated, ExecuteAt
<1>7. CutTyped' /\ CutHost' /\ CutTraceless'
    BY <1>1, <1>3, <1>6 DEF CutInv, CutTyped, CutHost, CutTraceless
<1>8. CutPlace'
    BY <1>3, CutLeaves
<1>9. CutMovesSafely
    BY <1>1 DEF CutMovesSafely, Cut!SparesServing, Cut!CopiesAlone
<1> QED BY <1>7, <1>8, <1>9 DEF CutInv

(* The beginning of a run, of a rollback and of a recovery. *)
LEMMA AppliesStep ==
    ASSUME CutInv, Cut!Applies
    PROVE  CutInv' /\ CutMovesSafely
<1>1. /\ run.pc = "idle" /\ s8 = None /\ s6 = "stable" /\ UNCHANGED <<s1, s2, s4, s5, s6, s7, s8, s10, s11>>
      /\ run' = [Cut!Idle EXCEPT !.pc = "check"]
    BY DEF Cut!Applies, Cut!At, Cut!target, Cut!nginx
<1>2. run' \in CutRuns /\ run'.pc = Cut!Steps[1] /\ ~run'.targets
    <2>1. run' = [pc |-> Cut!Steps[1], targets |-> FALSE, nonce |-> FALSE, pins |-> Cut!NoPins, errors |-> {}]
        BY <1>1, StepNames DEF Cut!Idle
    <2>2. Cut!NoPins \in [Cut!Pinned -> Cut!Ids \cup {0}]
        BY DEF Cut!NoPins, Cut!Ids
    <2>3. Cut!Steps[1] \in CutPlaces
        BY DEF CutPlaces
    <2> QED BY <2>1, <2>2, <2>3 DEF CutRuns
<1>3. ~s11 => Cut!Untouched
    BY <1>1 DEF CutInv, CutTraceless, Cut!Migrated
<1>4. CutTyped' /\ CutHost'
    BY <1>1, <1>2 DEF CutInv, CutTyped, CutHost
<1>5. CutTraceless'
    BY <1>1, <1>3 DEF CutTraceless, Cut!Untouched
<1>6. ExecuteAt(1)'
    BY <1>1, <1>2 DEF ExecuteAt
<1>7. CutMovesSafely
    BY <1>1 DEF CutMovesSafely, Cut!SparesServing, Cut!CopiesAlone
<1> QED BY <1>2, <1>4, <1>5, <1>6, <1>7, CutAdvances DEF CutInv

LEMMA CatchesStep ==
    ASSUME CutInv, Cut!Catches
    PROVE  CutInv' /\ CutMovesSafely
<1>1. run.pc = "caught" /\ UNCHANGED <<s1, s2, s4, s5, s6, s7, s10, s11>> /\ run \in CutRuns
    BY DEF Cut!Catches, Cut!At, Cut!target, Cut!nginx, CutInv, CutTyped
<1>2. CASE run.targets
    <2>1. run' = [run EXCEPT !.pc = Cut!Undoing[1], !.errors = {}] /\ s8' = s8
        BY <1>2 DEF Cut!Catches
    <2>2. run' = [pc |-> Cut!Undoing[1], targets |-> run.targets, nonce |-> run.nonce, pins |-> run.pins, errors |-> {}]
        BY <1>1, <2>1 DEF CutRuns
    <2>3. run' \in CutRuns /\ run'.pc = Cut!Undoing[1] /\ run'.targets = run.targets /\ run'.nonce = run.nonce
        BY <1>1, <2>2 DEF CutRuns, CutPlaces
    <2>4. RollbackAt(1)'
        BY <1>2, <2>3 DEF RollbackAt, UndoneSoFar
    <2> QED BY <1>1, <2>1, <2>3, <2>4, CutKeeps, CutRetreats DEF CutInv
<1>3. CASE ~run.targets
    <2>1. run' = Cut!Idle /\ s8' = None
        BY <1>3 DEF Cut!Catches
    <2>2. s8 = None
        BY <1>1, <1>3 DEF CutInv, CutPlace
    <2>3. run' \in CutRuns /\ run'.pc = "idle" /\ ~run'.targets
        BY <2>1, CutIdles
    <2>4. CutTyped' /\ CutHost'
        BY <1>1, <2>1, <2>3 DEF CutInv, CutTyped, CutHost
    <2>5. CutTraceless'
        BY <1>1, <2>2 DEF CutInv, CutTraceless, Cut!Untouched
    <2>6. CutMovesSafely
        BY <1>1 DEF CutMovesSafely, Cut!SparesServing, Cut!CopiesAlone
    <2> QED BY <2>3, <2>4, <2>5, <2>6, CutLeaves DEF CutInv
<1> QED BY <1>2, <1>3

LEMMA RecoversStep ==
    ASSUME CutInv, Cut!Recovers
    PROVE  CutInv' /\ CutMovesSafely
<1>1. /\ s8 # None /\ UNCHANGED <<s1, s2, s4, s5, s6, s7, s8, s10, s11>>
      /\ run' = [Cut!Remembered EXCEPT !.pc = Cut!Undoing[1]]
    BY DEF Cut!Recovers, Cut!At, Cut!target, Cut!nginx
<1>2. s8 \in Cut!Documents /\ s8.targets
    BY <1>1 DEF CutInv, CutTyped
<1>3. run' = [pc |-> Cut!Undoing[1], targets |-> s8.targets, nonce |-> s8.nonce, pins |-> s8.pins, errors |-> {}]
    BY <1>1 DEF Cut!Remembered, Cut!Idle
<1>4. run' \in CutRuns /\ run'.pc = Cut!Undoing[1] /\ run'.targets /\ run'.nonce = s8.nonce
    BY <1>2, <1>3 DEF CutRuns, CutPlaces, Cut!Documents
<1>5. CutTyped' /\ CutHost' /\ CutTraceless'
    BY <1>1, <1>4 DEF CutInv, CutTyped, CutHost, CutTraceless
<1>6. RollbackAt(1)'
    BY <1>4 DEF RollbackAt, UndoneSoFar
<1>7. CutMovesSafely
    BY <1>1 DEF CutMovesSafely, Cut!SparesServing, Cut!CopiesAlone
<1> QED BY <1>4, <1>5, <1>6, <1>7, CutRetreats DEF CutInv

(* The rollback, step by step. *)
LEMMA LegacyStarts ==
    ASSUME CutInv, NEW k \in 1..4, run.pc = Cut!Undoing[k], UNCHANGED <<s2, s4, s5, s6, s7, s8, s11>>,
           s1' = s1 \/ s1' = [s1 EXCEPT ![run.pc] = "up"], s10' => s10 \/ s4 = "copied",
           run' = Cut!Failing(run.pc) \/ (run' = Cut!Undone /\ s1' = [s1 EXCEPT ![run.pc] = "up"])
    PROVE  CutInv' /\ CutMovesSafely
<1>1. RollbackAt(k) /\ run.pc # "idle" /\ run \in CutRuns /\ CutTyped
    BY UndoHolds DEF CutInv
<1>2. /\ run.pc \in CutErrors /\ run.pc \in Cut!Services
      /\ (k = 1 <=> run.pc = "pg") /\ (k = 2 <=> run.pc = "redis")
      /\ (k = 3 <=> run.pc = "app") /\ (k = 4 <=> run.pc = "sync")
    BY UndoNames DEF CutErrors, Cut!Services
<1>3. /\ run' \in CutRuns /\ run'.pc = Cut!Undoing[k + 1] /\ run'.targets = run.targets /\ run'.nonce = run.nonce
      /\ run'.errors = run.errors \/ run'.errors = run.errors \cup {run.pc}
      /\ run.pc \in run'.errors \/ s1' = [s1 EXCEPT ![run.pc] = "up"]
    <2>1. CASE run' = Cut!Failing(run.pc)
        BY <1>1, <1>2, <2>1, CutFailing
    <2>2. CASE run' = Cut!Undone /\ s1' = [s1 EXCEPT ![run.pc] = "up"]
        BY <1>1, <2>2, CutUndone
    <2> QED BY <2>1, <2>2
<1>4. /\ s1' \in [Cut!Services -> {"up", "stopped", "fell"}]
      /\ \A s \in Cut!Services : s1[s] # "stopped" => s1'[s] # "stopped"
      /\ run.pc \in run'.errors \/ s1'[run.pc] # "stopped"
    BY <1>1, <1>2, <1>3 DEF CutTyped
<1>5. CutTyped' /\ CutHost'
    BY <1>1, <1>3, <1>4 DEF CutInv, CutTyped, CutHost
<1>6. CutTraceless'
    BY <1>1, <1>4 DEF CutInv, CutTraceless, Cut!Untouched
<1>7. CutMovesSafely
    BY DEF CutMovesSafely, Cut!SparesServing, Cut!CopiesAlone
<1>8. PICK j \in 1..11 : j = k + 1
    OBVIOUS
<1>9. RollbackAt(j)'
    <2>1. {"pg", "redis", "app", "sync"} \subseteq Cut!Services
        BY DEF Cut!Services
    <2> QED BY <1>1, <1>2, <1>3, <1>4, <1>8, <2>1 DEF RollbackAt, UndoneSoFar
<1> QED BY <1>3, <1>5, <1>6, <1>7, <1>8, <1>9, CutRetreats DEF CutInv

LEMMA StartsLegacyStep ==
    ASSUME CutInv, Cut!StartsLegacy
    PROVE  CutInv' /\ CutMovesSafely
<1>1. PICK k \in 1..4 : run.pc = Cut!Undoing[k]
    BY UndoNames DEF Cut!StartsLegacy, Cut!Services
<1>2. UNCHANGED <<s2, s4, s5, s6, s7, s8, s11>>
    BY DEF Cut!StartsLegacy, Cut!target, Cut!nginx
<1>3. \/ run' = Cut!Failing(run.pc) /\ s1' = s1 /\ s10' = s10
      \/ /\ run' = Cut!Undone /\ s1' = [s1 EXCEPT ![run.pc] = "up"]
         /\ s10' => s10 \/ s4 = "copied"
    BY DEF Cut!StartsLegacy
<1> QED BY <1>1, <1>2, <1>3, LegacyStarts

(* Giving up goes to the end, with an error noted. *)
LEMMA GivesUp ==
    ASSUME CutInv, NEW k \in 5..7, run.pc = Cut!Undoing[k], NEW e \in CutErrors, run' = Cut!GivenUp(e),
           UNCHANGED <<s1, s2, s4, s5, s8, s10, s11>>,
           s6' = s6 \/ s6' = "stable", s7' = s7 \/ s7' = "stable"
    PROVE  CutInv' /\ CutMovesSafely
<1>1. RollbackAt(k) /\ run.pc # "idle" /\ run \in CutRuns /\ CutTyped
    BY UndoHolds DEF CutInv
<1>2. /\ run' \in CutRuns /\ run'.pc = Cut!Undoing[11] /\ run'.targets = run.targets
      /\ run'.nonce = run.nonce /\ run'.errors = run.errors \cup {e}
    BY <1>1, CutGivenUp
<1>3. CutTyped' /\ CutHost'
    BY <1>1, <1>2 DEF CutInv, CutTyped, CutHost
<1>4. CutTraceless'
    BY <1>1 DEF CutInv, CutTraceless, Cut!Untouched
<1>5. CutMovesSafely
    BY DEF CutMovesSafely, Cut!SparesServing, Cut!CopiesAlone
<1>6. RollbackAt(11)'
    BY <1>1, <1>2 DEF RollbackAt, UndoneSoFar
<1> QED BY <1>2, <1>3, <1>4, <1>5, <1>6, CutRetreats DEF CutInv

LEMMA WritesStableStep ==
    ASSUME CutInv, Cut!WritesStable
    PROVE  CutInv' /\ CutMovesSafely
<1>1. run.pc = Cut!Undoing[5] /\ UNCHANGED <<s1, s2, s4, s5, s7, s8, s10, s11>>
    BY UndoNames DEF Cut!WritesStable, Cut!At, Cut!target, Cut!past
<1>2. RollbackAt(5) /\ run.pc # "idle" /\ run \in CutRuns /\ CutTyped
    BY <1>1, UndoHolds DEF CutInv
<1>3. CASE Cut!LegacyReady
    <2>1. s6' = "stable" /\ run' = Cut!Undone
        BY <1>3 DEF Cut!WritesStable
    <2>2. /\ run' \in CutRuns /\ run'.pc = Cut!Undoing[6] /\ run'.targets = run.targets
          /\ run'.nonce = run.nonce /\ run'.errors = run.errors
        BY <1>1, <1>2, <2>1, CutUndone
    <2>3. CutTyped' /\ CutHost'
        BY <1>1, <1>2, <2>1, <2>2 DEF CutInv, CutTyped, CutHost
    <2>4. CutTraceless' /\ CutMovesSafely
        BY <1>1, <1>2, <2>1 DEF CutInv, CutTraceless, Cut!Untouched, CutMovesSafely, Cut!SparesServing, Cut!CopiesAlone
    <2>5. RollbackAt(6)'
        BY <1>1, <1>2, <2>1, <2>2 DEF RollbackAt, UndoneSoFar
    <2> QED BY <2>2, <2>3, <2>4, <2>5, CutRetreats DEF CutInv
<1>4. CASE ~Cut!LegacyReady
    <2>1. s6' = s6 /\ run' = Cut!GivenUp("stable") /\ "stable" \in CutErrors
        BY <1>4 DEF Cut!WritesStable, CutErrors
    <2> QED BY <1>1, <2>1, GivesUp
<1> QED BY <1>3, <1>4

LEMMA ServesStableStep ==
    ASSUME CutInv, Cut!ServesStable
    PROVE  CutInv' /\ CutMovesSafely
<1>1. run.pc = Cut!Undoing[6] /\ UNCHANGED <<s1, s2, s4, s5, s6, s8, s10, s11>> /\ s7' = s6
    BY UndoNames DEF Cut!ServesStable, Cut!At, Cut!target, Cut!past
<1>2. RollbackAt(6) /\ run.pc # "idle" /\ run \in CutRuns /\ CutTyped
    BY <1>1, UndoHolds DEF CutInv
<1>3. s6 = "stable" /\ s7' = "stable"
    BY <1>1, <1>2 DEF RollbackAt, UndoneSoFar
<1>4. CASE run' = Cut!Undone
    <2>1. /\ run' \in CutRuns /\ run'.pc = Cut!Undoing[7] /\ run'.targets = run.targets
          /\ run'.nonce = run.nonce /\ run'.errors = run.errors
        BY <1>1, <1>2, <1>4, CutUndone
    <2>2. CutTyped' /\ CutHost'
        BY <1>1, <1>2, <1>3, <2>1 DEF CutInv, CutTyped, CutHost
    <2>3. CutTraceless' /\ CutMovesSafely
        BY <1>1, <1>2, <1>3 DEF CutInv, CutTraceless, Cut!Untouched, CutMovesSafely, Cut!SparesServing, Cut!CopiesAlone
    <2>4. RollbackAt(7)'
        BY <1>1, <1>2, <1>3, <2>1 DEF RollbackAt, UndoneSoFar
    <2> QED BY <2>1, <2>2, <2>3, <2>4, CutRetreats DEF CutInv
<1>5. CASE run' = Cut!GivenUp("stable")
    BY <1>1, <1>3, <1>5, GivesUp DEF CutErrors
<1> QED BY <1>4, <1>5 DEF Cut!ServesStable

LEMMA IdentifiesStep ==
    ASSUME CutInv, Cut!Identifies
    PROVE  CutInv' /\ CutMovesSafely
<1>1. run.pc = Cut!Undoing[7] /\ UNCHANGED <<s1, s2, s4, s5, s6, s7, s8, s10, s11>>
    BY UndoNames DEF Cut!Identifies, Cut!At, Cut!target, Cut!nginx, Cut!past
<1>2. RollbackAt(7) /\ run.pc # "idle" /\ run \in CutRuns
    BY <1>1, UndoHolds
<1>3. CASE run' = Cut!Undone
    <2>1. /\ run' \in CutRuns /\ run'.pc = Cut!Undoing[8] /\ run'.targets = run.targets
          /\ run'.nonce = run.nonce /\ run'.errors = run.errors
        BY <1>1, <1>2, <1>3, CutUndone
    <2>2. RollbackAt(8)'
        BY <1>1, <1>2, <2>1 DEF RollbackAt, UndoneSoFar
    <2> QED BY <1>1, <1>2, <2>1, <2>2, CutKeeps, CutRetreats DEF CutInv
<1>4. CASE run' = Cut!GivenUp("identity")
    BY <1>1, <1>4, GivesUp DEF CutErrors
<1> QED BY <1>3, <1>4 DEF Cut!Identifies

(* Once the stable upstream serves, the target may go. *)
LEMMA StableSpares ==
    ASSUME CutInv, run.pc # "idle", s7 = "stable", UNCHANGED <<s1, s6, s7, s8, s11>>,
           s8 = None => \A n \in Cut!Names : s2[n] = 0 => s2'[n] = 0,
           s8 = None /\ s4 = "empty" => s4' = "empty",
           s4' = s4 \/ s4' = "empty" \/ run.pc = "reset"
    PROVE  CutTraceless' /\ CutMovesSafely
<1>1. CutTraceless'
    BY DEF CutInv, CutTraceless, Cut!Untouched
<1>2. CutMovesSafely
    BY DEF CutMovesSafely, Cut!SparesServing, Cut!CopiesAlone
<1> QED BY <1>1, <1>2

(* docker compose down of the target, or a part of it. *)
LEMMA TakesSomeDown ==
    ASSUME CutInv, run.pc = Cut!Undoing[8], NEW S \in SUBSET Cut!Pinned, Cut!Removed(S),
           UNCHANGED <<s1, s4, s6, s7, s8, s10, s11>>,
           run' = Cut!Failing("down") \/ (run' = Cut!Undone /\ S = Cut!Pinned)
    PROVE  CutInv' /\ CutMovesSafely
<1>1. RollbackAt(8) /\ run.pc # "idle" /\ run \in CutRuns /\ CutTyped
    BY UndoHolds DEF CutInv
<1>2. s6 = "stable" /\ s7 = "stable" /\ run.targets
    BY <1>1 DEF RollbackAt, UndoneSoFar
<1>3. /\ s2' \in [Cut!Names -> Cut!Ids \cup {0}]
      /\ \A n \in Cut!Names : s2'[n] = IF n \in S THEN 0 ELSE s2[n]
    BY <1>1, CutRemoves DEF Cut!Names
<1>4. s2'["nonce"] = s2["nonce"] /\ Cut!Pinned \subseteq Cut!Names
    BY <1>3 DEF Cut!Names, Cut!Pinned
<1>5. /\ run' \in CutRuns /\ run'.pc = Cut!Undoing[9] /\ run'.targets = run.targets /\ run'.nonce = run.nonce
      /\ run.errors \subseteq run'.errors
      /\ "down" \in run'.errors \/ S = Cut!Pinned
    <2>1. CASE run' = Cut!Failing("down")
        BY <1>1, <2>1, CutFailing DEF CutErrors
    <2>2. CASE run' = Cut!Undone /\ S = Cut!Pinned
        BY <1>1, <2>2, CutUndone
    <2> QED BY <2>1, <2>2
<1>6. CutTyped' /\ CutHost'
    BY <1>1, <1>2, <1>3, <1>4, <1>5 DEF CutInv, CutTyped, CutHost
<1>7. CutTraceless' /\ CutMovesSafely
    BY <1>1, <1>2, <1>3, StableSpares
<1>8. "down" \in run'.errors \/ \A n \in Cut!Pinned : s2'[n] = 0
    BY <1>3, <1>4, <1>5
<1>9. UndoneSoFar(9)'
    BY <1>1, <1>5, CutStays DEF RollbackAt
<1>10. RollbackAt(9)'
    BY <1>2, <1>8, <1>9 DEF RollbackAt
<1> QED BY <1>5, <1>6, <1>7, <1>10, CutRetreats DEF CutInv

LEMMA TakesDownStep ==
    ASSUME CutInv, Cut!TakesDown
    PROVE  CutInv' /\ CutMovesSafely
<1>1. run.pc = Cut!Undoing[8] /\ UNCHANGED <<s1, s4, s5, s6, s7, s8, s10, s11>>
    BY UndoNames DEF Cut!TakesDown, Cut!At, Cut!nginx, Cut!past
<1>2. run.targets
    BY <1>1, UndoHolds DEF RollbackAt, UndoneSoFar
<1>3. Cut!Removed(Cut!Pinned) /\ (run' = Cut!Failing("down") \/ run' = Cut!Undone)
    BY <1>2 DEF Cut!TakesDown
<1> QED BY <1>1, <1>3, TakesSomeDown

(* And of the nonce container. *)
LEMMA TakesNonceSomeDown ==
    ASSUME CutInv, run.pc = Cut!Undoing[9], NEW S \in SUBSET {"nonce"},
           Cut!Removed(S) \/ (s2' = s2 /\ S = {}),
           UNCHANGED <<s1, s4, s6, s7, s8, s10, s11>>,
           run' = Cut!Failing("nonce") \/ (run' = Cut!Undone /\ (S = {"nonce"} \/ ~run.nonce))
    PROVE  CutInv' /\ CutMovesSafely
<1>1. RollbackAt(9) /\ run.pc # "idle" /\ run \in CutRuns /\ CutTyped
    BY UndoHolds DEF CutInv
<1>2. s6 = "stable" /\ s7 = "stable" /\ run.targets
    BY <1>1 DEF RollbackAt, UndoneSoFar
<1>3. /\ s2' \in [Cut!Names -> Cut!Ids \cup {0}]
      /\ \A n \in Cut!Names : s2'[n] = IF n \in S THEN 0 ELSE s2[n]
    <2>1. S \in SUBSET Cut!Names
        BY DEF Cut!Names
    <2>2. CASE Cut!Removed(S)
        BY <1>1, <2>1, <2>2, CutRemoves
    <2>3. CASE s2' = s2 /\ S = {}
        BY <1>1, <2>3 DEF CutTyped
    <2> QED BY <2>2, <2>3
<1>4. /\ \A n \in Cut!Pinned : s2'[n] = s2[n]
      /\ s2'["nonce"] = IF S = {"nonce"} THEN 0 ELSE s2["nonce"]
    <2>1. "nonce" \notin Cut!Pinned /\ Cut!Names = Cut!Pinned \cup {"nonce"}
        BY DEF Cut!Names, Cut!Pinned
    <2>2. "nonce" \in S <=> S = {"nonce"}
        OBVIOUS
    <2> QED BY <1>3, <2>1, <2>2
<1>5. /\ run' \in CutRuns /\ run'.pc = Cut!Undoing[10] /\ run'.targets = run.targets /\ run'.nonce = run.nonce
      /\ run.errors \subseteq run'.errors
      /\ "nonce" \in run'.errors \/ S = {"nonce"} \/ ~run.nonce
    <2>1. CASE run' = Cut!Failing("nonce")
        BY <1>1, <2>1, CutFailing DEF CutErrors
    <2>2. CASE run' = Cut!Undone /\ (S = {"nonce"} \/ ~run.nonce)
        BY <1>1, <2>2, CutUndone
    <2> QED BY <2>1, <2>2
<1>6. ~run.nonce => s2["nonce"] = 0
    BY <1>2 DEF CutInv, CutHost
<1>7. CutTyped' /\ CutHost'
    BY <1>1, <1>2, <1>3, <1>4, <1>5 DEF CutInv, CutTyped, CutHost
<1>8. CutTraceless' /\ CutMovesSafely
    BY <1>1, <1>2, <1>3, StableSpares
<1>9. UndoneSoFar(10)'
    BY <1>1, <1>5, CutStays DEF RollbackAt
<1>10. "down" \in run'.errors \/ \A n \in Cut!Pinned : s2'[n] = 0
    BY <1>1, <1>4, <1>5 DEF RollbackAt, UndoneSoFar
<1>11. "nonce" \in run'.errors \/ s2'["nonce"] = 0
    BY <1>4, <1>5, <1>6
<1>12. RollbackAt(10)'
    BY <1>2, <1>9, <1>10, <1>11 DEF RollbackAt
<1> QED BY <1>5, <1>7, <1>8, <1>12, CutRetreats DEF CutInv

LEMMA TakesNonceDownStep ==
    ASSUME CutInv, Cut!TakesNonceDown
    PROVE  CutInv' /\ CutMovesSafely
<1>1. run.pc = Cut!Undoing[9] /\ UNCHANGED <<s1, s4, s6, s7, s8, s10, s11>>
    BY UndoNames DEF Cut!TakesNonceDown, Cut!At, Cut!nginx, Cut!past
<1>2. CASE run.nonce
    <2>1. Cut!Removed({"nonce"}) /\ (run' = Cut!Failing("nonce") \/ run' = Cut!Undone)
        BY <1>2 DEF Cut!TakesNonceDown
    <2> QED BY <1>1, <2>1, TakesNonceSomeDown
<1>3. CASE ~run.nonce
    <2>1. s2' = s2 /\ run' = Cut!Undone
        BY <1>3 DEF Cut!TakesNonceDown
    <2>2. {} \in SUBSET {"nonce"}
        OBVIOUS
    <2> QED BY <1>1, <1>3, <2>1, <2>2, TakesNonceSomeDown
<1> QED BY <1>2, <1>3

LEMMA ResetsDataStep ==
    ASSUME CutInv, Cut!ResetsData
    PROVE  CutInv' /\ CutMovesSafely
<1>1. run.pc = Cut!Undoing[10] /\ UNCHANGED <<s1, s2, s6, s7, s8, s11>> /\ run' = Cut!Undone
    BY UndoNames DEF Cut!ResetsData, Cut!At, Cut!nginx
<1>2. RollbackAt(10) /\ run.pc # "idle" /\ run \in CutRuns
    BY <1>1, UndoHolds
<1>3. \/ s4' = s4 /\ s10' = s10 /\ run.errors \cap {"down", "nonce"} # {}
      \/ s4' = "empty" /\ ~s10' /\ run.errors \cap {"down", "nonce"} = {}
    BY DEF Cut!ResetsData
<1>4. /\ run' \in CutRuns /\ run'.pc = Cut!Undoing[11] /\ run'.targets = run.targets
      /\ run'.nonce = run.nonce /\ run'.errors = run.errors
    BY <1>1, <1>2, CutUndone
<1>5. s6 = "stable" /\ s7 = "stable"
    BY <1>2 DEF RollbackAt, UndoneSoFar
<1>6. CutTyped' /\ CutHost'
    BY <1>1, <1>3, <1>4 DEF CutInv, CutTyped, CutHost
<1>7. CutTraceless' /\ CutMovesSafely
    BY <1>1, <1>2, <1>3, <1>5, StableSpares
<1>8. run.errors \cap {"down", "nonce"} = {} => NoTargets
    BY <1>2 DEF RollbackAt, UndoneSoFar, NoTargets, Cut!Names
<1>9. NoTargets => NoTargets'
    BY <1>1 DEF NoTargets
<1>10. RollbackAt(11)'
    BY <1>1, <1>2, <1>3, <1>4, <1>5, <1>8, <1>9 DEF RollbackAt, UndoneSoFar
<1> QED BY <1>4, <1>6, <1>7, <1>10, CutRetreats DEF CutInv

(* The end of a run leaves the host as it stands; without a record it stands  *)
(* as before, or the record was not to be had.                               *)
LEMMA CutEnds ==
    ASSUME CutInv, run.pc # "idle", run' = Cut!Idle, UNCHANGED <<s1, s2, s4, s6, s7, s10, s11>>,
           s8' \in Cut!Documents \cup {None}, s8' # None => s8'.targets,
           s8' # None /\ s2["nonce"] # 0 => s8'.nonce,
           s8' = None => s8 = None \/ Cut!Untouched
    PROVE  CutInv' /\ CutMovesSafely
<1>1. run' \in CutRuns /\ run'.pc = "idle" /\ ~run'.targets
    BY CutIdles
<1>2. CutTyped' /\ CutHost'
    BY <1>1 DEF CutInv, CutTyped, CutHost
<1>3. CutTraceless'
    BY DEF CutInv, CutTraceless, Cut!Untouched
<1>4. CutMovesSafely
    BY DEF CutMovesSafely, Cut!SparesServing, Cut!CopiesAlone
<1> QED BY <1>1, <1>2, <1>3, <1>4, CutLeaves DEF CutInv

LEMMA CutVerified ==
    ASSUME CutInv, run.pc = Cut!Undoing[11], Cut!Verified
    PROVE  Cut!Untouched
<1>1. RollbackAt(11) /\ run.errors = {}
    BY UndoHolds DEF Cut!Verified
<1>2. s1["pg"] # "stopped" /\ s1["redis"] # "stopped" /\ s1["app"] # "stopped" /\ s1["sync"] # "stopped"
    BY <1>1 DEF RollbackAt, UndoneSoFar
<1>3. s6 = "stable" /\ s7 = "stable" /\ NoTargets /\ s4 = "empty"
    BY <1>1 DEF RollbackAt, UndoneSoFar
<1> QED BY <1>2, <1>3 DEF Cut!Untouched, Cut!Services, NoTargets

LEMMA FinishesStep ==
    ASSUME CutInv, Cut!Finishes \/ Cut!FinishFails
    PROVE  CutInv' /\ CutMovesSafely
<1>1. run.pc = Cut!Undoing[11] /\ UNCHANGED <<s1, s2, s4, s6, s7, s10, s11>> /\ run' = Cut!Idle
    BY UndoNames DEF Cut!Finishes, Cut!FinishFails, Cut!At, Cut!target, Cut!nginx
<1>2. s8' = s8 \/ s8' = Cut!Document \/ (s8' = None /\ Cut!Verified)
    BY DEF Cut!Finishes, Cut!FinishFails
<1>3. RollbackAt(11) /\ run.pc # "idle" /\ run \in CutRuns
    BY <1>1, UndoHolds
<1>4. run.targets
    BY <1>3 DEF RollbackAt, UndoneSoFar
<1>5. CASE s8' = s8
    BY <1>1, <1>3, <1>5, CutEnds DEF CutInv, CutTyped, CutHost
<1>6. CASE s8' = Cut!Document
    <2>1. s8' \in Cut!Documents /\ s8' # None /\ s8'.targets /\ s8'.nonce = run.nonce
        BY <1>3, <1>4, <1>6, DocumentIs
    <2> QED BY <1>1, <1>3, <1>4, <2>1, CutEnds DEF CutInv, CutHost
<1>7. CASE s8' = None /\ Cut!Verified
    BY <1>1, <1>3, <1>7, CutVerified, CutEnds
<1> QED BY <1>2, <1>5, <1>6, <1>7

(* What goes wrong. *)
LEMMA KilledStep ==
    ASSUME CutInv, Cut!Killed
    PROVE  CutInv' /\ CutMovesSafely
<1>1. run.pc # "idle" /\ run' = Cut!Idle /\ UNCHANGED <<s1, s2, s4, s6, s7, s8, s10, s11>>
    BY DEF Cut!Killed, Cut!At, Cut!target, Cut!nginx
<1> QED BY <1>1, CutEnds DEF CutInv, CutTyped, CutHost

LEMMA InterruptedStep ==
    ASSUME CutInv, Cut!Interrupted
    PROVE  CutInv' /\ CutMovesSafely
<1>1. run' = Cut!Caught /\ UNCHANGED <<s1, s2, s4, s6, s7, s8, s10, s11>>
    BY DEF Cut!Interrupted, Cut!target, Cut!nginx
<1>2. PICK k \in 1..28 : run.pc = Cut!Steps[k]
    <2>1. run.pc \in {Cut!Steps[i] : i \in DOMAIN Cut!Steps}
        BY DEF Cut!Interrupted, Cut!Forward, Cut!ToSet
    <2> QED BY <2>1, StepOrder
<1>3. run \in CutRuns
    BY <1>2, StepHolds
<1> QED BY <1>1, <1>2, <1>3, CutCaught, CutStopsLooking

LEMMA BreaksOff ==
    ASSUME CutInv, NEW k \in 3..26, run.pc = Cut!Steps[k], run' = Cut!Caught,
           UNCHANGED <<s1, s6, s7, s8, s10, s11>>,
           s2' \in [Cut!Names -> Cut!Ids \cup {0}], s2'["nonce"] = s2["nonce"] \/ s2'["nonce"] = 0,
           s4' = s4 \/ (s4' = "fresh" /\ s4 = "empty") \/ s4' = "partial",
           s4' = "partial" /\ s4' # s4 => \A s \in Cut!Writers : s1[s] # "up"
    PROVE  CutInv' /\ CutMovesSafely
<1>1. ExecuteAt(k) /\ run \in CutRuns
    BY StepHolds
<1>2. s8 # None /\ s7 = "stable" /\ run.targets
    BY <1>1 DEF ExecuteAt
<1>3. run' \in CutRuns /\ run'.pc = "caught" /\ run'.targets = run.targets /\ run'.nonce = run.nonce
    BY <1>1, CutCaught
<1>4. CutTyped' /\ CutHost'
    BY <1>2, <1>3 DEF CutInv, CutTyped, CutHost
<1>5. CutTraceless' /\ CutMovesSafely
    BY <1>2, CutRecorded
<1> QED BY <1>3, <1>4, <1>5, CutFallsBack DEF CutInv

LEMMA FailsHalfwayStep ==
    ASSUME CutInv, Cut!FailsHalfway
    PROVE  CutInv' /\ CutMovesSafely
<1>1. UNCHANGED <<s1, s6, s7, s10>> /\ CutTyped
    BY DEF Cut!FailsHalfway, Cut!nginx, CutInv
<1>2. CASE run.pc \in {"mark", "marknonce"} /\ run' = [Cut!Marked EXCEPT !.pc = "caught"]
                /\ UNCHANGED <<s2, s4, s8, s11>>
    <2>1. PICK k \in {2, 8} : run.pc = Cut!Steps[k]
        BY <1>2, StepNames
    <2>2. ExecuteAt(k) /\ run \in CutRuns /\ run.pc # "idle"
        BY <2>1, StepHolds
    <2>3. run' \in CutRuns /\ run'.pc = "caught" /\ run'.targets /\ (k = 8 => run'.nonce)
        <3>1. CASE k = 2
            <4>1. run' = [pc |-> "caught", targets |-> TRUE, nonce |-> run.nonce, pins |-> run.pins, errors |-> run.errors]
                BY <1>2, <2>1, <2>2, <3>1, StepNames DEF Cut!Marked, Cut!At, Cut!Onward, CutRuns
            <4> QED BY <2>2, <3>1, <4>1 DEF CutRuns, CutPlaces
        <3>2. CASE k = 8
            <4>1. run' = [pc |-> "caught", targets |-> run.targets, nonce |-> TRUE, pins |-> run.pins, errors |-> run.errors]
                BY <1>2, <2>1, <2>2, <3>2, StepNames DEF Cut!Marked, Cut!At, Cut!Onward, CutRuns
            <4>2. run.targets = TRUE
                BY <2>2, <3>2 DEF ExecuteAt, CutRuns
            <4> QED BY <2>2, <3>2, <4>1, <4>2 DEF CutRuns, CutPlaces
        <3> QED BY <2>1, <3>1, <3>2
    <2>4. k = 2 => s2["nonce"] = 0
        BY <2>2 DEF ExecuteAt, NoTargets, Cut!Names
    <2>5. CutTyped' /\ CutHost'
        BY <1>1, <1>2, <2>1, <2>3, <2>4 DEF CutInv, CutTyped, CutHost
    <2>6. CutTraceless'
        BY <1>1, <1>2, <2>2 DEF CutInv, CutTraceless, Cut!Untouched
    <2>7. CutMovesSafely
        BY <1>1, <1>2 DEF CutMovesSafely, Cut!SparesServing, Cut!CopiesAlone
    <2> QED BY <2>3, <2>5, <2>6, <2>7, CutLeaves DEF CutInv
<1>3. CASE run.pc \in {"up", "reup"} /\ (\E n \in {"pg", "redis"} : Cut!Created({n}))
             /\ s4' = (IF run.pc = "up" /\ s4 = "empty" THEN "fresh" ELSE s4) /\ run' = Cut!Caught /\ UNCHANGED <<s8, s11>>
    <2>1. PICK k \in {3, 17} : run.pc = Cut!Steps[k]
        BY <1>3, StepNames
    <2>2. PICK n \in {"pg", "redis"} : Cut!Created({n})
        BY <1>3
    <2>3. {n} \in SUBSET Cut!Names /\ "nonce" \in Cut!Names /\ "nonce" \notin {n}
        BY DEF Cut!Names, Cut!Pinned
    <2>4. s2' \in [Cut!Names -> Cut!Ids \cup {0}] /\ s2'["nonce"] = s2["nonce"]
        BY <1>1, <2>2, <2>3, CutCreates
    <2>5. s4' = s4 \/ (s4' = "fresh" /\ s4 = "empty")
        BY <1>3
    <2> QED BY <1>1, <1>3, <2>1, <2>4, <2>5, BreaksOff
<1>4. CASE run.pc = "copy" /\ s4' = (IF s4 = "fresh" THEN "partial" ELSE s4) /\ run' = Cut!Caught /\ UNCHANGED <<s2, s8, s11>>
    <2>1. run.pc = Cut!Steps[14]
        BY <1>4, StepNames
    <2>2. \A s \in Cut!Writers : s1[s] # "up"
        BY <2>1, WritersAreOff
    <2> QED BY <1>1, <1>4, <2>1, <2>2, BreaksOff DEF CutTyped
<1>5. CASE run.pc = "droppg" /\ run' = Cut!Caught /\ UNCHANGED <<s2, s4, s8, s11>>
    <2>1. run.pc = Cut!Steps[15]
        BY <1>5, StepNames
    <2> QED BY <1>1, <1>5, <2>1, BreaksOff DEF CutTyped
<1>6. CASE run.pc = "dropnonce" /\ Cut!Removed({"nonce"}) /\ run' = Cut!Caught /\ UNCHANGED <<s4, s8, s11>>
    <2>1. run.pc = Cut!Steps[20]
        BY <1>6, StepNames
    <2>2. {"nonce"} \in SUBSET Cut!Names /\ "nonce" \in Cut!Names
        BY DEF Cut!Names
    <2>3. s2' \in [Cut!Names -> Cut!Ids \cup {0}] /\ s2'["nonce"] = 0
        BY <1>1, <1>6, <2>2, CutRemoves
    <2> QED BY <1>1, <1>6, <2>1, <2>3, BreaksOff
<1>7. CASE run.pc = "clear" /\ s8' = None /\ s11' = TRUE /\ run' = Cut!Caught /\ UNCHANGED <<s2, s4>>
    <2>1. ExecuteAt(28) /\ run \in CutRuns
        BY <1>7, StepNames, StepHolds
    <2>2. run' \in CutRuns /\ run'.pc = "caught" /\ run'.targets /\ run'.nonce = run.nonce
        BY <1>7, <2>1, CutCaught DEF ExecuteAt
    <2>3. CutTyped' /\ CutHost'
        BY <1>1, <1>7, <2>1, <2>2 DEF CutInv, CutTyped, CutHost, ExecuteAt
    <2>4. CutTraceless'
        BY <1>7 DEF CutTraceless
    <2>5. CutMovesSafely
        BY <1>7 DEF CutMovesSafely, Cut!SparesServing, Cut!CopiesAlone
    <2> QED BY <2>2, <2>3, <2>4, <2>5, CutLeaves DEF CutInv
<1> QED BY <1>2, <1>3, <1>4, <1>5, <1>6, <1>7 DEF Cut!FailsHalfway, Cut!target, Cut!At

LEMMA UndoingFailsStep ==
    ASSUME CutInv, Cut!UndoingFails
    PROVE  CutInv' /\ CutMovesSafely
<1>1. UNCHANGED <<s8, s11>> /\ CutTyped
    BY DEF Cut!UndoingFails, CutInv
<1>2. CASE /\ run.pc \in Cut!Services
           /\ run' = Cut!Failing(run.pc)
           /\ s1' \in {s1, [s1 EXCEPT ![run.pc] = "up"]}
           /\ s10' = (s10 \/ (s4 = "copied" /\ \E s \in Cut!Writers : s1'[s] = "up"))
           /\ UNCHANGED <<s2, s4, s5, s6, s7>>
    <2>1. PICK k \in 1..4 : run.pc = Cut!Undoing[k]
        BY <1>2, UndoNames DEF Cut!Services
    <2>2. s10' => s10 \/ s4 = "copied"
        BY <1>2
    <2> QED BY <1>1, <1>2, <2>1, <2>2, LegacyStarts
<1>3. CASE /\ run.pc \in {"stable", "serve"}
           /\ run' = Cut!GivenUp("stable")
           /\ s6' \in {s6, IF Cut!LegacyReady THEN "stable" ELSE s6}
           /\ s7' \in {s7, IF run.pc = "serve" THEN s6 ELSE s7}
           /\ UNCHANGED <<s1, s2, s4, s5, s10>>
    <2>1. PICK k \in {5, 6} : run.pc = Cut!Undoing[k]
        BY <1>3, UndoNames
    <2>2. run.pc = "serve" => k = 6
        BY <2>1, UndoNames
    <2>3. k = 6 => s6 = "stable"
        BY <2>1, UndoHolds DEF RollbackAt, UndoneSoFar
    <2>4. (s6' = s6 \/ s6' = "stable") /\ (s7' = s7 \/ s7' = "stable") /\ "stable" \in CutErrors
        BY <1>3, <2>2, <2>3 DEF CutErrors
    <2> QED BY <1>1, <1>3, <2>1, <2>4, GivesUp
<1>4. CASE run.pc = "identify" /\ run' = Cut!GivenUp("identity") /\ UNCHANGED <<s1, s2, s4, s5, s6, s7, s10>>
    BY <1>1, <1>4, UndoNames, GivesUp DEF CutErrors
<1>5. CASE /\ run.pc = "down" /\ run' = Cut!Failing("down") /\ \E S \in SUBSET Cut!Pinned : Cut!Removed(S)
           /\ UNCHANGED <<s1, s4, s6, s7, s10>>
    BY <1>1, <1>5, UndoNames, TakesSomeDown
<1>6. CASE /\ run.pc = "downnonce" /\ run' = Cut!Failing("nonce") /\ \E S \in SUBSET {"nonce"} : Cut!Removed(S)
           /\ UNCHANGED <<s1, s4, s6, s7, s10>>
    BY <1>1, <1>6, UndoNames, TakesNonceSomeDown
<1>7. CASE /\ run.pc = "reset" /\ run.errors \cap {"down", "nonce"} = {}
           /\ run' = Cut!Failing("reset")
           /\ s4' \in {s4, IF s4 = "empty" THEN "empty" ELSE "partial"}
           /\ UNCHANGED <<s1, s2, s6, s7, s10>>
    <2>1. run.pc = Cut!Undoing[10]
        BY <1>7, UndoNames
    <2>2. RollbackAt(10) /\ run.pc # "idle" /\ run \in CutRuns
        BY <2>1, UndoHolds
    <2>3. /\ run' \in CutRuns /\ run'.pc = Cut!Undoing[11] /\ run'.targets = run.targets
          /\ run'.nonce = run.nonce /\ run'.errors = run.errors \cup {"reset"}
        BY <1>7, <2>1, <2>2, CutFailing DEF CutErrors
    <2>4. s7 = "stable" /\ run.targets
        BY <2>2 DEF RollbackAt, UndoneSoFar
    <2>5. CutTyped' /\ CutHost'
        BY <1>1, <1>7, <2>3 DEF CutInv, CutTyped, CutHost
    <2>6. s4' = s4 \/ (s4 # "empty" /\ s4' = "partial")
        BY <1>7
    <2>7. CutTraceless' /\ CutMovesSafely
        BY <1>1, <1>7, <2>2, <2>4, <2>6, StableSpares
    <2>8. run.errors \subseteq run'.errors /\ "reset" \in run'.errors
        BY <2>3
    <2>9. UndoneSoFar(11)'
        BY <1>7, <2>2, <2>3, <2>8, CutStays DEF RollbackAt
    <2>10. RollbackAt(11)'
        BY <2>8, <2>9 DEF RollbackAt
    <2> QED BY <2>3, <2>5, <2>7, <2>10, CutRetreats DEF CutInv
<1> QED BY <1>2, <1>3, <1>4, <1>5, <1>6, <1>7 DEF Cut!UndoingFails, Cut!target, Cut!nginx, Cut!At

(* The controller stands where it was; a service or a container may have fallen over. *)
LEMMA OthersStep ==
    ASSUME CutInv, Cut!DeadlinePasses \/ Cut!FallsOver \/ UNCHANGED Cut!vars
    PROVE  CutInv' /\ CutMovesSafely
<1>1. /\ UNCHANGED <<s2, s4, s5, s6, s7, s8, s10, s11, run>>
      /\ s1' = s1 \/ \E s \in Cut!Services : s1' = [s1 EXCEPT ![s] = "fell"]
    BY DEF Cut!DeadlinePasses, Cut!FallsOver, Cut!vars, Cut!target, Cut!nginx, Cut!past
<1>2. /\ s1' \in [Cut!Services -> {"up", "stopped", "fell"}]
      /\ \A s \in Cut!Services : (s1[s] # "stopped" => s1'[s] # "stopped") /\ (s1[s] # "up" => s1'[s] # "up")
    BY <1>1 DEF CutInv, CutTyped
<1>3. {"pg", "redis", "app", "sync"} \subseteq Cut!Services /\ Cut!Writers \subseteq Cut!Services
    BY DEF Cut!Services, Cut!Writers
<1>4. CutTyped' /\ CutHost'
    BY <1>1, <1>2 DEF CutInv, CutTyped, CutHost
<1>5. CutTraceless'
    BY <1>1, <1>2, <1>3 DEF CutInv, CutTraceless, Cut!Untouched, Cut!Migrated
<1>6. CutMovesSafely
    BY <1>1 DEF CutMovesSafely, Cut!SparesServing, Cut!CopiesAlone
<1>7. ASSUME NEW k \in 1..28, run'.pc = Cut!Steps[k]
      PROVE  ExecuteAt(k)'
    <2>1. ExecuteAt(k)
        BY <1>1, <1>7, StepHolds
    <2> QED BY <1>1, <1>2, <1>3, <2>1 DEF ExecuteAt, NoTargets
<1>8. ASSUME NEW k \in 1..11, run'.pc = Cut!Undoing[k]
      PROVE  RollbackAt(k)'
    <2>1. RollbackAt(k)
        BY <1>1, <1>8, UndoHolds
    <2> QED BY <1>1, <1>2, <1>3, <2>1 DEF RollbackAt, UndoneSoFar, NoTargets
<1>9. CutPlace'
    BY <1>1, <1>7, <1>8 DEF CutInv, CutPlace
<1> QED BY <1>4, <1>5, <1>6, <1>9 DEF CutInv

LEMMA CutStep ==
    ASSUME CutInv, [Cut!Next]_(Cut!vars)
    PROVE  CutInv' /\ CutMovesSafely
<1>1. CASE Cut!Works
    BY <1>1, ChecksHostStep, MarksStep, PersistsStep, StartsTargetsStep, LooksStep, StopsWriterStep, CopiesStep,
       DropsPostgresStep, DropsNonceStep, SwitchesStep, ReloadsStep, CompletesStep, CatchesStep, StartsLegacyStep,
       WritesStableStep, ServesStableStep, IdentifiesStep, TakesDownStep, TakesNonceDownStep, ResetsDataStep,
       FinishesStep DEF Cut!Works
<1>2. CASE Cut!GoesWrong
    BY <1>2, InterruptedStep, FailsHalfwayStep, UndoingFailsStep, FinishesStep, KilledStep, OthersStep DEF Cut!GoesWrong
<1> QED BY <1>1, <1>2, AppliesStep, RecoversStep, OthersStep DEF Cut!Next

LEMMA CutInit ==
    ASSUME Cut!Init
    PROVE  CutInv
<1>1. run.pc = "idle" /\ ~run.targets /\ run \in CutRuns
    BY DEF Cut!Init, Cut!Idle, Cut!NoPins, CutRuns, CutPlaces, Cut!Ids
<1>2. CutTyped /\ CutHost
    BY <1>1 DEF Cut!Init, CutTyped, CutHost
<1>3. CutTraceless
    BY DEF Cut!Init, CutTraceless, Cut!Untouched
<1>4. CutPlace
    <2>1. \A k \in 1..28 : run.pc # Cut!Steps[k]
        BY <1>1, StepOrder
    <2>2. \A k \in 1..11 : run.pc # Cut!Undoing[k]
        BY <1>1, UndoOrder
    <2> QED BY <1>1, <2>1, <2>2 DEF CutPlace
<1> QED BY <1>2, <1>3, <1>4 DEF CutInv

LEMMA CutInvariance == Spec => [](tool = "cutover" => CutInv)
<1>1. Init => (tool = "cutover" => CutInv)
    BY CutInit DEF Init
<1>2. (tool = "cutover" => CutInv) /\ [Next]_vars => (tool = "cutover" => CutInv)'
    BY CutoverSteps, CutStep
<1> QED BY <1>1, <1>2, PTL DEF Spec

(* At every instant, also for who looks after the controller was killed: a    *)
(* host without a recovery record is as it was before, or it is migrated with *)
(* all that the legacy services ever wrote (maintenance-cutover.py, execute,  *)
(* rollback and clear_recovery_state).                                       *)
THEOREM NoRecordMeansNoTrace == Spec => []NoRecordNoTrace
<1>1. (tool = "cutover" => CutInv) => NoRecordNoTrace
    BY DEF CutInv, CutTraceless, NoRecordNoTrace, Cut!NoRecordNoTrace
<1> QED BY <1>1, CutInvariance, PTL

(* No step takes a target container down or empties its data while Nginx      *)
(* sends the traffic there, and none copies beside a running legacy writer    *)
(* (maintenance-cutover.py, execute and rollback).                            *)
THEOREM CutoverMovesSafely == Spec => MovesSafely
<1>1. (tool = "cutover" => CutInv) /\ [Next]_vars => [tool = "cutover" => Cut!SparesServing /\ Cut!CopiesAlone]_vars
    BY CutoverSteps, CutStep DEF CutMovesSafely
<1> QED BY <1>1, CutInvariance, PTL DEF Spec, MovesSafely
=============================================================================
