------------------------- MODULE OperatorToolsProofs -------------------------
(***************************************************************************)
(* Theorems about the operator's tools.  A behaviour is the life of one    *)
(* tool, so each tool has an inductive invariant of its own.               *)
(***************************************************************************)
EXTENDS MaintenanceCutoverProofs

(* No step is another tool's. *)
LEMMA OneTool ==
    ASSUME [Next]_vars
    PROVE  /\ tool' = tool
           /\ tool = "retire" => [Retire!Next]_(Retire!vars)
           /\ tool = "aop" => [Aop!Next]_(Aop!vars)
           /\ tool = "redis" => [Redis!Next]_(Redis!vars)
           /\ tool = "rpcbind" => [Rpcbind!Next]_(Rpcbind!vars)
           /\ tool = "unit" => [SyncUnit!Next]_(SyncUnit!vars)
           /\ tool = "direct" => [Direct!Next]_(Direct!vars)
           /\ tool = "canary" => [Canary!Next]_(Canary!vars)
BY DEF Next, Redises, Rpcbinds, Units, Directs, Aops, Retires, Canaries, Cutovers, vars,
       Retire!vars, Retire!canary, Retire!paths, Aop!vars, Aop!cloud, Aop!local, Redis!vars, Rpcbind!vars,
       SyncUnit!vars, SyncUnit!host, Direct!vars, Canary!vars, Canary!host, Canary!image

-----------------------------------------------------------------------------
(* The traffic canary, as the retirement runs beside it.                     *)

CanaryInv == Retire!T!TypeOK /\ Retire!T!ProvedSoFar

(* The same, command by command. *)
Stack == [{"postgres", "redis", "app"} -> {"absent", "up"}]

StartReached(i) ==
    /\ i <= 6 => s2["app"] = "absent"
    /\ i \in 3..6 => s2["postgres"] = "up" /\ s2["redis"] = "up"
    /\ i \in 4..6 => "distinct" \in s3
    /\ i \in 5..6 => s4 = "empty"
    /\ i = 6 => "guards" \in s3 /\ "role" \in s3

CanaryRun == [op : {"idle", "apply"}, phase : {"main", "undo"}, i : Nat]

CanaryShape ==
    /\ s2 \in Stack /\ s4 \in {"empty", "used"}
    /\ s1 \in [{"postgres", "redis", "app"} -> {"absent", "up", "stopped"}]
    /\ run \in CanaryRun
    /\ run.op # "idle" => \/ run.phase = "main" /\ run.i \in 1..9 /\ StartReached(run.i)
                          \/ run.phase = "undo" /\ run.i = 1

LEMMA CanaryInvIsShape ==
    /\ CanaryInv <=> CanaryShape
    /\ CanaryInv' <=> CanaryShape'
BY DEF CanaryInv, CanaryShape, StartReached, CanaryRun, Stack, Retire!T!TypeOK, Retire!T!ProvedSoFar, Retire!T!Healthy,
       Retire!T!Up, Retire!T!Data, Retire!T!Distinct, Retire!T!AppRoleKept, Retire!T!Components, Retire!T!Busy,
       Retire!T!Program, Retire!T!Starting, Retire!T!TakingDown

(* What each command of the start and of the clean-up is.                    *)
LEMMA CanaryCommands ==
    /\ run.phase = "main" =>
          /\ Len(Retire!T!Program) = 9
          /\ run.i \in {1, 6} => Retire!T!Verb = "up"
          /\ run.i \in {2, 7} => Retire!T!Verb = "healthy"
          /\ run.i \in {3, 9} => Retire!T!Verb = "distinct"
          /\ run.i = 4 => Retire!T!Verb = "empty"
          /\ run.i = 5 => Retire!T!Verb = "gates"
          /\ run.i = 8 => Retire!T!Verb = "runtime"
          /\ run.i \in {1, 2} => Retire!T!Command[2] = Retire!T!Data
          /\ run.i = 6 => Retire!T!Command[2] = {"app"}
    /\ run.phase = "undo" =>
          /\ Len(Retire!T!Program) = 1
          /\ run.i = 1 => Retire!T!Verb = "down"
BY DEF Retire!T!Verb, Retire!T!Command, Retire!T!Program, Retire!T!Starting, Retire!T!TakingDown

(* A command changes the target and its cache as its verb says.              *)
LEMMA CanaryActs ==
    ASSUME CanaryShape, run.op # "idle", NEW done \in SUBSET Retire!T!Components, Retire!T!Acts(done)
    PROVE  /\ s2' \in Stack /\ s4' \in {"empty", "used"}
           /\ (run.phase = "undo" \/ run.i # 6) => (s2'["app"] = "up" => s2["app"] = "up")
<1>1. s2' \in Stack /\ s4' \in {"empty", "used"}
    BY DEF CanaryShape, Stack, Retire!T!Acts, Retire!T!Components
<1>2. CASE run.phase = "main" /\ run.i = 1
    BY <1>2, CanaryCommands DEF CanaryShape, Stack, Retire!T!Acts, Retire!T!Components, Retire!T!Data
<1>3. CASE Retire!T!Verb # "up"
    BY <1>3 DEF CanaryShape, Stack, Retire!T!Acts, Retire!T!Components
<1>4. run.phase = "undo" \/ (run.phase = "main" /\ run.i \notin {1, 6}) => Retire!T!Verb # "up"
    BY CanaryCommands DEF CanaryShape
<1> QED BY <1>1, <1>2, <1>3, <1>4 DEF CanaryShape, CanaryRun

LEMMA CanaryRuns ==
    ASSUME run \in CanaryRun
    PROVE  /\ \A n \in Nat : run' = [run EXCEPT !.i = n] =>
                 run' \in CanaryRun /\ run'.op = run.op /\ run'.phase = run.phase /\ run'.i = n
           /\ run' = [run EXCEPT !.phase = "undo", !.i = 1] =>
                 run' \in CanaryRun /\ run'.op = run.op /\ run'.phase = "undo" /\ run'.i = 1
           /\ run' = Retire!T!Idle => run' \in CanaryRun /\ run'.op = "idle"
<1>1. ASSUME NEW n \in Nat, run' = [run EXCEPT !.i = n]
      PROVE  run' \in CanaryRun /\ run'.op = run.op /\ run'.phase = run.phase /\ run'.i = n
    BY <1>1 DEF CanaryRun
<1>2. ASSUME run' = [run EXCEPT !.phase = "undo", !.i = 1]
      PROVE  run' \in CanaryRun /\ run'.op = run.op /\ run'.phase = "undo" /\ run'.i = 1
    BY <1>2 DEF CanaryRun
<1>3. ASSUME run' = Retire!T!Idle PROVE run' \in CanaryRun /\ run'.op = "idle"
    BY <1>3 DEF CanaryRun, Retire!T!Idle
<1> QED BY <1>1, <1>2, <1>3

LEMMA CanaryGoes ==
    ASSUME CanaryShape, run.op # "idle", Retire!T!Goes
    PROVE  /\ run.phase = "main" /\ run.i < 9 => run' = [run EXCEPT !.i = run.i + 1]
           /\ run.phase = "undo" \/ run.i = 9 => run' = Retire!T!Idle
<1>1. run.i \in Nat /\ (run.phase = "undo" => run.i = 1) /\ run.phase \in {"main", "undo"}
    BY DEF CanaryShape, CanaryRun
<1>2. CASE run.phase = "main"
  <2>1. Len(Retire!T!Program) = 9
    BY <1>2, CanaryCommands
  <2> QED BY <1>1, <1>2, <2>1 DEF Retire!T!Goes, Retire!T!Reports
<1>3. CASE run.phase = "undo"
  <2>1. Len(Retire!T!Program) = 1 /\ run.i = 1
    BY <1>1, <1>3, CanaryCommands
  <2>2. ~(run.i < Len(Retire!T!Program))
    BY <2>1
  <2>3. run' = Retire!T!Idle
    BY <2>2 DEF Retire!T!Goes, Retire!T!Reports
  <2> QED BY <1>3, <2>3
<1> QED BY <1>1, <1>2, <1>3

LEMMA CanaryStep ==
    ASSUME CanaryShape, Retire!T!Next
    PROVE  CanaryShape'
<1>1. CASE Retire!T!Applies
    BY <1>1 DEF CanaryShape, CanaryRun, StartReached, Retire!T!Applies, Retire!T!Admits, Retire!T!Idle, Retire!T!Busy, Retire!T!Components
<1>2. CASE Retire!T!Changes
  <2>1. /\ run.op # "idle" /\ s1' = s1 /\ s3' = s3 /\ Retire!T!Verb \notin Retire!T!Checks
        /\ Retire!T!Acts(Retire!T!Components) /\ Retire!T!Goes
    BY <1>2 DEF Retire!T!Changes, Retire!T!Busy
  <2>2. CASE run.phase = "main" /\ run.i = 1
    <3>1. run' = [run EXCEPT !.i = run.i + 1] /\ run.i + 1 = 2
      BY <2>1, <2>2, CanaryGoes
    <3>2. s2'["app"] = "absent"
      BY <2>1, <2>2, CanaryActs DEF CanaryShape, StartReached, Stack
    <3> QED BY <3>1, <3>2, <2>1, <2>2, CanaryActs, CanaryRuns DEF CanaryShape, StartReached
  <2>3. CASE run.phase = "main" /\ run.i = 6
    <3>1. run' = [run EXCEPT !.i = run.i + 1] /\ run.i + 1 = 7
      BY <2>1, <2>3, CanaryGoes
    <3> QED BY <3>1, <2>1, <2>3, CanaryActs, CanaryRuns DEF CanaryShape, StartReached
  <2>4. CASE run.phase = "undo"
    <3>1. run' = Retire!T!Idle
      BY <2>1, <2>4, CanaryGoes
    <3> QED BY <3>1, <2>1, <2>4, CanaryActs, CanaryRuns DEF CanaryShape
  <2>5. run.phase = "main" => run.i \in {1, 6}
    BY <2>1, CanaryCommands DEF CanaryShape, CanaryRun, Retire!T!Checks
  <2> QED BY <2>1, <2>2, <2>3, <2>4, <2>5 DEF CanaryShape
<1>3. CASE Retire!T!Verifies
  <2>1. /\ run.op # "idle" /\ s1' = s1 /\ s2' = s2 /\ s3' = s3 /\ s4' = s4
        /\ Retire!T!Verb \in Retire!T!Checks
        /\ IF Retire!T!Passes THEN Retire!T!Goes ELSE Retire!T!Fails
    BY <1>3 DEF Retire!T!Verifies, Retire!T!Busy
  <2>2. run.phase = "main" /\ run.i \in 1..9 /\ run.i \notin {1, 6} /\ StartReached(run.i)
    BY <2>1, CanaryCommands DEF CanaryShape, Retire!T!Checks
  <2>3. CASE ~Retire!T!Passes
    BY <2>1, <2>2, <2>3, CanaryRuns DEF Retire!T!Fails, CanaryShape
  <2>4. CASE Retire!T!Passes /\ run.i < 9
    <3>1. run' = [run EXCEPT !.i = run.i + 1]
      BY <2>1, <2>2, <2>4, CanaryGoes
    <3>2. run.i = 2 => s2["postgres"] = "up" /\ s2["redis"] = "up"
      BY <2>2, <2>4, CanaryCommands DEF Retire!T!Passes, Retire!T!Healthy, Retire!T!Up, Retire!T!Data
    <3>3. run.i = 3 => "distinct" \in s3
      BY <2>2, <2>4, CanaryCommands DEF Retire!T!Passes, Retire!T!Distinct
    <3>4. run.i = 4 => s4 = "empty"
      BY <2>2, <2>4, CanaryCommands DEF Retire!T!Passes, Retire!T!CacheEmpty
    <3>5. run.i = 5 => "guards" \in s3 /\ "role" \in s3
      BY <2>2, <2>4, CanaryCommands DEF Retire!T!Passes, Retire!T!GuardsPass, Retire!T!AppRoleKept
    <3>6. PICK j \in 2..9 : run'.i = j /\ run.i = j - 1
      BY <2>2, <2>4, <3>1, CanaryRuns DEF CanaryShape
    <3>7. StartReached(j)'
      BY <2>1, <2>2, <3>2, <3>3, <3>4, <3>5, <3>6 DEF StartReached
    <3> QED BY <2>1, <2>2, <2>4, <3>1, <3>6, <3>7, CanaryRuns DEF CanaryShape
  <2>5. CASE Retire!T!Passes /\ run.i = 9
    <3>1. run' = Retire!T!Idle
      BY <2>1, <2>2, <2>5, CanaryGoes
    <3> QED BY <3>1, <2>1, CanaryRuns DEF CanaryShape
  <2> QED BY <2>2, <2>3, <2>4, <2>5
<1>4. CASE Retire!T!Serves
    BY <1>4 DEF Retire!T!Serves, Retire!T!Up, CanaryShape, StartReached
<1>5. CASE Retire!T!CommandFails
  <2>1. /\ run.op # "idle" /\ s1' = s1 /\ s3' = s3 /\ Retire!T!Fails
        /\ \/ \E done \in SUBSET Retire!T!Components : Retire!T!Acts(done)
           \/ s2' = s2 /\ s4' = s4
    BY <1>5 DEF Retire!T!CommandFails, Retire!T!Busy
  <2>2. s2' \in Stack /\ s4' \in {"empty", "used"}
    BY <2>1, CanaryActs DEF CanaryShape
  <2>3. run' = Retire!T!Idle \/ run' = [run EXCEPT !.phase = "undo", !.i = 1]
    BY <2>1 DEF Retire!T!Fails, Retire!T!Reports
  <2> QED BY <2>1, <2>2, <2>3, CanaryRuns DEF CanaryShape
<1>6. CASE Retire!T!Killed
    BY <1>6 DEF CanaryShape, CanaryRun, Retire!T!Killed, Retire!T!Reports, Retire!T!Idle
<1>7. CASE Retire!T!Disturbed
    BY <1>7 DEF CanaryShape, Retire!T!Disturbed, Retire!T!Busy
<1>8. CASE Retire!T!OperatorMoves
  <2>1. CASE s2' = s2 /\ s4' = s4
    BY <1>8, <2>1 DEF CanaryShape, StartReached, Retire!T!OperatorMoves, Retire!T!Components
  <2>2. CASE run.op = "idle"
    BY <1>8, <2>2 DEF CanaryShape, Stack, Retire!T!OperatorMoves, Retire!T!Components
  <2> QED BY <1>8, <2>1, <2>2 DEF Retire!T!OperatorMoves, Retire!T!Busy
<1> QED BY <1>1, <1>2, <1>3, <1>4, <1>5, <1>6, <1>7, <1>8 DEF Retire!T!Next

(* The start of the application is the sixth command, when all was proved.    *)
LEMMA CanaryStarts ==
    ASSUME CanaryShape, Retire!T!Next
    PROVE  Retire!T!StartsProved
<1> SUFFICES ASSUME s2["app"] # "up", s2'["app"] = "up"
             PROVE  {"guards", "role", "distinct"} \subseteq s3 /\ s4 = "empty" /\ s2["postgres"] = "up"
    BY DEF Retire!T!StartsProved, Retire!T!Up
<1>1. run.op # "idle" /\ \E done \in SUBSET Retire!T!Components : Retire!T!Acts(done)
    BY DEF Retire!T!Next, Retire!T!Changes, Retire!T!CommandFails, Retire!T!Applies, Retire!T!Verifies, Retire!T!Busy,
           Retire!T!Serves, Retire!T!Killed, Retire!T!Disturbed, Retire!T!OperatorMoves, Retire!T!Components
<1>2. run.phase = "main" /\ run.i = 6
    BY <1>1, CanaryActs DEF CanaryShape
<1> QED BY <1>1, <1>2 DEF CanaryShape, StartReached

-----------------------------------------------------------------------------
(* The retirement of the legacy data. *)
RetireInv == Retire!TypeOK /\ Retire!T!ProvedSoFar /\ Retire!KnowsRecord /\ Retire!ProgressIsTrue

RetireTyped ==
    /\ s10 \in Nat /\ s5 \in [Retire!Components -> 0..s10 \cup {None}]
    /\ s8 \in Retire!Journals \cup {None}
    /\ s8 # None => s8.dir \in [Retire!Components -> 0..s10]
    /\ s9 \in [at : {"idle", "prompt", "delete", "remove", "rmdir", "note", "trim"},
               copy : Retire!Journals \cup {None}, since : 0..s10]
    /\ s11 \in [Retire!Components -> Nat] /\ s12 \in [Retire!Components -> BOOLEAN]

RecordInv == RetireTyped /\ Retire!KnowsRecord /\ Retire!ProgressIsTrue

LEMMA RetireInvParts ==
    /\ RetireInv <=> CanaryInv /\ RecordInv
    /\ RetireInv' <=> CanaryInv' /\ RecordInv'
BY DEF RetireInv, CanaryInv, RecordInv, RetireTyped, Retire!TypeOK

(* DELETE_ORDER has a next component as long as one is not retired.          *)
LEMMA FollowingRemains ==
    ASSUME NEW rec \in Retire!Journals, rec.retired # Retire!Components
    PROVE  Retire!Following(rec) \in Retire!Components \ rec.retired
<1> DEFINE first(i) == /\ Retire!DELETE_ORDER[i] \notin rec.retired
                       /\ \A j \in 1..(i - 1) : Retire!DELETE_ORDER[j] \in rec.retired
<1>1. rec.retired \in SUBSET {"postgres", "redis", "app"} /\ rec.retired # {"postgres", "redis", "app"}
    BY DEF Retire!Journals, Retire!Components, Retire!T!Components
<1>2. \E i \in 1..3 : first(i)
  <2>1. CASE "postgres" \notin rec.retired
    BY <2>1 DEF Retire!DELETE_ORDER
  <2>2. CASE "postgres" \in rec.retired /\ "redis" \notin rec.retired
    BY <2>2 DEF Retire!DELETE_ORDER
  <2>3. CASE "postgres" \in rec.retired /\ "redis" \in rec.retired /\ "app" \notin rec.retired
    BY <2>3 DEF Retire!DELETE_ORDER
  <2> QED BY <1>1, <2>1, <2>2, <2>3
<1>3. PICK i \in 1..3 : i = (CHOOSE k \in 1..3 : first(k)) /\ first(i)
    BY <1>2
<1>4. Retire!Following(rec) = Retire!DELETE_ORDER[i]
    BY <1>3 DEF Retire!Following
<1>5. Retire!DELETE_ORDER[i] \in {"postgres", "redis", "app"}
  <2>1. i = 1 \/ i = 2 \/ i = 3
    BY <1>3
  <2> QED BY <2>1 DEF Retire!DELETE_ORDER
<1> QED BY <1>3, <1>4, <1>5 DEF Retire!Components, Retire!T!Components

(* What a step does to record and copy, where paths stay as they are.         *)
RetireRests(rec, at) ==
    /\ s8' = rec /\ s9' = [at |-> at, copy |-> rec, since |-> 0]
    /\ UNCHANGED <<s5, s10, s11, s12>>

LEMMA RetireRecords ==
    ASSUME RecordInv, NEW rec \in Retire!Journals, NEW at, RetireRests(rec, at), rec # None, s8 # None,
           rec.dir = s8.dir, rec.cleaned, Retire!ProgressIsTrue',
           at \in {"prompt", "delete", "trim"}, at # "prompt" => rec.status = "retiring",
           at = "delete" => rec.retired # Retire!Components,
           at = "trim" => rec.retired = Retire!Components
    PROVE  RecordInv'
<1>1. RetireTyped'
    BY DEF RetireRests, RecordInv, RetireTyped
<1>2. Retire!KnowsRecord'
    BY DEF RetireRests, Retire!KnowsRecord, Retire!Active, Retire!Removing
<1> QED BY <1>1, <1>2 DEF RecordInv

(* What comes next for a component is for the same one while the copy stays.  *)
LEMMA ComponentStays ==
    ASSUME RetireTyped, Retire!KnowsRecord, s9.at \in {"delete", "remove", "rmdir", "note"}
    PROVE  /\ Retire!Component \in Retire!Components /\ Retire!Component \notin s8.retired
           /\ s8 \in Retire!Journals /\ s8 # None /\ s9.copy = s8 /\ s8.status = "retiring" /\ s8.cleaned
           /\ s8.retired # Retire!Components
           /\ s9'.copy = s9.copy => Retire!Component' = Retire!Component
<1>1. s8 # None /\ s9.copy = s8 /\ s8.retired # Retire!Components /\ s8.cleaned /\ s8.status = "retiring"
    BY DEF Retire!KnowsRecord, Retire!Active
<1>2. s8 \in Retire!Journals
    BY <1>1 DEF RetireTyped
<1> QED BY <1>1, <1>2, FollowingRemains DEF Retire!Component

(* A step of the retirement itself changes directories, record and the copy.  *)
LEMMA RetireStep ==
    ASSUME RetireTyped, Retire!KnowsRecord, Retire!ProgressIsTrue, [Retire!Next]_(Retire!vars)
    PROVE  RecordInv'
<1> USE NoneAssumption DEF RecordInv
<1> DEFINE same == s5' = s5 /\ s10' = s10 /\ s11' = s11 /\ s12' = s12
<1>1. CASE Retire!Records
  <2> DEFINE rec == [status |-> "recorded", dir |-> s5, stat |-> s11,
                     retired |-> {}, trimmed |-> {}, cleaned |-> FALSE]
  <2>1. /\ s5 \in [Retire!Components -> 0..s10] /\ s9.at = "idle"
        /\ s8' = rec /\ s9' = s9 /\ same
    BY <1>1 DEF Retire!Records, Retire!paths, Retire!Active, RetireTyped
  <2>2. /\ rec \in Retire!Journals /\ rec.dir = s5 /\ rec.retired = {} /\ rec.trimmed = {}
        /\ rec.status = "recorded"
    BY <2>1 DEF Retire!Journals, RetireTyped
  <2> HIDE DEF rec
  <2>3. RetireTyped'
    BY <2>1, <2>2 DEF RetireTyped
  <2>4. Retire!KnowsRecord' /\ Retire!ProgressIsTrue'
    BY <2>1, <2>2 DEF Retire!KnowsRecord, Retire!ProgressIsTrue, Retire!Active, Retire!Removing
  <2> QED BY <2>3, <2>4
<1>2. CASE Retire!Asks
  <2> DEFINE rec == [s8 EXCEPT !.cleaned = TRUE]
  <2>1. s8 # None /\ s8.status # "complete" /\ s8 \in Retire!Journals
    BY <1>2 DEF Retire!Asks, RetireTyped
  <2>2. rec \in Retire!Journals /\ rec.dir = s8.dir /\ rec.retired = s8.retired /\ rec.trimmed = s8.trimmed
        /\ rec.status = s8.status /\ rec.cleaned = TRUE /\ rec # None
    BY <2>1 DEF Retire!Journals
  <2>3. s8' = rec /\ same /\ (RetireRests(rec, "prompt") \/ s9' = Retire!Resting)
    BY <1>2 DEF Retire!Asks, Retire!At, Retire!paths, RetireRests
  <2> HIDE DEF rec
  <2>4. Retire!ProgressIsTrue'
    BY <2>1, <2>2, <2>3 DEF Retire!ProgressIsTrue
  <2>5. CASE RetireRests(rec, "prompt")
    BY <2>1, <2>2, <2>4, <2>5, RetireRecords
  <2>6. CASE s9' = Retire!Resting
    <3>1. RetireTyped'
      BY <2>1, <2>2, <2>3, <2>6 DEF Retire!Resting, Retire!At, RetireTyped
    <3>2. Retire!KnowsRecord'
      BY <2>6 DEF Retire!Resting, Retire!At, Retire!KnowsRecord, Retire!Active, Retire!Removing
    <3> QED BY <3>1, <3>2, <2>4
  <2> QED BY <2>3, <2>5, <2>6
<1>3. CASE Retire!Confirms
  <2> DEFINE rec == [s9.copy EXCEPT !.status = "retiring"]
             at  == Retire!Then(s9.copy)
  <2>1. s8 # None /\ s9.copy = s8 /\ s8.cleaned /\ s8 \in Retire!Journals
    BY <1>3 DEF Retire!Confirms, Retire!KnowsRecord, Retire!Active, RetireTyped
  <2>2. rec \in Retire!Journals /\ rec.dir = s8.dir /\ rec.retired = s8.retired /\ rec.trimmed = s8.trimmed
        /\ rec.status = "retiring" /\ rec.cleaned = s8.cleaned /\ rec # None
    BY <2>1 DEF Retire!Journals
  <2>3. at = IF rec.retired = Retire!Components THEN "trim" ELSE "delete"
    BY <2>1, <2>2 DEF Retire!Then
  <2>4. RetireRests(rec, at)
    BY <1>3 DEF Retire!Confirms, Retire!Keeps, Retire!At, Retire!paths, RetireRests
  <2> HIDE DEF rec, at
  <2>5. Retire!ProgressIsTrue'
    BY <2>1, <2>2, <2>4 DEF RetireRests, Retire!ProgressIsTrue
  <2> QED BY <2>1, <2>2, <2>3, <2>4, <2>5, RetireRecords
<1>4. CASE Retire!Checks \/ Retire!Empties
  <2> DEFINE c == Retire!Component
  <2>1. s9.at \in {"delete", "remove"} /\ s9'.copy = s9.copy
    BY <1>4 DEF Retire!Checks, Retire!Empties, RetireTyped
  <2>2. /\ c \in Retire!Components /\ c \notin s8.retired /\ s8 \in Retire!Journals /\ s8 # None
        /\ s9.copy = s8 /\ s8.status = "retiring" /\ s8.cleaned
        /\ s8.retired # Retire!Components /\ Retire!Component' = c
    BY <2>1, ComponentStays
  <2>3. s8' = s8 /\ s5' = s5 /\ s10' = s10 /\ s11' = s11
    BY <1>4 DEF Retire!Checks, Retire!Empties, Retire!paths
  <2>4. RetireTyped' /\ s9'.at \in {"remove", "rmdir"}
    <3>1. s12' \in [Retire!Components -> BOOLEAN]
      BY <1>4 DEF Retire!Checks, Retire!Empties, Retire!paths, RetireTyped
    <3>2. /\ s9' \in [at : {"idle", "prompt", "delete", "remove", "rmdir", "note", "trim"},
                      copy : Retire!Journals \cup {None}, since : 0..s10]
          /\ s9'.at \in {"remove", "rmdir"}
      <4>1. CASE Retire!Checks
        <5>1. s9' = [s9 EXCEPT !.at = "remove", !.since = s10]
          BY <4>1 DEF Retire!Checks
        <5>2. s10 \in 0..s10
          BY DEF RetireTyped
        <5> QED BY <5>1, <5>2 DEF RetireTyped
      <4>2. CASE Retire!Empties
        BY <4>2 DEF Retire!Empties, RetireTyped
      <4> QED BY <1>4, <4>1, <4>2
    <3> QED BY <2>3, <3>1, <3>2 DEF RetireTyped
  <2>5. s5[c] # None /\ (s11[c] = s8.stat[c] \/ s5[c] > s9'.since)
    <3>1. CASE Retire!Checks
      BY <2>2, <3>1 DEF Retire!Checks, Retire!Verified, Retire!SameDirectory
    <3>2. CASE Retire!Empties
      BY <2>2, <3>2 DEF Retire!Empties, Retire!KnowsRecord, Retire!Removing, Retire!MayGo, RetireTyped
    <3> QED BY <1>4, <3>1, <3>2
  <2> HIDE DEF c
  <2>6. Retire!KnowsRecord'
    BY <2>1, <2>2, <2>3, <2>4, <2>5 DEF Retire!KnowsRecord, Retire!Active, Retire!Removing, Retire!MayGo
  <2>7. Retire!ProgressIsTrue'
    BY <2>3 DEF Retire!ProgressIsTrue
  <2> QED BY <2>4, <2>6, <2>7
<1>5. CASE Retire!Deletes
  <2> DEFINE c == Retire!Component
  <2>1. s9.at = "rmdir" /\ s9' = [s9 EXCEPT !.at = "note"] /\ s9'.copy = s9.copy
    BY <1>5 DEF Retire!Deletes, RetireTyped
  <2>2. /\ c \in Retire!Components /\ c \notin s8.retired /\ s8 \in Retire!Journals /\ s8 # None
        /\ s9.copy = s8 /\ s8.status = "retiring" /\ s8.cleaned
        /\ s8.retired # Retire!Components /\ Retire!Component' = c
    BY <2>1, ComponentStays
  <2>3. s5' = [s5 EXCEPT ![c] = None] /\ s8' = s8 /\ s10' = s10 /\ s11' = s11 /\ s12' = s12
    BY <1>5 DEF Retire!Deletes
  <2> HIDE DEF c
  <2>4. RetireTyped' /\ s9'.at = "note" /\ s9'.copy = s8
    BY <2>1, <2>2, <2>3 DEF RetireTyped
  <2>5. s5'[c] = None /\ s8.dir[c] # None /\ \A d \in Retire!Components \ {c} : s5'[d] = s5[d]
    BY <2>2, <2>3 DEF RetireTyped
  <2>6. Retire!KnowsRecord'
    BY <2>2, <2>3, <2>4, <2>5 DEF Retire!KnowsRecord, Retire!Active, Retire!Removing
  <2>7. Retire!ProgressIsTrue'
    <3>1. s8.retired \subseteq Retire!Components
      BY <2>2 DEF Retire!Journals
    <3> QED BY <2>2, <2>3, <2>5, <3>1 DEF Retire!ProgressIsTrue
  <2> QED BY <2>4, <2>6, <2>7
<1>6. CASE Retire!Notes
  <2> DEFINE c   == Retire!Component
             rec == [s9.copy EXCEPT !.retired = @ \cup {c}]
             at  == Retire!Then(rec)
  <2>1. /\ c \in Retire!Components /\ s8 \in Retire!Journals /\ s8 # None
        /\ s9.copy = s8 /\ s8.status = "retiring" /\ s8.cleaned
    BY <1>6, ComponentStays DEF Retire!Notes
  <2>2. s5[c] # s8.dir[c]
    BY <1>6 DEF Retire!Notes, Retire!KnowsRecord
  <2>3. rec \in Retire!Journals /\ rec.dir = s8.dir /\ rec.retired = s8.retired \cup {c} /\ rec.trimmed = s8.trimmed
        /\ rec.status = "retiring" /\ rec.cleaned = s8.cleaned /\ rec # None
    <3> HIDE DEF c
    <3>1. s8.retired \cup {c} \in SUBSET Retire!Components
      BY <2>1 DEF Retire!Journals
    <3>2. rec = [s8 EXCEPT !.retired = s8.retired \cup {c}]
      BY <2>1
    <3>3. rec \in Retire!Journals
      BY <2>1, <3>1, <3>2 DEF Retire!Journals
    <3>4. rec # None
      BY <3>3 DEF Retire!Journals
    <3> HIDE DEF rec
    <3> QED BY <2>1, <3>2, <3>3, <3>4 DEF Retire!Journals
  <2>4. RetireRests(rec, at)
    BY <1>6 DEF Retire!Notes, Retire!Keeps, Retire!At, Retire!paths, RetireRests
  <2>5. at = IF rec.retired = Retire!Components THEN "trim" ELSE "delete"
    BY DEF Retire!Then
  <2> HIDE DEF c, rec, at
  <2>6. Retire!ProgressIsTrue'
    BY <2>1, <2>2, <2>3, <2>4 DEF RetireRests, Retire!ProgressIsTrue
  <2> QED BY <2>1, <2>3, <2>4, <2>5, <2>6, RetireRecords
<1>7. CASE Retire!Trims
  <2>1. PICK f \in Retire!Filesystems : Retire!Keeps([s9.copy EXCEPT !.trimmed = @ \cup {f}], "trim")
    BY <1>7 DEF Retire!Trims
  <2> DEFINE rec == [s9.copy EXCEPT !.trimmed = @ \cup {f}]
  <2>2. /\ s8 # None /\ s9.copy = s8 /\ s8.cleaned /\ s8 \in Retire!Journals
        /\ s8.status = "retiring" /\ s8.retired = Retire!Components
    BY <1>7 DEF Retire!Trims, Retire!KnowsRecord, Retire!Active, RetireTyped
  <2>3. rec \in Retire!Journals /\ rec.dir = s8.dir /\ rec.retired = s8.retired /\ rec.trimmed = s8.trimmed \cup {f}
        /\ rec.status = "retiring" /\ rec.cleaned = s8.cleaned /\ rec # None
    <3>1. s8.trimmed \cup {f} \in SUBSET Retire!Filesystems
      BY <2>1, <2>2 DEF Retire!Journals
    <3>2. rec = [s8 EXCEPT !.trimmed = s8.trimmed \cup {f}]
      BY <2>2
    <3>3. rec \in Retire!Journals
      BY <2>2, <3>1, <3>2 DEF Retire!Journals
    <3>4. rec # None
      BY <3>3 DEF Retire!Journals
    <3> HIDE DEF rec
    <3> QED BY <2>2, <3>2, <3>3, <3>4 DEF Retire!Journals
  <2>4. RetireRests(rec, "trim")
    BY <1>7, <2>1 DEF Retire!Trims, Retire!Keeps, Retire!At, Retire!paths, RetireRests
  <2> HIDE DEF rec
  <2>5. Retire!ProgressIsTrue'
    BY <2>2, <2>3, <2>4 DEF RetireRests, Retire!ProgressIsTrue
  <2> QED BY <2>2, <2>3, <2>4, <2>5, RetireRecords
<1>8. CASE Retire!Completes
  <2> DEFINE rec == [s9.copy EXCEPT !.status = "complete"]
  <2>1. /\ s8 # None /\ s9.copy = s8 /\ s8.cleaned /\ s8 \in Retire!Journals
        /\ s8.retired = Retire!Components /\ s8.trimmed = Retire!Filesystems
    BY <1>8 DEF Retire!Completes, Retire!KnowsRecord, Retire!Active, RetireTyped
  <2>2. rec \in Retire!Journals /\ rec.dir = s8.dir /\ rec.retired = s8.retired /\ rec.trimmed = s8.trimmed
        /\ rec.status = "complete" /\ rec.cleaned = s8.cleaned /\ rec # None
    BY <2>1 DEF Retire!Journals
  <2>3. s8' = rec /\ s9' = Retire!Resting /\ same
    BY <1>8 DEF Retire!Completes, Retire!paths
  <2> HIDE DEF rec
  <2>4. RetireTyped'
    BY <2>1, <2>2, <2>3 DEF Retire!Resting, Retire!At, RetireTyped
  <2>5. Retire!KnowsRecord' /\ Retire!ProgressIsTrue'
    BY <2>1, <2>2, <2>3
    DEF Retire!Resting, Retire!At, Retire!KnowsRecord, Retire!ProgressIsTrue, Retire!Active, Retire!Removing
  <2> QED BY <2>4, <2>5
<1>9. CASE Retire!Stops \/ Retire!Refuses \/ Retire!Reboots
  <2>1. s9' = Retire!Resting /\ (s8' = s8 \/ s8' = None) /\ same
    BY <1>9 DEF Retire!Stops, Retire!Refuses, Retire!Reboots, Retire!paths
  <2>2. RetireTyped'
    BY <2>1 DEF Retire!Resting, Retire!At, RetireTyped
  <2>3. Retire!KnowsRecord' /\ Retire!ProgressIsTrue'
    BY <2>1
    DEF Retire!Resting, Retire!At, Retire!KnowsRecord, Retire!ProgressIsTrue, Retire!Active, Retire!Removing
  <2> QED BY <2>2, <2>3
<1>10. CASE Retire!Remakes
  <2>1. PICK c \in Retire!Components : \E id \in 0..s10' :
            /\ s5' = [s5 EXCEPT ![c] = s10'] /\ s11' = [s11 EXCEPT ![c] = id]
            /\ s12' = [s12 EXCEPT ![c] = TRUE]
    BY <1>10 DEF Retire!Remakes
  <2>2. s10' = s10 + 1 /\ s8' = s8 /\ s9' = s9 /\ s10 \in Nat
    BY <1>10 DEF Retire!Remakes, RetireTyped
  <2>3. /\ s5' \in [Retire!Components -> 0..s10' \cup {None}]
        /\ \A d \in Retire!Components :
             \/ s5'[d] = s5[d] /\ s11'[d] = s11[d]
             \/ s5'[d] = s10 + 1
    BY <2>1, <2>2 DEF RetireTyped
  <2>4. s8 # None => /\ s8.dir \in [Retire!Components -> 0..s10']
                     /\ \A d \in Retire!Components : s8.dir[d] # s10 + 1
    BY <2>2 DEF RetireTyped
  <2>5. s11' \in [Retire!Components -> Nat] /\ s12' \in [Retire!Components -> BOOLEAN]
    BY <2>1, <2>2 DEF RetireTyped
  <2>6. s9.since \in 0..s10 /\ 0..s10 \subseteq 0..s10'
    BY <2>2 DEF RetireTyped
  <2>7. RetireTyped'
    BY <2>2, <2>3, <2>4, <2>5, <2>6 DEF RetireTyped
  <2>8. Retire!ProgressIsTrue'
    <3>1. s8 # None => s8.retired \subseteq Retire!Components
      BY DEF RetireTyped, Retire!Journals
    <3> QED BY <2>2, <2>3, <2>4, <3>1 DEF Retire!ProgressIsTrue
  <2>9. Retire!KnowsRecord'
    <3>1. CASE s9.at \in {"delete", "remove", "rmdir", "note"}
      <4>1. /\ Retire!Component \in Retire!Components /\ Retire!Component' = Retire!Component
            /\ s8 # None
        BY <2>2, <3>1, ComponentStays
      <4>2. s10 + 1 > s9.since /\ s10 + 1 # None
        BY <2>2, <2>6
      <4>3. s9.at \in {"remove", "rmdir"} => (s5'[Retire!Component] # None /\ Retire!MayGo(Retire!Component)')
        BY <2>2, <2>3, <4>1, <4>2 DEF Retire!KnowsRecord, Retire!Removing, Retire!MayGo
      <4>4. s9.at = "note" => s5'[Retire!Component] # s8.dir[Retire!Component]
        BY <2>3, <2>4, <4>1 DEF Retire!KnowsRecord
      <4> QED BY <2>2, <4>1, <4>3, <4>4 DEF Retire!KnowsRecord, Retire!Active, Retire!Removing, Retire!MayGo
    <3>2. CASE s9.at \notin {"delete", "remove", "rmdir", "note"}
      BY <2>2, <3>2 DEF Retire!KnowsRecord, Retire!Active, Retire!Removing
    <3> QED BY <3>1, <3>2
  <2> QED BY <2>7, <2>8, <2>9
<1>11. CASE UNCHANGED <<s5, s8, s9, s10, s11, s12>>
    BY <1>11 DEF RetireTyped, Retire!KnowsRecord, Retire!ProgressIsTrue, Retire!Active, Retire!Removing,
                 Retire!MayGo, Retire!Component
<1>12. Retire!OperatorActs \/ Retire!CanaryMoves \/ Retire!LegacyRemoved \/ UNCHANGED Retire!vars
           => UNCHANGED <<s5, s8, s9, s10, s11, s12>>
    BY DEF Retire!OperatorActs, Retire!CanaryMoves, Retire!LegacyRemoved, Retire!vars, Retire!paths
<1> QED BY <1>1, <1>2, <1>3, <1>4, <1>5, <1>6, <1>7, <1>8, <1>9, <1>10, <1>11, <1>12 DEF Retire!Next

(* What the retirement does beside the canary leaves the stacks alone, but    *)
(* for a reboot and for the legacy containers.                               *)
LEMMA RetireSparesCanary ==
    ASSUME CanaryInv, [Retire!Next]_(Retire!vars)
    PROVE  CanaryInv' /\ Retire!T!StartsProved
<1> SUFFICES CanaryShape' /\ Retire!T!StartsProved
    BY CanaryInvIsShape
<1>1. CanaryShape
    BY CanaryInvIsShape
<1>2. CASE Retire!CanaryMoves
    BY <1>1, <1>2, CanaryStep, CanaryStarts DEF Retire!CanaryMoves
<1>3. CASE Retire!Reboots
    BY <1>1, <1>3 DEF Retire!Reboots, CanaryShape, CanaryRun, Retire!T!Idle, Retire!T!StartsProved, Retire!T!Up
<1>4. CASE Retire!LegacyRemoved
    BY <1>1, <1>4 DEF Retire!LegacyRemoved, CanaryShape, StartReached, Retire!Components, Retire!T!Components,
                      Retire!T!StartsProved, Retire!T!Up
<1>5. CASE UNCHANGED Retire!canary
    BY <1>1, <1>5 DEF Retire!canary, CanaryShape, StartReached, Retire!T!StartsProved, Retire!T!Up
<1>6. [Retire!Next]_(Retire!vars) =>
          Retire!CanaryMoves \/ Retire!Reboots \/ Retire!LegacyRemoved \/ UNCHANGED Retire!canary
    BY DEF Retire!Next, Retire!vars, Retire!canary, Retire!Records, Retire!Asks, Retire!Confirms, Retire!Checks,
           Retire!Empties, Retire!Deletes, Retire!Notes, Retire!Trims, Retire!Completes, Retire!Stops, Retire!Refuses, Retire!OperatorActs,
           Retire!Remakes
<1> QED BY <1>2, <1>3, <1>4, <1>5, <1>6

LEMMA RetireInit ==
    ASSUME Init, tool = "retire"
    PROVE  RetireInv
<1>1. Retire!Init
    BY DEF Init
<1>2. CanaryShape
    BY <1>1 DEF Retire!Init, Retire!T!Init, CanaryShape, CanaryRun, Stack, Retire!T!Idle, Retire!T!Components
<1>3. RecordInv
    BY <1>1 DEF Retire!Init, Retire!Resting, Retire!At, Retire!Removing, RecordInv, RetireTyped, Retire!KnowsRecord, Retire!ProgressIsTrue,
                Retire!Active
<1> QED BY <1>2, <1>3, CanaryInvIsShape, RetireInvParts

LEMMA RetireInvariance == Spec => [](tool = "retire" => RetireInv)
<1>1. Init => (tool = "retire" => RetireInv)
    BY RetireInit
<1>2. (tool = "retire" => RetireInv) /\ [Next]_vars => (tool = "retire" => RetireInv)'
    BY OneTool, RetireInvParts, RetireStep, RetireSparesCanary DEF RecordInv
<1> QED BY <1>1, <1>2, PTL DEF Spec

(* What the retirement's record calls retired and trimmed is so, whatever is  *)
(* killed, rebooted or made anew while it asks, removes and notes             *)
(* (retire-legacy-data.py, retire_recorded_data).                            *)
THEOREM ProgressStaysTrue == Spec => []ProgressIsTrue
<1>1. (tool = "retire" => RetireInv) => ProgressIsTrue
    BY DEF RetireInv, ProgressIsTrue
<1> QED BY <1>1, RetireInvariance, PTL

(* A directory is removed by a retirement that was confirmed, and only for the *)
(* recorded identity or because it was made after that was checked: what was  *)
(* made in its place before stays (delete_exact_directory).                  *)
THEOREM OthersStay == Spec => OnlyRecordedRemoved
<1>1. ASSUME RetireInv, [Retire!Next]_(Retire!vars)
      PROVE  Retire!RemovesRecorded
  <2> SUFFICES ASSUME NEW c \in Retire!Components, Retire!Loses(c)
               PROVE  /\ s8 # None /\ s8.status = "retiring" /\ s8.cleaned
                      /\ c \notin s8.retired
                      /\ Retire!Removing /\ Retire!MayGo(c)
      BY DEF Retire!RemovesRecorded
  <2>1. RetireTyped /\ Retire!KnowsRecord
      BY <1>1, RetireInvParts DEF RecordInv
  <2>2. CASE Retire!Empties \/ Retire!Deletes
    <3>1. c = Retire!Component
      BY <2>1, <2>2 DEF Retire!Empties, Retire!Deletes, Retire!Loses, RetireTyped
    <3>2. Retire!Removing /\ s9.at \in {"delete", "remove", "rmdir", "note"}
      BY <2>2 DEF Retire!Empties, Retire!Deletes, Retire!Removing
    <3>3. Retire!MayGo(Retire!Component)
      BY <2>1, <3>2 DEF Retire!KnowsRecord
    <3> QED BY <2>1, <3>1, <3>2, <3>3, ComponentStays
  <2>3. CASE Retire!Remakes
    <3>1. PICK d \in Retire!Components : /\ s5' = [s5 EXCEPT ![d] = s10 + 1]
                                        /\ s12' = [s12 EXCEPT ![d] = TRUE]
      BY <2>3 DEF Retire!Remakes
    <3> QED BY <3>1, <2>1, NoneAssumption DEF RetireTyped, Retire!Loses
  <2>4. CASE s5' = s5 /\ s12' = s12
    BY <2>4 DEF Retire!Loses
  <2> QED BY <1>1, <2>2, <2>3, <2>4
      DEF Retire!Next, Retire!vars, Retire!paths, Retire!Records, Retire!Asks, Retire!Confirms, Retire!Checks,
          Retire!Notes, Retire!Trims, Retire!Completes, Retire!Stops, Retire!Refuses, Retire!OperatorActs,
          Retire!CanaryMoves, Retire!LegacyRemoved, Retire!Reboots
<1>2. (tool = "retire" => RetireInv) /\ [Next]_vars => [tool = "retire" => Retire!RemovesRecorded]_vars
    BY <1>1, OneTool
<1> QED BY <1>2, RetireInvariance, PTL DEF Spec, OnlyRecordedRemoved

(* The target's application is started on the data that passed the gates of   *)
(* this start, with an empty cache (traffic-canary.py, start_canary).        *)
THEOREM AppAlwaysStartsProved == Spec => AppStartsOnProvedData
<1>1. (tool = "retire" => RetireInv) /\ [Next]_vars => [tool = "retire" => Retire!T!StartsProved]_vars
    BY OneTool, RetireInvParts, RetireSparesCanary
<1> QED BY <1>1, RetireInvariance, PTL DEF Spec, AppStartsOnProvedData

-----------------------------------------------------------------------------
(* Authenticated origin pull. *)
AopInv == Aop!TypeOK /\ Aop!AopRecordIsTrue /\ Aop!OneCA /\ Aop!KnowsRecord /\ Aop!RequiredStands

AopCloudTyped ==
    /\ 0 \in s1 /\ s1 \subseteq Nat
    /\ s2 \in Aop!Associations \cup {None} /\ s3 \in Nat \cup {None}

AopLocalTyped ==
    /\ s5 \in Nat /\ s4 \in 1..s5 \cup {None} /\ s8 \in 1..s5 \cup {None}
    /\ s6 \in Aop!ControlRecords \cup {None}
    /\ (s6 # None /\ s6.phase \notin {"upload_in_flight", "upload_unknown"}) => s6.cert # None

AopNginxTyped ==
    /\ s7 \in Aop!Sites
    /\ s9 \in [at : {"idle", "reload", "commit"}, to : Aop!Stages, old : Aop!Sites \cup {None}]
    /\ s9.at # "idle" => s9.old # None

AopPlaces == {"idle", "uploaded", "mark"} \cup Aop!Uploading \cup Aop!Associating

AopRunTyped == run \in [at : AopPlaces, copy : Aop!ControlRecords \cup {None}]

AopTyped == AopCloudTyped /\ AopLocalTyped /\ AopNginxTyped /\ AopRunTyped

LEMMA AopTypedIs == (Aop!TypeOK <=> AopTyped) /\ (Aop!TypeOK' <=> AopTyped')
BY DEF Aop!TypeOK, AopTyped, AopCloudTyped, AopLocalTyped, AopNginxTyped, AopRunTyped, AopPlaces, Aop!Foreign

(* The numbers and the records there may be, one by one.                     *)
AopFlat ==
    /\ None # 0
    /\ s4 # None => s4 \in Nat /\ s4 # 0
    /\ s8 # None => s8 \in Nat /\ s8 # 0
    /\ s6 # None => /\ s6 \in Aop!ControlRecords /\ s4 # None
                    /\ s6.phase \notin {"upload_in_flight", "upload_unknown"} => s6.cert # None
    /\ \A c \in s1 : c = 0 \/ (c = s4 /\ s6 # None)
    /\ s2 # None => s2.cert = 0 \/ s2.cert = s4
    /\ run.at \notin {"idle", "ca", "remove ca"} => run.copy \in Aop!ControlRecords /\ s4 # None

LEMMA AopFlatIs == AopInv => AopFlat
<1> SUFFICES ASSUME AopInv PROVE AopFlat
    OBVIOUS
<1>1. AopTyped
    BY AopTypedIs DEF AopInv
<1>2. None # 0
    BY NoneAssumption
<1>3. (s4 # None => s4 \in Nat /\ s4 # 0) /\ (s8 # None => s8 \in Nat /\ s8 # 0)
    BY <1>1 DEF AopTyped, AopLocalTyped
<1>4. s6 # None => /\ s6 \in Aop!ControlRecords /\ s4 # None
                   /\ s6.phase \notin {"upload_in_flight", "upload_unknown"} => s6.cert # None
    <2>1. s6 # None => s6 \in Aop!ControlRecords /\ s6.ca = s4
        BY <1>1 DEF AopTyped, AopLocalTyped, AopInv, Aop!OneCA
    <2>2. s6 # None => s6.ca \in Nat
        BY <2>1 DEF Aop!ControlRecords
    <2> QED BY <1>1, <2>1, <2>2, NoneAssumption DEF AopTyped, AopLocalTyped
<1>5. \A c \in s1 : c = 0 \/ (c = s4 /\ s6 # None)
    BY DEF AopInv, Aop!AopRecordIsTrue, Aop!CertificateIsAccounted, Aop!OneCA, Aop!Foreign
<1>6. s2 # None => s2.cert = 0 \/ s2.cert = s4
    BY <1>5 DEF AopInv, Aop!OneCA
<1>7. run.at \notin {"idle", "ca", "remove ca"} => run.copy \in Aop!ControlRecords /\ s4 # None
    <2>1. run.at \in AopPlaces /\ run.copy \in Aop!ControlRecords \cup {None}
        BY <1>1 DEF AopTyped, AopRunTyped
    <2>2. run.at \notin {"idle", "ca", "remove ca"} => run.copy # None /\ run.copy.ca = s4
        BY <2>1 DEF AopInv, AopPlaces, Aop!Uploading, Aop!Associating, Aop!KnowsRecord, Aop!Copies,
            Aop!CopiesNamed, Aop!OneCA
    <2>3. run.at \notin {"idle", "ca", "remove ca"} => run.copy \in Aop!ControlRecords /\ s4 \in Nat
        BY <2>1, <2>2 DEF Aop!ControlRecords
    <2> QED BY <2>3, NoneAssumption
<1> QED BY <1>2, <1>3, <1>4, <1>5, <1>6, <1>7 DEF AopFlat

(* The record with another phase. *)
LEMMA AopPhases ==
    ASSUME run.copy \in Aop!ControlRecords, NEW p \in Aop!Phases
    PROVE  /\ Aop!Phase(p) \in Aop!ControlRecords /\ Aop!Phase(p) # None
           /\ Aop!Phase(p).phase = p /\ Aop!Phase(p).ca = run.copy.ca /\ Aop!Phase(p).cert = run.copy.cert
BY NoneAssumption DEF Aop!Phase, Aop!ControlRecords

LEMMA AopGoes ==
    /\ \A at, c : Aop!Goes(at, c) => /\ run'.at = at /\ run'.copy = c
                                     /\ at \in AopPlaces /\ c \in Aop!ControlRecords \cup {None} => AopRunTyped'
    /\ Aop!Rests => run'.at = "idle" /\ run'.copy = None /\ AopRunTyped'
BY DEF Aop!Goes, Aop!Rests, Aop!Resting, AopRunTyped, AopPlaces

(* What is to be shown of the tool at the place it goes to.                   *)
LEMMA AopKnows ==
    /\ run'.at = "idle" => Aop!KnowsRecord'
    /\ run'.at \in {"ca", "remove ca"} /\ Aop!Fresh' /\ s6' = None => Aop!KnowsRecord'
    /\ run'.at = "record" /\ Aop!Fresh' /\ s6' = None /\ Aop!Copies("upload_in_flight")' => Aop!KnowsRecord'
    /\ run'.at = "post" /\ Aop!Fresh' /\ s6' = run'.copy /\ Aop!Copies("upload_in_flight")' => Aop!KnowsRecord'
    /\ run'.at = "remove" /\ Aop!Fresh' /\ Aop!Copies("upload_in_flight")' => Aop!KnowsRecord'
    /\ run'.at = "uploaded" /\ Aop!CopiesNamed("uploaded")' => Aop!KnowsRecord'
    /\ run'.at = "mark" /\ s6' # None /\ Aop!Copies("upload_unknown")' => Aop!KnowsRecord'
    /\ run'.at = "mark" /\ Aop!CopiesNamed("associate_unknown")' => Aop!KnowsRecord'
    /\ run'.at = "check" /\ s6' # None /\ s6' = run'.copy /\ s6'.phase # "upload_in_flight" => Aop!KnowsRecord'
    /\ /\ run'.at \in {"begin", "put"} /\ Aop!CopiesNamed("associate_in_flight")'
       /\ s2' = None \/ s2'.cert = s4'
       => Aop!KnowsRecord'
    /\ run'.at = "poll" /\ Aop!CopiesNamed("associate_in_flight")' => Aop!KnowsRecord'
    /\ run'.at = "associated" /\ Aop!CopiesNamed("associated")' /\ Aop!Active(s4)' => Aop!KnowsRecord'
BY DEF Aop!KnowsRecord

(* Cloudflare's answer about the certificate is its association's.            *)
LEMMA AopActive ==
    /\ \A c : Aop!Active(c) => s2.cert = c /\ s2.status = "active"
    /\ UNCHANGED <<s2, s4>> => (Aop!Active(s4)' <=> Aop!Active(s4))
BY DEF Aop!Active

(* Nothing is associated where there is no association.                       *)
LEMMA AopNoneActive ==
    ASSUME NEW c \in Nat, Aop!Active(c)
    PROVE  s2 # None
<1>1. [cert |-> c, status |-> "active"] \in Aop!Associations
    BY DEF Aop!Associations
<1> QED BY <1>1, NoneAssumption DEF Aop!Active

(* What is at Cloudflare keeps its shape.                                    *)
LEMMA AopCloudTypedStep ==
    ASSUME AopTyped, Aop!AopRecordIsTrue, Aop!OneCA, Aop!KnowsRecord, Aop!RequiredStands, AopFlat, Aop!Next
    PROVE  AopCloudTyped'
<1> USE NoneAssumption
<1>1. CASE Aop!Posts
    BY <1>1 DEF Aop!Posts, Aop!cloud, Aop!local, Aop!Associations, Aop!Foreign, Aop!Goes, Aop!Phase,
        Aop!Trouble, Aop!Uploaded, AopFlat, AopTyped, AopLocalTyped, AopRunTyped, AopPlaces, AopCloudTyped
<1>2. CASE Aop!Puts
    <2>1. run.copy \in Aop!ControlRecords
        BY <1>2 DEF Aop!Puts, AopFlat
    <2>2. run.copy.cert \in Nat \cup {None}
        BY <2>1 DEF Aop!ControlRecords
    <2> QED BY <1>2, <2>2 DEF Aop!Puts, AopTyped, AopCloudTyped
<1>3. CASE Aop!Arrives
    <2>1. [cert |-> s3, status |-> "pending"] \in Aop!Associations
        BY <1>3 DEF Aop!Arrives, AopTyped, AopCloudTyped, Aop!Associations
    <2> QED BY <1>3, <2>1 DEF Aop!Arrives, AopTyped, AopCloudTyped
<1>4. CASE Aop!Deploys
    BY <1>4 DEF Aop!Deploys, Aop!cloud, Aop!local, Aop!Associations, Aop!Foreign, AopFlat, AopTyped,
        AopLocalTyped, AopRunTyped, AopPlaces, AopCloudTyped
<1>5. CASE Aop!OperatorReconciles
    <2>1. s6 # None => s6.ca # 0
        BY DEF AopFlat, Aop!OneCA
    <2>2. 0 \in s1' /\ s1' \subseteq Nat /\ s2' \in {s2, None} /\ s3' = s3
        BY <1>5, <2>1 DEF Aop!OperatorReconciles, AopTyped, AopCloudTyped
    <2> QED BY <2>2 DEF AopTyped, AopCloudTyped
<1>6. CASE Aop!OthersAssociate
    <2>1. [cert |-> 0, status |-> "active"] \in Aop!Associations
        BY DEF Aop!Associations
    <2> QED BY <1>6, <2>1 DEF Aop!OthersAssociate, Aop!Foreign, AopTyped, AopCloudTyped
<1>7. CASE UNCHANGED <<s1, s2, s3>>
    BY <1>7 DEF AopCloudTyped, AopTyped
<1> QED BY <1>1, <1>2, <1>3, <1>4, <1>5, <1>6, <1>7
        DEF Aop!Next, Aop!cloud, Aop!local, Aop!UploadBegins, Aop!WritesCA, Aop!Records, Aop!Removes,
        Aop!NotesUploaded, Aop!Marks, Aop!AssociateBegins, Aop!Checks, Aop!Begins, Aop!Polls,
        Aop!NotesAssociated, Aop!Probes, Aop!Installs, Aop!Reloads, Aop!CommitsInstall, Aop!InstallFails,
        Aop!StepFails, Aop!Killed, Aop!Reboots, Aop!OperatorRetiresNginx

(* So does what the tool keeps.                                              *)
LEMMA AopLocalTypedStep ==
    ASSUME AopTyped, Aop!AopRecordIsTrue, Aop!OneCA, Aop!KnowsRecord, Aop!RequiredStands, AopFlat, Aop!Next
    PROVE  AopLocalTyped'
<1> USE NoneAssumption
<1>1. CASE Aop!WritesCA
    BY <1>1 DEF Aop!WritesCA, Aop!cloud, Aop!local, Aop!ControlRecords, Aop!Phases, Aop!OneCA, Aop!KnowsRecord,
        Aop!Fresh, Aop!Copies, Aop!CopiesNamed, Aop!Goes, AopFlat, AopTyped, AopLocalTyped, AopRunTyped,
        AopPlaces
<1>2. CASE Aop!Records
    BY <1>2 DEF Aop!Records, Aop!cloud, Aop!local, Aop!ControlRecords, Aop!Phases, Aop!OneCA, Aop!KnowsRecord,
        Aop!Fresh, Aop!Copies, Aop!CopiesNamed, Aop!Goes, AopFlat, AopTyped, AopLocalTyped, AopRunTyped,
        AopPlaces
<1>3. CASE Aop!Removes
    BY <1>3 DEF Aop!Removes, Aop!cloud, Aop!local, Aop!ControlRecords, Aop!Phases, Aop!OneCA, Aop!KnowsRecord,
        Aop!Fresh, Aop!Copies, Aop!CopiesNamed, Aop!Goes, Aop!Rests, Aop!Resting, AopFlat, AopTyped,
        AopLocalTyped, AopRunTyped, AopPlaces
<1>4. CASE Aop!NotesUploaded
    BY <1>4 DEF Aop!NotesUploaded, Aop!cloud, Aop!local, Aop!ControlRecords, Aop!Phases, Aop!OneCA,
        Aop!KnowsRecord, Aop!Fresh, Aop!Copies, Aop!CopiesNamed, Aop!Rests, Aop!Resting, AopFlat, AopTyped,
        AopLocalTyped, AopRunTyped, AopPlaces
<1>5. CASE Aop!Marks
    BY <1>5 DEF Aop!Marks, Aop!cloud, Aop!local, Aop!ControlRecords, Aop!Phases, Aop!OneCA, Aop!KnowsRecord,
        Aop!Fresh, Aop!Copies, Aop!CopiesNamed, Aop!Rests, Aop!Resting, AopFlat, AopTyped, AopLocalTyped,
        AopRunTyped, AopPlaces
<1>6. CASE Aop!Begins
    BY <1>6 DEF Aop!Begins, Aop!cloud, Aop!local, Aop!ControlRecords, Aop!Phases, Aop!OneCA, Aop!KnowsRecord,
        Aop!Fresh, Aop!Copies, Aop!CopiesNamed, Aop!Goes, AopFlat, AopTyped, AopLocalTyped, AopRunTyped,
        AopPlaces
<1>7. CASE Aop!NotesAssociated
    BY <1>7 DEF Aop!NotesAssociated, Aop!cloud, Aop!local, Aop!ControlRecords, Aop!Phases, Aop!OneCA,
        Aop!KnowsRecord, Aop!Fresh, Aop!Copies, Aop!CopiesNamed, Aop!Rests, Aop!Resting, AopFlat, AopTyped,
        AopLocalTyped, AopRunTyped, AopPlaces
<1>8. CASE Aop!Probes
    BY <1>8 DEF Aop!Probes, Aop!cloud, Aop!local, Aop!ControlRecords, Aop!Phases, Aop!OneCA, Aop!KnowsRecord,
        Aop!Fresh, Aop!Copies, Aop!CopiesNamed, Aop!OptionalReady, Aop!ProbePasses, Aop!Locked, Aop!Active,
        AopFlat, AopTyped, AopLocalTyped, AopRunTyped, AopPlaces
<1>9. ASSUME NEW stage \in {"optional", "required"}, Aop!Installs(stage)
      PROVE  AopLocalTyped'
    BY <1>9 DEF Aop!Installs, Aop!cloud, Aop!local, Aop!ControlRecords, Aop!Phases, Aop!OneCA, Aop!KnowsRecord,
        Aop!Fresh, Aop!Copies, Aop!CopiesNamed, Aop!AdmitsRequired, Aop!Locked, Aop!OptionalReady, AopFlat,
        AopTyped, AopLocalTyped, AopRunTyped, AopPlaces
<1>10. CASE Aop!CommitsInstall
    BY <1>10 DEF Aop!CommitsInstall, Aop!cloud, Aop!local, Aop!ControlRecords, Aop!Phases, Aop!OneCA,
        Aop!KnowsRecord, Aop!Fresh, Aop!Copies, Aop!CopiesNamed, Aop!Uninstalled, Aop!ProbePasses, Aop!Active,
        AopFlat, AopTyped, AopLocalTyped, AopRunTyped, AopPlaces
<1>11. CASE Aop!StepFails
    BY <1>11 DEF Aop!StepFails, Aop!cloud, Aop!local, Aop!ControlRecords, Aop!Phases, Aop!OneCA,
        Aop!KnowsRecord, Aop!Fresh, Aop!Copies, Aop!CopiesNamed, Aop!Goes, Aop!Rests, Aop!Phase, Aop!Trouble,
        Aop!Writes, Aop!Busy, Aop!Resting, AopFlat, AopTyped, AopLocalTyped, AopRunTyped, AopPlaces
<1>12. CASE Aop!Reboots
    BY <1>12 DEF Aop!Reboots, Aop!cloud, Aop!local, Aop!ControlRecords, Aop!Phases, Aop!OneCA, Aop!KnowsRecord,
        Aop!Fresh, Aop!Copies, Aop!CopiesNamed, Aop!Rests, Aop!Trouble, Aop!Uninstalled, Aop!Resting, AopFlat,
        AopTyped, AopLocalTyped, AopRunTyped, AopPlaces
<1>13. CASE Aop!OperatorReconciles
    BY <1>13 DEF Aop!OperatorReconciles, Aop!cloud, Aop!local, Aop!ControlRecords, Aop!Phases, Aop!OneCA,
        Aop!KnowsRecord, Aop!Fresh, Aop!Copies, Aop!CopiesNamed, Aop!Locked, Aop!Busy, AopFlat, AopTyped,
        AopLocalTyped, AopRunTyped, AopPlaces
<1>14. CASE UNCHANGED <<s4, s5, s6, s8>>
    BY <1>14 DEF AopLocalTyped, AopTyped
<1> QED BY <1>1, <1>2, <1>3, <1>4, <1>5, <1>6, <1>7, <1>8, <1>9, <1>10, <1>11, <1>12, <1>13, <1>14
        DEF Aop!Next, Aop!cloud, Aop!local, Aop!UploadBegins, Aop!Posts, Aop!AssociateBegins, Aop!Checks,
        Aop!Puts, Aop!Polls, Aop!Arrives, Aop!Deploys, Aop!Reloads, Aop!InstallFails, Aop!Killed,
        Aop!OperatorRetiresNginx, Aop!OthersAssociate

(* So do Nginx and its installer.                                            *)
LEMMA AopNginxTypedStep ==
    ASSUME AopTyped, Aop!AopRecordIsTrue, Aop!OneCA, Aop!KnowsRecord, Aop!RequiredStands, AopFlat, Aop!Next
    PROVE  AopNginxTyped'
<1> USE NoneAssumption
<1>1. ASSUME NEW stage \in {"optional", "required"}, Aop!Installs(stage)
      PROVE  AopNginxTyped'
    BY <1>1 DEF Aop!Installs, Aop!cloud, Aop!local, Aop!InstallStates, Aop!Sites, Aop!Stages,
        Aop!AdmitsRequired, Aop!Locked, Aop!OptionalReady, AopFlat, AopTyped, AopLocalTyped, AopRunTyped,
        AopPlaces, AopNginxTyped
<1>2. CASE Aop!Reloads
    BY <1>2 DEF Aop!Reloads, Aop!cloud, Aop!local, Aop!InstallStates, Aop!Sites, Aop!Stages, AopFlat, AopTyped,
        AopLocalTyped, AopRunTyped, AopPlaces, AopNginxTyped
<1>3. CASE Aop!CommitsInstall
    BY <1>3 DEF Aop!CommitsInstall, Aop!cloud, Aop!local, Aop!InstallStates, Aop!Sites, Aop!Stages,
        Aop!Uninstalled, Aop!ProbePasses, Aop!Active, AopFlat, AopTyped, AopLocalTyped, AopRunTyped, AopPlaces,
        AopNginxTyped
<1>4. CASE Aop!InstallFails
    BY <1>4 DEF Aop!InstallFails, Aop!cloud, Aop!local, Aop!InstallStates, Aop!Sites, Aop!Stages, Aop!Trouble,
        Aop!Uninstalled, Aop!ProbePasses, Aop!Active, AopFlat, AopTyped, AopLocalTyped, AopRunTyped, AopPlaces,
        AopNginxTyped
<1>5. CASE Aop!Killed
    <2>1. Aop!Uninstalled \in [at : {"idle", "reload", "commit"}, to : Aop!Stages, old : Aop!Sites \cup {None}]
        BY DEF Aop!Uninstalled, Aop!Stages
    <2>2. Aop!Uninstalled.at = "idle"
        BY DEF Aop!Uninstalled
    <2> QED BY <1>5, <2>1, <2>2 DEF Aop!Killed, AopTyped, AopNginxTyped
<1>6. CASE Aop!Reboots
    BY <1>6 DEF Aop!Reboots, Aop!cloud, Aop!local, Aop!InstallStates, Aop!Sites, Aop!Stages, Aop!Rests,
        Aop!Trouble, Aop!Uninstalled, Aop!Resting, AopFlat, AopTyped, AopLocalTyped, AopRunTyped, AopPlaces,
        AopNginxTyped
<1>7. CASE Aop!OperatorRetiresNginx
    BY <1>7 DEF Aop!OperatorRetiresNginx, Aop!cloud, Aop!local, Aop!InstallStates, Aop!Sites, Aop!Stages,
        Aop!Locked, AopFlat, AopTyped, AopLocalTyped, AopRunTyped, AopPlaces, AopNginxTyped
<1>8. CASE UNCHANGED <<s7, s9>>
    BY <1>8 DEF AopNginxTyped, AopTyped
<1> QED BY <1>1, <1>2, <1>3, <1>4, <1>5, <1>6, <1>7, <1>8
        DEF Aop!Next, Aop!cloud, Aop!local, Aop!UploadBegins, Aop!WritesCA, Aop!Records, Aop!Posts, Aop!Removes,
        Aop!NotesUploaded, Aop!Marks, Aop!AssociateBegins, Aop!Checks, Aop!Begins, Aop!Puts, Aop!Polls,
        Aop!NotesAssociated, Aop!Arrives, Aop!Deploys, Aop!Probes, Aop!StepFails, Aop!OperatorReconciles,
        Aop!OthersAssociate

(* So does the tool that runs.                                               *)
LEMMA AopRunTypedStep ==
    ASSUME AopTyped, Aop!AopRecordIsTrue, Aop!OneCA, Aop!KnowsRecord, Aop!RequiredStands, AopFlat, Aop!Next
    PROVE  AopRunTyped'
<1> USE NoneAssumption
<1>1. CASE Aop!UploadBegins
    BY <1>1 DEF Aop!UploadBegins, Aop!cloud, Aop!local, Aop!ControlRecords, Aop!Phases, Aop!Uploading,
        Aop!Associating, Aop!Goes, Aop!Busy, AopFlat, AopTyped, AopLocalTyped, AopRunTyped, AopPlaces
<1>2. CASE Aop!WritesCA
    <2>1. [phase |-> "upload_in_flight", ca |-> s5', cert |-> None] \in Aop!ControlRecords
        BY <1>2 DEF Aop!WritesCA, AopTyped, AopLocalTyped, Aop!ControlRecords, Aop!Phases
    <2> QED BY <1>2, <2>1, AopGoes DEF Aop!WritesCA, AopPlaces, Aop!Uploading
<1>3. CASE Aop!Records
    BY <1>3 DEF Aop!Records, Aop!cloud, Aop!local, Aop!ControlRecords, Aop!Phases, Aop!Uploading,
        Aop!Associating, Aop!Goes, AopFlat, AopTyped, AopLocalTyped, AopRunTyped, AopPlaces
<1>4. CASE Aop!Posts
    <2>1. run.copy \in Aop!ControlRecords /\ s4 \in Nat
        BY <1>4 DEF Aop!Posts, AopFlat
    <2>2. /\ Aop!Phase("upload_unknown") \in Aop!ControlRecords
          /\ Aop!Phase("uploaded") \in Aop!ControlRecords
        BY <2>1, AopPhases DEF Aop!Phases
    <2>3. Aop!Uploaded \in Aop!ControlRecords
        BY <2>1, <2>2 DEF Aop!Uploaded, Aop!ControlRecords
    <2>4. \/ Aop!Goes("uploaded", Aop!Uploaded) \/ Aop!Goes("mark", Aop!Phase("upload_unknown"))
          \/ Aop!Goes("remove", run.copy)
        BY <1>4 DEF Aop!Posts
    <2> QED BY <2>1, <2>2, <2>3, <2>4, AopGoes DEF AopPlaces, Aop!Uploading
<1>5. CASE Aop!Removes
    <2>1. Aop!Goes("remove ca", run.copy) \/ Aop!Rests
        BY <1>5 DEF Aop!Removes
    <2>2. run.copy \in Aop!ControlRecords \cup {None}
        BY DEF AopTyped, AopRunTyped
    <2> QED BY <2>1, <2>2, AopGoes DEF AopPlaces, Aop!Uploading
<1>6. CASE Aop!NotesUploaded
    BY <1>6 DEF Aop!NotesUploaded, Aop!cloud, Aop!local, Aop!ControlRecords, Aop!Phases, Aop!Uploading,
        Aop!Associating, Aop!Rests, Aop!Resting, AopFlat, AopTyped, AopLocalTyped, AopRunTyped, AopPlaces
<1>7. CASE Aop!Marks
    BY <1>7 DEF Aop!Marks, Aop!cloud, Aop!local, Aop!ControlRecords, Aop!Phases, Aop!Uploading, Aop!Associating,
        Aop!Rests, Aop!Resting, AopFlat, AopTyped, AopLocalTyped, AopRunTyped, AopPlaces
<1>8. CASE Aop!AssociateBegins
    BY <1>8 DEF Aop!AssociateBegins, Aop!cloud, Aop!local, Aop!ControlRecords, Aop!Phases, Aop!Uploading,
        Aop!Associating, Aop!Goes, Aop!OptionalReady, Aop!Locked, Aop!Busy, AopFlat, AopTyped, AopLocalTyped,
        AopRunTyped, AopPlaces
<1>9. CASE Aop!Checks
    <2>1. run.copy \in Aop!ControlRecords
        BY <1>9 DEF Aop!Checks, AopFlat
    <2>2. /\ Aop!Phase("associated") \in Aop!ControlRecords
          /\ Aop!Phase("associate_in_flight") \in Aop!ControlRecords
        BY <2>1, AopPhases DEF Aop!Phases
    <2>3. \/ Aop!Goes("associated", Aop!Phase("associated")) \/ Aop!Rests
          \/ Aop!Goes("begin", Aop!Phase("associate_in_flight"))
        BY <1>9 DEF Aop!Checks
    <2> QED BY <2>2, <2>3, AopGoes DEF AopPlaces, Aop!Associating
<1>10. CASE Aop!Begins
    BY <1>10 DEF Aop!Begins, Aop!cloud, Aop!local, Aop!ControlRecords, Aop!Phases, Aop!Uploading,
        Aop!Associating, Aop!Goes, AopFlat, AopTyped, AopLocalTyped, AopRunTyped, AopPlaces
<1>11. CASE Aop!Puts
    BY <1>11 DEF Aop!Puts, Aop!cloud, Aop!local, Aop!ControlRecords, Aop!Phases, Aop!Uploading, Aop!Associating,
        Aop!Goes, AopFlat, AopTyped, AopLocalTyped, AopRunTyped, AopPlaces
<1>12. CASE Aop!Polls
    <2>1. run.copy \in Aop!ControlRecords
        BY <1>12 DEF Aop!Polls, AopFlat
    <2>2. /\ Aop!Phase("associated") \in Aop!ControlRecords
          /\ Aop!Phase("associate_unknown") \in Aop!ControlRecords
        BY <2>1, AopPhases DEF Aop!Phases
    <2>3. \/ Aop!Goes("associated", Aop!Phase("associated"))
          \/ Aop!Goes("mark", Aop!Phase("associate_unknown"))
        BY <1>12 DEF Aop!Polls
    <2> QED BY <2>2, <2>3, AopGoes DEF AopPlaces, Aop!Associating
<1>13. CASE Aop!NotesAssociated
    BY <1>13 DEF Aop!NotesAssociated, Aop!cloud, Aop!local, Aop!ControlRecords, Aop!Phases, Aop!Uploading,
        Aop!Associating, Aop!Rests, Aop!Resting, AopFlat, AopTyped, AopLocalTyped, AopRunTyped, AopPlaces
<1>14. CASE Aop!StepFails
    <2>1. \/ run.at = "record" /\ Aop!Goes("remove", run.copy)
          \/ run.at = "uploaded" /\ Aop!Goes("mark", Aop!Phase("upload_unknown"))
          \/ run.at \in {"associated", "poll"} /\ Aop!Goes("mark", Aop!Phase("associate_unknown"))
          \/ Aop!Rests
        BY <1>14 DEF Aop!StepFails
    <2>2. run.at \in {"record", "uploaded", "associated", "poll"} => run.copy \in Aop!ControlRecords
        BY DEF AopFlat
    <2>3. run.copy \in Aop!ControlRecords => /\ Aop!Phase("upload_unknown") \in Aop!ControlRecords
                                            /\ Aop!Phase("associate_unknown") \in Aop!ControlRecords
        BY AopPhases DEF Aop!Phases
    <2> QED BY <2>1, <2>2, <2>3, AopGoes DEF AopPlaces, Aop!Uploading
<1>15. CASE Aop!Killed
    BY <1>15, AopGoes DEF Aop!Killed, AopTyped, AopRunTyped
<1>16. CASE Aop!Reboots
    BY <1>16, AopGoes DEF Aop!Reboots
<1>17. CASE UNCHANGED <<run>>
    BY <1>17 DEF AopRunTyped, AopTyped
<1> QED BY <1>1, <1>2, <1>3, <1>4, <1>5, <1>6, <1>7, <1>8, <1>9, <1>10, <1>11, <1>12, <1>13, <1>14, <1>15,
        <1>16, <1>17
        DEF Aop!Next, Aop!cloud, Aop!local, Aop!Arrives, Aop!Deploys, Aop!Probes, Aop!Installs, Aop!Reloads,
        Aop!CommitsInstall, Aop!InstallFails, Aop!OperatorRetiresNginx, Aop!OperatorReconciles,
        Aop!OthersAssociate

(* A certificate comes with an upload that the record is about.              *)
LEMMA AopRecordIsTrueStep ==
    ASSUME AopTyped, Aop!AopRecordIsTrue, Aop!OneCA, Aop!KnowsRecord, Aop!RequiredStands, AopFlat, Aop!Next
    PROVE  Aop!AopRecordIsTrue'
<1> USE NoneAssumption
<1>1. CASE Aop!Records
    BY <1>1 DEF Aop!Records, Aop!cloud, Aop!local, Aop!AopRecordIsTrue, Aop!CertificateIsAccounted, Aop!Foreign,
        Aop!Active, Aop!OneCA, Aop!KnowsRecord, Aop!Fresh, Aop!Copies, Aop!CopiesNamed, Aop!Goes, AopFlat
<1>2. CASE Aop!Posts
    BY <1>2 DEF Aop!Posts, Aop!cloud, Aop!local, Aop!AopRecordIsTrue, Aop!CertificateIsAccounted, Aop!Foreign,
        Aop!Active, Aop!OneCA, Aop!KnowsRecord, Aop!Fresh, Aop!Copies, Aop!CopiesNamed, Aop!Goes, Aop!Phase,
        Aop!Trouble, Aop!Uploaded, AopFlat
<1>3. CASE Aop!Removes
    BY <1>3 DEF Aop!Removes, Aop!cloud, Aop!local, Aop!AopRecordIsTrue, Aop!CertificateIsAccounted, Aop!Foreign,
        Aop!Active, Aop!OneCA, Aop!KnowsRecord, Aop!Fresh, Aop!Copies, Aop!CopiesNamed, Aop!Goes, Aop!Rests,
        Aop!Resting, AopFlat
<1>4. CASE Aop!NotesUploaded
    BY <1>4 DEF Aop!NotesUploaded, Aop!cloud, Aop!local, Aop!AopRecordIsTrue, Aop!CertificateIsAccounted,
        Aop!Foreign, Aop!Active, Aop!OneCA, Aop!KnowsRecord, Aop!Fresh, Aop!Copies, Aop!CopiesNamed, Aop!Rests,
        Aop!Resting, AopFlat
<1>5. CASE Aop!Marks
    BY <1>5 DEF Aop!Marks, Aop!cloud, Aop!local, Aop!AopRecordIsTrue, Aop!CertificateIsAccounted, Aop!Foreign,
        Aop!Active, Aop!OneCA, Aop!KnowsRecord, Aop!Fresh, Aop!Copies, Aop!CopiesNamed, Aop!Rests, Aop!Resting,
        AopFlat
<1>6. CASE Aop!Begins
    BY <1>6 DEF Aop!Begins, Aop!cloud, Aop!local, Aop!AopRecordIsTrue, Aop!CertificateIsAccounted, Aop!Foreign,
        Aop!Active, Aop!OneCA, Aop!KnowsRecord, Aop!Fresh, Aop!Copies, Aop!CopiesNamed, Aop!Goes, AopFlat
<1>7. CASE Aop!NotesAssociated
    BY <1>7 DEF Aop!NotesAssociated, Aop!cloud, Aop!local, Aop!AopRecordIsTrue, Aop!CertificateIsAccounted,
        Aop!Foreign, Aop!Active, Aop!OneCA, Aop!KnowsRecord, Aop!Fresh, Aop!Copies, Aop!CopiesNamed, Aop!Rests,
        Aop!Resting, AopFlat
<1>8. CASE Aop!Arrives
    BY <1>8 DEF Aop!Arrives, Aop!cloud, Aop!local, Aop!AopRecordIsTrue, Aop!CertificateIsAccounted, Aop!Foreign,
        Aop!Active, Aop!OneCA, Aop!KnowsRecord, Aop!Fresh, Aop!Copies, Aop!CopiesNamed, AopFlat
<1>9. CASE Aop!Deploys
    <2>1. s2.cert \in s1 /\ s2 # None /\ s2.status = "pending"
        BY <1>9 DEF Aop!Deploys, Aop!OneCA
    <2>2. ~Aop!Active(s6.cert)
        BY <2>1, AopActive
    <2> QED BY <1>9, <2>2 DEF Aop!Deploys, Aop!local, Aop!AopRecordIsTrue, Aop!CertificateIsAccounted, Aop!Foreign
<1>10. CASE Aop!StepFails
    BY <1>10 DEF Aop!StepFails, Aop!cloud, Aop!local, Aop!AopRecordIsTrue, Aop!CertificateIsAccounted,
        Aop!Foreign, Aop!Active, Aop!OneCA, Aop!KnowsRecord, Aop!Fresh, Aop!Copies, Aop!CopiesNamed, Aop!Goes,
        Aop!Rests, Aop!Phase, Aop!Trouble, Aop!Writes, Aop!Busy, Aop!Resting, AopFlat
<1>11. CASE Aop!OperatorReconciles
    BY <1>11 DEF Aop!OperatorReconciles, Aop!cloud, Aop!local, Aop!AopRecordIsTrue, Aop!CertificateIsAccounted,
        Aop!Foreign, Aop!Active, Aop!OneCA, Aop!KnowsRecord, Aop!Fresh, Aop!Copies, Aop!CopiesNamed, Aop!Locked,
        Aop!Busy, AopFlat
<1>12. CASE Aop!OthersAssociate
    <2>1. ~(s6 # None /\ s6.phase = "associated")
        <3> SUFFICES ASSUME s6 # None, s6.phase = "associated" PROVE FALSE
            OBVIOUS
        <3>1. Aop!Active(s6.cert) /\ s6.cert # None /\ s6.cert = s4 /\ s4 # 0
            BY DEF Aop!AopRecordIsTrue, AopFlat, Aop!OneCA
        <3>2. s2 = [cert |-> s6.cert, status |-> "active"] /\ s2.cert = s4
            BY <3>1 DEF Aop!Active
        <3>3. s2 = None
            BY <1>12, <3>1, <3>2 DEF Aop!OthersAssociate, Aop!Foreign
        <3>4. s2 \in Aop!Associations
            BY <3>1, <3>2 DEF AopFlat, Aop!Associations
        <3> QED BY <3>3, <3>4
    <2> QED BY <1>12, <2>1 DEF Aop!OthersAssociate, Aop!local, Aop!AopRecordIsTrue, Aop!CertificateIsAccounted, Aop!Foreign
<1>13. CASE UNCHANGED <<s1, s2, s6>>
    BY <1>13 DEF Aop!AopRecordIsTrue, Aop!CertificateIsAccounted, Aop!Foreign, Aop!Active, Aop!Fresh,
        Aop!Copies, Aop!CopiesNamed
<1> QED BY <1>1, <1>2, <1>3, <1>4, <1>5, <1>6, <1>7, <1>8, <1>9, <1>10, <1>11, <1>12, <1>13
        DEF Aop!Next, Aop!cloud, Aop!local, Aop!UploadBegins, Aop!WritesCA, Aop!AssociateBegins, Aop!Checks,
        Aop!Puts, Aop!Polls, Aop!Probes, Aop!Installs, Aop!Reloads, Aop!CommitsInstall, Aop!InstallFails,
        Aop!Killed, Aop!Reboots, Aop!OperatorRetiresNginx

(* Record, certificates, association, request and proof are about one CA.    *)
LEMMA AopOneCAStep ==
    ASSUME AopTyped, Aop!AopRecordIsTrue, Aop!OneCA, Aop!KnowsRecord, Aop!RequiredStands, AopFlat, Aop!Next
    PROVE  Aop!OneCA'
<1> USE NoneAssumption
<1>1. CASE Aop!WritesCA
    <2>1. s4 = None /\ s4' = s5 + 1 /\ s6' = s6 /\ s8' = s8 /\ UNCHANGED <<s1, s2, s3>>
        BY <1>1 DEF Aop!WritesCA, Aop!cloud
    <2>2. s6 = None /\ s3 = None
        BY <2>1 DEF AopFlat, Aop!OneCA, AopTyped, AopLocalTyped
    <2>3. s8 # None => s8 # s4'
        BY <2>1 DEF AopTyped, AopLocalTyped
    <2> QED BY <2>1, <2>2, <2>3 DEF Aop!OneCA
<1>2. CASE Aop!Records
    BY <1>2 DEF Aop!Records, Aop!cloud, Aop!local, Aop!OneCA, Aop!Active, Aop!Foreign, Aop!KnowsRecord,
        Aop!Fresh, Aop!Copies, Aop!CopiesNamed, Aop!Goes, AopFlat
<1>3. CASE Aop!Posts
    BY <1>3 DEF Aop!Posts, Aop!cloud, Aop!local, Aop!OneCA, Aop!Active, Aop!Foreign, Aop!KnowsRecord, Aop!Fresh,
        Aop!Copies, Aop!CopiesNamed, Aop!Goes, Aop!Phase, Aop!Trouble, Aop!Uploaded, AopFlat
<1>4. CASE Aop!Removes
    BY <1>4 DEF Aop!Removes, Aop!cloud, Aop!local, Aop!OneCA, Aop!Active, Aop!Foreign, Aop!KnowsRecord,
        Aop!Fresh, Aop!Copies, Aop!CopiesNamed, Aop!Goes, Aop!Rests, Aop!Resting, AopFlat
<1>5. CASE Aop!NotesUploaded
    BY <1>5 DEF Aop!NotesUploaded, Aop!cloud, Aop!local, Aop!OneCA, Aop!Active, Aop!Foreign, Aop!KnowsRecord,
        Aop!Fresh, Aop!Copies, Aop!CopiesNamed, Aop!Rests, Aop!Resting, AopFlat
<1>6. CASE Aop!Marks
    BY <1>6 DEF Aop!Marks, Aop!cloud, Aop!local, Aop!OneCA, Aop!Active, Aop!Foreign, Aop!KnowsRecord, Aop!Fresh,
        Aop!Copies, Aop!CopiesNamed, Aop!Rests, Aop!Resting, AopFlat
<1>7. CASE Aop!Begins
    BY <1>7 DEF Aop!Begins, Aop!cloud, Aop!local, Aop!OneCA, Aop!Active, Aop!Foreign, Aop!KnowsRecord,
        Aop!Fresh, Aop!Copies, Aop!CopiesNamed, Aop!Goes, AopFlat
<1>8. CASE Aop!Puts
    BY <1>8 DEF Aop!Puts, Aop!cloud, Aop!local, Aop!OneCA, Aop!Active, Aop!Foreign, Aop!KnowsRecord, Aop!Fresh,
        Aop!Copies, Aop!CopiesNamed, Aop!Goes, AopFlat
<1>9. CASE Aop!NotesAssociated
    BY <1>9 DEF Aop!NotesAssociated, Aop!cloud, Aop!local, Aop!OneCA, Aop!Active, Aop!Foreign, Aop!KnowsRecord,
        Aop!Fresh, Aop!Copies, Aop!CopiesNamed, Aop!Rests, Aop!Resting, AopFlat
<1>10. CASE Aop!Arrives
    <2>1. UNCHANGED <<s1, s4, s6, s8>> /\ s3' = None /\ s3 = s4 /\ s3 # None
        BY <1>10 DEF Aop!Arrives, Aop!local, Aop!OneCA
    <2>2. s2' = s2 \/ (s3 \in s1 /\ ~Aop!Active(s3) /\ s2' = [cert |-> s3, status |-> "pending"])
        BY <1>10 DEF Aop!Arrives
    <2>3. CASE s2' = s2
        BY <2>1, <2>3, AopActive DEF Aop!OneCA
    <2>4. CASE s3 \in s1 /\ ~Aop!Active(s3) /\ s2' = [cert |-> s3, status |-> "pending"]
        BY <2>1, <2>4 DEF Aop!OneCA
    <2> QED BY <2>2, <2>3, <2>4
<1>11. CASE Aop!Deploys
    <2>1. UNCHANGED <<s1, s3, s4, s6, s8>> /\ s2 # None /\ s2.status = "pending" /\ s2' = [s2 EXCEPT !.status = "active"]
        BY <1>11 DEF Aop!Deploys, Aop!local
    <2>2. s2 \in Aop!Associations
        BY <2>1 DEF AopTyped, AopCloudTyped
    <2>3. s2'.cert = s2.cert
        BY <2>1, <2>2 DEF Aop!Associations
    <2>4. ~Aop!Active(s4)
        BY <2>1, AopActive
    <2> QED BY <2>1, <2>3, <2>4 DEF Aop!OneCA
<1>12. CASE Aop!Probes
    <2>1. UNCHANGED <<s1, s2, s3, s4, s6>> /\ s8' = s4 /\ s4 # None
        BY <1>12 DEF Aop!Probes, Aop!cloud, Aop!local, Aop!OptionalReady
    <2>2. Aop!Active(s7.liveCA) /\ s7.liveCA # None
        BY <1>12 DEF Aop!Probes, Aop!ProbePasses
    <2>3. s7.liveCA \in Nat /\ s7.liveCA # 0
        BY <2>2 DEF AopTyped, AopNginxTyped, Aop!Sites
    <2>4. s7.liveCA = s4
        BY <2>2, <2>3, AopActive, AopNoneActive DEF AopFlat
    <2> QED BY <2>1, <2>2, <2>4, AopActive DEF Aop!OneCA
<1>13. ASSUME NEW stage \in {"optional", "required"}, Aop!Installs(stage)
      PROVE  Aop!OneCA'
    BY <1>13 DEF Aop!Installs, Aop!cloud, Aop!local, Aop!OneCA, Aop!Active, Aop!Foreign, Aop!KnowsRecord,
        Aop!Fresh, Aop!Copies, Aop!CopiesNamed, Aop!AdmitsRequired, Aop!Locked, Aop!OptionalReady, AopFlat
<1>14. CASE Aop!CommitsInstall
    BY <1>14 DEF Aop!CommitsInstall, Aop!cloud, Aop!local, Aop!OneCA, Aop!Active, Aop!Foreign, Aop!KnowsRecord,
        Aop!Fresh, Aop!Copies, Aop!CopiesNamed, Aop!Uninstalled, Aop!ProbePasses, AopFlat
<1>15. CASE Aop!StepFails
    BY <1>15 DEF Aop!StepFails, Aop!cloud, Aop!local, Aop!OneCA, Aop!Active, Aop!Foreign, Aop!KnowsRecord,
        Aop!Fresh, Aop!Copies, Aop!CopiesNamed, Aop!Goes, Aop!Rests, Aop!Phase, Aop!Trouble, Aop!Writes,
        Aop!Busy, Aop!Resting, AopFlat
<1>16. CASE Aop!Reboots
    BY <1>16 DEF Aop!Reboots, Aop!cloud, Aop!local, Aop!OneCA, Aop!Active, Aop!Foreign, Aop!KnowsRecord,
        Aop!Fresh, Aop!Copies, Aop!CopiesNamed, Aop!Rests, Aop!Trouble, Aop!Uninstalled, Aop!Resting, AopFlat
<1>17. CASE Aop!OperatorReconciles
    BY <1>17 DEF Aop!OperatorReconciles, Aop!cloud, Aop!local, Aop!OneCA, Aop!Active, Aop!Foreign,
        Aop!KnowsRecord, Aop!Fresh, Aop!Copies, Aop!CopiesNamed, Aop!Locked, Aop!Busy, AopFlat
<1>18. CASE Aop!OthersAssociate
    <2>1. UNCHANGED <<s1, s3, s4, s6, s8>> /\ s3 = None
        BY <1>18 DEF Aop!OthersAssociate, Aop!local
    <2>2. \/ s2 = None /\ s2' = [cert |-> 0, status |-> "active"]
          \/ s2 # None /\ s2.cert = 0 /\ s2' = None
        BY <1>18 DEF Aop!OthersAssociate, Aop!Foreign
    <2>3. s4 # None => ~Aop!Active(s4)
        BY <2>2, AopActive, AopNoneActive DEF AopFlat
    <2>4. s2' # None => s2'.cert \in s1
        BY <2>2 DEF AopTyped, AopCloudTyped
    <2> QED BY <2>1, <2>3, <2>4 DEF Aop!OneCA
<1>19. CASE UNCHANGED <<s1, s2, s3, s4, s6, s8>>
    BY <1>19 DEF Aop!OneCA, Aop!Active, Aop!Foreign, Aop!Fresh, Aop!Copies, Aop!CopiesNamed
<1> QED BY <1>1, <1>2, <1>3, <1>4, <1>5, <1>6, <1>7, <1>8, <1>9, <1>10, <1>11, <1>12, <1>13, <1>14, <1>15,
        <1>16, <1>17, <1>18, <1>19
        DEF Aop!Next, Aop!cloud, Aop!local, Aop!UploadBegins, Aop!AssociateBegins, Aop!Checks, Aop!Polls,
        Aop!Reloads, Aop!InstallFails, Aop!Killed, Aop!OperatorRetiresNginx

(* What the tool that runs knows stays so, or it is told.                    *)
LEMMA AopKnowsRecordStep ==
    ASSUME AopTyped, Aop!AopRecordIsTrue, Aop!OneCA, Aop!KnowsRecord, Aop!RequiredStands, AopFlat, Aop!Next
    PROVE  Aop!KnowsRecord'
<1> USE NoneAssumption
<1>1. CASE Aop!UploadBegins
    <2>1. run'.at = "ca" /\ s6 = None /\ s4 = None /\ UNCHANGED <<s1, s3, s6>>
        BY <1>1, AopGoes DEF Aop!UploadBegins, Aop!cloud, Aop!local
    <2>2. s1 = {0} /\ s3 = None
        BY <2>1 DEF AopFlat, AopTyped, AopCloudTyped, Aop!OneCA
    <2> QED BY <2>1, <2>2, AopKnows DEF Aop!Fresh, Aop!Foreign
<1>2. CASE Aop!WritesCA
    <2>1. /\ run'.at = "record" /\ run'.copy = [phase |-> "upload_in_flight", ca |-> s4', cert |-> None]
          /\ UNCHANGED <<s1, s3, s6>> /\ run.at = "ca"
        BY <1>2, AopGoes DEF Aop!WritesCA, Aop!cloud
    <2>2. Aop!Fresh' /\ s6' = None
        BY <2>1 DEF Aop!KnowsRecord, Aop!Fresh
    <2>3. run'.copy # None
        <3>1. s5' \in Nat /\ s4' = s5'
            BY <1>2 DEF Aop!WritesCA, AopTyped, AopLocalTyped
        <3>2. run'.copy \in Aop!ControlRecords
            BY <2>1, <3>1 DEF Aop!ControlRecords, Aop!Phases
        <3> QED BY <3>2
    <2>4. Aop!Copies("upload_in_flight")'
        BY <2>1, <2>3 DEF Aop!Copies
    <2> QED BY <2>1, <2>2, <2>4, AopKnows
<1>3. CASE Aop!Records
    BY <1>3 DEF Aop!Records, Aop!cloud, Aop!local, Aop!Active, Aop!Foreign, Aop!OneCA, Aop!KnowsRecord,
        Aop!Fresh, Aop!Copies, Aop!CopiesNamed, Aop!Goes, AopFlat, AopTyped, AopLocalTyped
<1>4. CASE Aop!Posts
    <2>1. /\ Aop!Fresh /\ s6 = run.copy /\ s4' = s4 /\ s6' = s6 /\ s3' = s3
          /\ run.copy # None /\ run.copy.ca = s4 /\ run.copy.cert \in {None, s4} /\ run.copy.phase = "upload_in_flight"
          /\ run.copy \in Aop!ControlRecords /\ s4 \in Nat
        BY <1>4 DEF Aop!Posts, Aop!local, Aop!KnowsRecord, Aop!Copies, AopFlat
    <2>2. PICK reply \in Replies :
            /\ s1' \in (IF reply = "rejected" THEN {s1} ELSE IF reply = "lost" THEN {s1, s1 \cup {s4}} ELSE {s1 \cup {s4}})
            /\ CASE reply = "ok"   -> Aop!Goes("uploaded", Aop!Uploaded)
                 [] reply = "lost" -> Aop!Goes("mark", Aop!Phase("upload_unknown"))
                 [] OTHER          -> Aop!Goes("remove", run.copy)
        BY <1>4 DEF Aop!Posts
    <2>3. reply \in {"ok", "lost", "rejected"}
        BY ReplyAssumption
    <2>4. CASE reply = "ok"
        <3>1. run'.at = "uploaded" /\ run'.copy = Aop!Uploaded
            BY <2>2, <2>4, AopGoes
        <3>2. Aop!Phase("uploaded") \in Aop!ControlRecords /\ Aop!Phase("uploaded").phase = "uploaded"
              /\ Aop!Phase("uploaded").ca = s4
            BY <2>1, AopPhases DEF Aop!Phases
        <3>3. /\ Aop!Uploaded \in Aop!ControlRecords /\ Aop!Uploaded.phase = "uploaded"
              /\ Aop!Uploaded.ca = s4 /\ Aop!Uploaded.cert = s4
            BY <2>1, <3>2 DEF Aop!Uploaded, Aop!ControlRecords
        <3>4. Aop!Uploaded # None
            BY <3>3
        <3>5. Aop!CopiesNamed("uploaded")'
            BY <2>1, <3>1, <3>3, <3>4 DEF Aop!CopiesNamed, Aop!Copies
        <3> QED BY <3>1, <3>5, AopKnows
    <2>5. CASE reply = "lost"
        <3>1. run'.at = "mark" /\ run'.copy = Aop!Phase("upload_unknown")
            BY <2>2, <2>5, AopGoes
        <3>2. Aop!Copies("upload_unknown")'
            BY <2>1, <3>1, AopPhases DEF Aop!Phases, Aop!Copies
        <3> QED BY <2>1, <3>1, <3>2, AopKnows
    <2>6. CASE reply = "rejected"
        <3>1. run'.at = "remove" /\ run'.copy = run.copy /\ s1' = s1
            BY <2>2, <2>6, AopGoes
        <3> QED BY <2>1, <3>1, AopKnows DEF Aop!Fresh, Aop!Copies
    <2> QED BY <2>3, <2>4, <2>5, <2>6
<1>5. CASE Aop!Removes
    <2>1. CASE run.at = "remove"
        <3>1. run'.at = "remove ca" /\ s6' = None /\ UNCHANGED <<s1, s3>>
            BY <1>5, <2>1, AopGoes DEF Aop!Removes, Aop!cloud
        <3> QED BY <2>1, <3>1, AopKnows DEF Aop!KnowsRecord, Aop!Fresh
    <2>2. CASE run.at = "remove ca"
        BY <1>5, <2>2, AopGoes, AopKnows DEF Aop!Removes
    <2> QED BY <1>5, <2>1, <2>2 DEF Aop!Removes
<1>6. CASE Aop!NotesUploaded
    BY <1>6 DEF Aop!NotesUploaded, Aop!cloud, Aop!local, Aop!Active, Aop!Foreign, Aop!OneCA, Aop!KnowsRecord,
        Aop!Fresh, Aop!Copies, Aop!CopiesNamed, Aop!Rests, Aop!Resting, AopFlat, AopTyped, AopLocalTyped
<1>7. CASE Aop!Marks
    BY <1>7 DEF Aop!Marks, Aop!cloud, Aop!local, Aop!Active, Aop!Foreign, Aop!OneCA, Aop!KnowsRecord, Aop!Fresh,
        Aop!Copies, Aop!CopiesNamed, Aop!Rests, Aop!Resting, AopFlat, AopTyped, AopLocalTyped
<1>8. CASE Aop!AssociateBegins
    BY <1>8 DEF Aop!AssociateBegins, Aop!cloud, Aop!local, Aop!Active, Aop!Foreign, Aop!OneCA, Aop!KnowsRecord,
        Aop!Fresh, Aop!Copies, Aop!CopiesNamed, Aop!Goes, Aop!OptionalReady, Aop!Locked, Aop!Busy, AopFlat,
        AopTyped, AopLocalTyped
<1>9. CASE Aop!Checks
    <2>1. /\ s6 # None /\ s6 = run.copy /\ s6.phase # "upload_in_flight" /\ UNCHANGED <<s1, s2, s3, s4, s6>>
          /\ s6.ca = s4 /\ s6.cert \in {None, s4} /\ run.copy \in Aop!ControlRecords
        BY <1>9 DEF Aop!Checks, Aop!cloud, Aop!local, Aop!KnowsRecord, Aop!OneCA, AopFlat
    <2>2. CASE run.copy.cert # None /\ Aop!Active(run.copy.cert)
        <3>1. run'.at = "associated" /\ run'.copy = Aop!Phase("associated")
            BY <1>9, <2>2, AopGoes DEF Aop!Checks
        <3>2. Aop!CopiesNamed("associated")'
            BY <2>1, <2>2, <3>1, AopPhases DEF Aop!Phases, Aop!Copies, Aop!CopiesNamed
        <3>3. Aop!Active(s4)'
            BY <2>1, <2>2, AopActive
        <3> QED BY <3>1, <3>2, <3>3, AopKnows
    <2>3. CASE ~(run.copy.cert # None /\ Aop!Active(run.copy.cert)) /\ Aop!AdmitsPut(run.copy)
        <3>1. run'.at = "begin" /\ run'.copy = Aop!Phase("associate_in_flight")
            BY <1>9, <2>3, AopGoes DEF Aop!Checks
        <3>2. s6.phase \notin {"upload_in_flight", "upload_unknown"}
            BY <2>1, <2>3 DEF Aop!AdmitsPut
        <3>3. run.copy.cert = s4
            BY <2>1, <3>2 DEF AopFlat
        <3>4. Aop!CopiesNamed("associate_in_flight")'
            BY <2>1, <3>1, <3>3, AopPhases DEF Aop!Phases, Aop!Copies, Aop!CopiesNamed
        <3>5. s2' = None \/ s2'.cert = s4'
            BY <2>1, <2>3, <3>3 DEF Aop!AdmitsPut
        <3> QED BY <3>1, <3>4, <3>5, AopKnows
    <2>4. CASE Aop!Rests
        BY <2>4, AopGoes, AopKnows
    <2> QED BY <1>9, <2>2, <2>3, <2>4 DEF Aop!Checks
<1>10. CASE Aop!Begins
    BY <1>10 DEF Aop!Begins, Aop!cloud, Aop!local, Aop!Active, Aop!Foreign, Aop!OneCA, Aop!KnowsRecord,
        Aop!Fresh, Aop!Copies, Aop!CopiesNamed, Aop!Goes, AopFlat, AopTyped, AopLocalTyped
<1>11. CASE Aop!Puts
    BY <1>11 DEF Aop!Puts, Aop!cloud, Aop!local, Aop!Active, Aop!Foreign, Aop!OneCA, Aop!KnowsRecord, Aop!Fresh,
        Aop!Copies, Aop!CopiesNamed, Aop!Goes, AopFlat, AopTyped, AopLocalTyped
<1>12. CASE Aop!Polls
    <2>1. /\ s6 # None /\ UNCHANGED <<s1, s2, s3, s4, s6>> /\ run.copy.cert = s4
          /\ run.copy.ca = s4 /\ run.copy \in Aop!ControlRecords
        BY <1>12 DEF Aop!Polls, Aop!cloud, Aop!local, Aop!KnowsRecord, Aop!CopiesNamed, Aop!Copies, AopFlat
    <2>2. CASE Aop!Active(run.copy.cert)
        <3>1. run'.at = "associated" /\ run'.copy = Aop!Phase("associated")
            BY <1>12, <2>2, AopGoes DEF Aop!Polls
        <3>2. Aop!CopiesNamed("associated")'
            BY <2>1, <3>1, AopPhases DEF Aop!Phases, Aop!Copies, Aop!CopiesNamed
        <3> QED BY <2>1, <2>2, <3>1, <3>2, AopActive, AopKnows
    <2>3. CASE ~Aop!Active(run.copy.cert)
        <3>1. run'.at = "mark" /\ run'.copy = Aop!Phase("associate_unknown")
            BY <1>12, <2>3, AopGoes DEF Aop!Polls
        <3>2. Aop!CopiesNamed("associate_unknown")'
            BY <2>1, <3>1, AopPhases DEF Aop!Phases, Aop!Copies, Aop!CopiesNamed
        <3> QED BY <3>1, <3>2, AopKnows
    <2> QED BY <2>2, <2>3
<1>13. CASE Aop!NotesAssociated
    BY <1>13 DEF Aop!NotesAssociated, Aop!cloud, Aop!local, Aop!Active, Aop!Foreign, Aop!OneCA, Aop!KnowsRecord,
        Aop!Fresh, Aop!Copies, Aop!CopiesNamed, Aop!Rests, Aop!Resting, AopFlat, AopTyped, AopLocalTyped
<1>14. CASE Aop!Arrives
    <2>1. UNCHANGED <<s1, s4, s6, run>> /\ s3' = None /\ s3 = s4 /\ s3 # None
        BY <1>14 DEF Aop!Arrives, Aop!local, Aop!OneCA
    <2>2. s2' = s2 \/ (~Aop!Active(s4) /\ s2' = [cert |-> s4, status |-> "pending"])
        BY <1>14, <2>1 DEF Aop!Arrives
    <2>3. CASE s2' = s2
        BY <2>1, <2>3, AopActive DEF Aop!KnowsRecord, Aop!Fresh, Aop!Copies, Aop!CopiesNamed
    <2>4. CASE ~Aop!Active(s4) /\ s2' = [cert |-> s4, status |-> "pending"]
        <3>1. s2'.cert = s4'
            BY <2>1, <2>4
        <3> QED BY <2>1, <2>4, <3>1 DEF Aop!KnowsRecord, Aop!Fresh, Aop!Copies, Aop!CopiesNamed
    <2> QED BY <2>2, <2>3, <2>4
<1>15. CASE Aop!Deploys
    <2>1. UNCHANGED <<s1, s3, s4, s6, run>> /\ s2 # None /\ s2.status = "pending" /\ s2' = [s2 EXCEPT !.status = "active"]
        BY <1>15 DEF Aop!Deploys, Aop!local
    <2>2. s2'.cert = s2.cert
        BY <2>1 DEF AopTyped, AopCloudTyped, Aop!Associations
    <2>3. ~Aop!Active(s4)
        BY <2>1, AopActive
    <2> QED BY <2>1, <2>2, <2>3 DEF Aop!KnowsRecord, Aop!Fresh, Aop!Copies, Aop!CopiesNamed
<1>16. CASE Aop!StepFails
    <2>1. UNCHANGED <<s1, s2, s3, s4>> /\ (s6' = s6 \/ s6' = run.copy)
        BY <1>16 DEF Aop!StepFails, Aop!cloud
    <2>2. CASE run.at = "record"
        <3>1. run'.at = "remove" /\ run'.copy = run.copy
            BY <1>16, <2>2, AopGoes DEF Aop!StepFails
        <3> QED BY <2>1, <2>2, <3>1, AopKnows DEF Aop!KnowsRecord, Aop!Fresh, Aop!Copies
    <2>3. CASE run.at = "uploaded"
        <3>1. run'.at = "mark" /\ run'.copy = Aop!Phase("upload_unknown")
            BY <1>16, <2>3, AopGoes DEF Aop!StepFails
        <3>2. s6 # None /\ run.copy # None /\ run.copy.ca = s4 /\ run.copy.cert = s4 /\ run.copy \in Aop!ControlRecords
            BY <2>3 DEF Aop!KnowsRecord, Aop!CopiesNamed, Aop!Copies, AopFlat
        <3>3. Aop!Copies("upload_unknown")'
            BY <2>1, <3>1, <3>2, AopPhases DEF Aop!Phases, Aop!Copies
        <3> QED BY <2>1, <3>1, <3>2, <3>3, AopKnows
    <2>4. CASE run.at \in {"associated", "poll"}
        <3>1. run'.at = "mark" /\ run'.copy = Aop!Phase("associate_unknown")
            BY <1>16, <2>4, AopGoes DEF Aop!StepFails
        <3>2. s6 # None /\ run.copy # None /\ run.copy.ca = s4 /\ run.copy.cert = s4 /\ run.copy \in Aop!ControlRecords
            BY <2>4 DEF Aop!KnowsRecord, Aop!CopiesNamed, Aop!Copies, AopFlat
        <3>3. Aop!CopiesNamed("associate_unknown")'
            BY <2>1, <3>1, <3>2, AopPhases DEF Aop!Phases, Aop!Copies, Aop!CopiesNamed
        <3> QED BY <3>1, <3>3, AopKnows
    <2>5. CASE run.at \notin {"record", "uploaded", "associated", "poll"}
        BY <1>16, <2>5, AopGoes, AopKnows DEF Aop!StepFails
    <2> QED BY <2>2, <2>3, <2>4, <2>5
<1>17. CASE Aop!Killed
    <2>1. UNCHANGED <<s1, s2, s3, s4, s6>> /\ (Aop!Rests \/ run' = run)
        BY <1>17 DEF Aop!Killed, Aop!cloud, Aop!local
    <2>2. CASE Aop!Rests
        BY <2>2, AopGoes, AopKnows
    <2>3. CASE run' = run
        BY <2>1, <2>3 DEF Aop!KnowsRecord, Aop!Fresh, Aop!Copies, Aop!CopiesNamed, Aop!Active
    <2> QED BY <2>1, <2>2, <2>3
<1>18. CASE Aop!Reboots
    BY <1>18, AopGoes, AopKnows DEF Aop!Reboots
<1>19. CASE Aop!OperatorReconciles
    BY <1>19 DEF Aop!OperatorReconciles, Aop!cloud, Aop!local, Aop!Active, Aop!Foreign, Aop!OneCA,
        Aop!KnowsRecord, Aop!Fresh, Aop!Copies, Aop!CopiesNamed, Aop!Locked, Aop!Busy, AopFlat, AopTyped,
        AopLocalTyped
<1>20. CASE Aop!OthersAssociate
    BY <1>20 DEF Aop!OthersAssociate, Aop!cloud, Aop!local, Aop!Active, Aop!Foreign, Aop!OneCA, Aop!KnowsRecord,
        Aop!Fresh, Aop!Copies, Aop!CopiesNamed, Aop!Trouble, Aop!Locked, AopFlat, AopTyped, AopLocalTyped
<1>21. CASE UNCHANGED <<s1, s2, s3, s4, s6, run>>
    BY <1>21 DEF Aop!KnowsRecord, Aop!Active, Aop!Foreign, Aop!Fresh, Aop!Copies, Aop!CopiesNamed
<1> QED BY <1>1, <1>2, <1>3, <1>4, <1>5, <1>6, <1>7, <1>8, <1>9, <1>10, <1>11, <1>12, <1>13, <1>14, <1>15,
        <1>16, <1>17, <1>18, <1>19, <1>20, <1>21
        DEF Aop!Next, Aop!cloud, Aop!local, Aop!Probes, Aop!Installs, Aop!Reloads, Aop!CommitsInstall,
        Aop!InstallFails, Aop!OperatorRetiresNginx

(* A required certificate stays associated.                                  *)
LEMMA AopRequiredStandsStep ==
    ASSUME AopTyped, Aop!AopRecordIsTrue, Aop!OneCA, Aop!KnowsRecord, Aop!RequiredStands, AopFlat, Aop!Next
    PROVE  Aop!RequiredStands'
<1> USE NoneAssumption
<1>1. CASE Aop!WritesCA
    <2>1. s4 = None /\ UNCHANGED <<s2, s7, s9>>
        BY <1>1 DEF Aop!WritesCA, Aop!cloud
    <2>2. ~Aop!Requires
        BY <2>1 DEF Aop!RequiredStands
    <2> QED BY <2>1, <2>2 DEF Aop!RequiredStands, Aop!Requires
<1>2. CASE Aop!Removes
    <2>1. UNCHANGED <<s2, s7, s9>> /\ (s4' = s4 \/ run.at = "remove ca")
        BY <1>2 DEF Aop!Removes, Aop!cloud
    <2>2. CASE s4' = s4
        BY <2>1, <2>2, AopActive DEF Aop!RequiredStands, Aop!Requires
    <2>3. CASE run.at = "remove ca"
        <3>1. s1 = {0}
            BY <2>3 DEF Aop!KnowsRecord, Aop!Fresh, Aop!Foreign
        <3>2. s4 # None => ~Aop!Active(s4)
            BY <3>1, AopActive, AopNoneActive DEF Aop!OneCA, AopFlat
        <3> QED BY <2>1, <3>2 DEF Aop!RequiredStands, Aop!Requires
    <2> QED BY <2>1, <2>2, <2>3
<1>3. CASE Aop!Arrives
    <2>1. UNCHANGED <<s4, s7, s9>> /\ s3 = s4 /\ s3 # None
        BY <1>3 DEF Aop!Arrives, Aop!local, Aop!OneCA
    <2>2. s2' = s2 \/ ~Aop!Active(s4)
        BY <1>3, <2>1 DEF Aop!Arrives
    <2> QED BY <2>1, <2>2, AopActive DEF Aop!RequiredStands, Aop!Requires
<1>4. CASE Aop!Deploys
    <2>1. UNCHANGED <<s4, s7, s9>> /\ s2.status = "pending"
        BY <1>4 DEF Aop!Deploys, Aop!local
    <2>2. ~Aop!Active(s4)
        BY <2>1, AopActive
    <2> QED BY <2>1, <2>2 DEF Aop!RequiredStands, Aop!Requires
<1>5. ASSUME NEW stage \in {"optional", "required"}, Aop!Installs(stage)
      PROVE  Aop!RequiredStands'
    <2>1. /\ UNCHANGED <<s2, s4>> /\ s4 # None /\ s9.at = "idle"
          /\ s9' = [at |-> "reload", to |-> stage, old |-> s7] /\ s7' = [s7 EXCEPT !.disk = stage]
        BY <1>5 DEF Aop!Installs, Aop!cloud, Aop!local, Aop!Locked
    <2>2. s7'.disk = stage /\ s7'.live = s7.live /\ s7'.liveCA = s7.liveCA
        BY <2>1 DEF AopTyped, AopNginxTyped, Aop!Sites
    <2>3. stage = "required" => Aop!Active(s4)
        BY <1>5, <2>1 DEF Aop!Installs, Aop!AdmitsRequired, Aop!OneCA
    <2>4. Aop!Requires' => Aop!Requires \/ stage = "required"
        BY <2>1, <2>2 DEF Aop!Requires
    <2> QED BY <2>1, <2>2, <2>3, <2>4, AopActive DEF Aop!RequiredStands, Aop!Requires
<1>6. CASE Aop!Reloads
    <2>1. /\ UNCHANGED <<s2, s4>> /\ s9.at = "reload" /\ s4 # None
          /\ s7' = [s7 EXCEPT !.live = s9.to, !.liveCA = s4] /\ s9' = [s9 EXCEPT !.at = "commit"]
        BY <1>6 DEF Aop!Reloads, Aop!cloud, Aop!local
    <2>2. s7'.disk = s7.disk /\ s7'.live = s9.to /\ s7'.liveCA = s4
        BY <2>1 DEF AopTyped, AopNginxTyped, Aop!Sites
    <2>3. s9'.at = "commit" /\ s9'.to = s9.to /\ s9'.old = s9.old
        BY <2>1 DEF AopTyped, AopNginxTyped
    <2>4. Aop!Requires' => Aop!Requires
        BY <2>1, <2>2, <2>3 DEF Aop!Requires
    <2> QED BY <2>1, <2>2, <2>4, AopActive DEF Aop!RequiredStands
<1>7. CASE Aop!CommitsInstall
    <2>1. /\ UNCHANGED <<s2, s4>> /\ s9' = Aop!Uninstalled
          /\ s7' = [s7 EXCEPT !.state = [stage |-> s9.to, ca |-> s4]]
        BY <1>7 DEF Aop!CommitsInstall, Aop!cloud, Aop!local
    <2>2. s7'.disk = s7.disk /\ s7'.live = s7.live /\ s7'.liveCA = s7.liveCA /\ s9'.at = "idle"
        BY <2>1 DEF AopTyped, AopNginxTyped, Aop!Sites, Aop!Uninstalled
    <2> QED BY <2>1, <2>2, AopActive DEF Aop!RequiredStands, Aop!Requires
<1>8. CASE Aop!InstallFails
    <2>1. UNCHANGED <<s2, s4>> /\ s9.at # "idle" /\ s9'.at = "idle"
        BY <1>8 DEF Aop!InstallFails, Aop!cloud, Aop!local, Aop!Uninstalled
    <2>2. s9.old \in Aop!Sites
        BY <2>1 DEF AopTyped, AopNginxTyped
    <2>3. /\ s7'.disk = s9.old.disk
          /\ s7'.live = IF s9.old.disk = "off" \/ s4 # None THEN s9.old.disk ELSE s7.live
          /\ s7'.liveCA = IF s9.old.disk = "off" THEN None ELSE IF s4 # None THEN s4 ELSE s7.liveCA
        BY <1>8, <2>2 DEF Aop!InstallFails, Aop!Sites
    <2>4. Aop!Requires' => Aop!Requires
        BY <2>1, <2>3 DEF Aop!Requires
    <2> QED BY <2>1, <2>3, <2>4, AopActive DEF Aop!RequiredStands, Aop!Requires
<1>9. CASE Aop!Killed
    <2>1. UNCHANGED <<s2, s4, s7>> /\ (s9' = s9 \/ s9'.at = "idle")
        BY <1>9 DEF Aop!Killed, Aop!cloud, Aop!local, Aop!Uninstalled
    <2>2. Aop!Requires' => Aop!Requires
        BY <2>1 DEF Aop!Requires
    <2> QED BY <2>1, <2>2, AopActive DEF Aop!RequiredStands
<1>10. CASE Aop!Reboots
    <2>1. UNCHANGED <<s2, s4>> /\ s9'.at = "idle"
        BY <1>10 DEF Aop!Reboots, Aop!cloud, Aop!local, Aop!Uninstalled
    <2>2. /\ s7'.disk = s7.disk
          /\ s7'.live = IF s7.disk # "off" /\ s4 = None THEN "down" ELSE s7.disk
          /\ s7'.liveCA = IF s7.disk = "off" THEN None ELSE s4
        BY <1>10 DEF Aop!Reboots, AopTyped, AopNginxTyped, Aop!Sites
    <2>3. Aop!Requires' => Aop!Requires
        BY <2>1, <2>2 DEF Aop!Requires
    <2> QED BY <2>1, <2>2, <2>3, AopActive DEF Aop!RequiredStands, Aop!Requires
<1>11. CASE Aop!OperatorRetiresNginx
    BY <1>11 DEF Aop!OperatorRetiresNginx, Aop!cloud, Aop!local, Aop!RequiredStands, Aop!Requires, Aop!Active,
        Aop!OneCA, Aop!Locked, AopFlat
<1>12. CASE Aop!OperatorReconciles
    <2>1. s7' = s7 /\ s9' = s9 /\ s7.disk = "off" /\ s7.live = "off" /\ s9.at = "idle"
        BY <1>12 DEF Aop!OperatorReconciles, Aop!Locked
    <2> QED BY <2>1 DEF Aop!RequiredStands, Aop!Requires
<1>13. CASE Aop!OthersAssociate
    <2>1. UNCHANGED <<s4, s7, s9>> /\ (s2 = None \/ s2.cert = 0)
        BY <1>13 DEF Aop!OthersAssociate, Aop!local, Aop!Foreign
    <2>2. s4 # None => ~Aop!Active(s4)
        BY <2>1, AopActive, AopNoneActive DEF AopFlat
    <2> QED BY <2>1, <2>2 DEF Aop!RequiredStands, Aop!Requires
<1>14. CASE UNCHANGED <<s2, s4, s7, s9>>
    BY <1>14 DEF Aop!RequiredStands, Aop!Requires, Aop!Active
<1> QED BY <1>1, <1>2, <1>3, <1>4, <1>5, <1>6, <1>7, <1>8, <1>9, <1>10, <1>11, <1>12, <1>13, <1>14
        DEF Aop!Next, Aop!cloud, Aop!local, Aop!UploadBegins, Aop!Records, Aop!Posts, Aop!NotesUploaded,
        Aop!Marks, Aop!AssociateBegins, Aop!Checks, Aop!Begins, Aop!Puts, Aop!Polls, Aop!NotesAssociated,
        Aop!Probes, Aop!StepFails

LEMMA AopStep ==
    ASSUME AopInv, [Aop!Next]_(Aop!vars)
    PROVE  AopInv'
<1>1. AopTyped /\ AopFlat
    BY AopTypedIs, AopFlatIs DEF AopInv
<1>2. CASE Aop!Next
    BY <1>1, <1>2, AopTypedIs, AopCloudTypedStep, AopLocalTypedStep, AopNginxTypedStep, AopRunTypedStep,
       AopRecordIsTrueStep, AopOneCAStep, AopKnowsRecordStep, AopRequiredStandsStep DEF AopInv, AopTyped
<1>3. CASE UNCHANGED Aop!vars
    <2>1. UNCHANGED <<s1, s2, s3, s4, s5, s6, s7, s8, s9, run>>
        BY <1>3 DEF Aop!vars, Aop!cloud, Aop!local
    <2>2. Aop!TypeOK'
        <3>1. AopTyped'
            BY <1>1, <2>1 DEF AopTyped, AopCloudTyped, AopLocalTyped, AopNginxTyped, AopRunTyped
        <3> QED BY <3>1, AopTypedIs
    <2>3. Aop!AopRecordIsTrue'
        BY <2>1 DEF AopInv, Aop!AopRecordIsTrue, Aop!CertificateIsAccounted, Aop!Active
    <2>4. Aop!OneCA'
        BY <2>1 DEF AopInv, Aop!OneCA, Aop!Active
    <2>5. Aop!KnowsRecord'
        BY <2>1 DEF AopInv, Aop!KnowsRecord, Aop!Fresh, Aop!Copies, Aop!CopiesNamed, Aop!Active
    <2>6. Aop!RequiredStands'
        BY <2>1 DEF AopInv, Aop!RequiredStands, Aop!Requires, Aop!Active
    <2> QED BY <2>2, <2>3, <2>4, <2>5, <2>6 DEF AopInv
<1> QED BY <1>2, <1>3

LEMMA AopInit ==
    ASSUME Init, tool = "aop"
    PROVE  AopInv
<1>1. Aop!Init
    BY DEF Init
<1>2. [cert |-> 0, status |-> "active"] \in Aop!Associations
    BY DEF Aop!Associations
<1>3. AopTyped
    <2>1. AopCloudTyped
        BY <1>1, <1>2 DEF Aop!Init, Aop!Foreign, AopCloudTyped
    <2>2. AopLocalTyped
        BY <1>1 DEF Aop!Init, AopLocalTyped
    <2>3. AopNginxTyped
        BY <1>1 DEF Aop!Init, AopNginxTyped, Aop!Sites, Aop!Stages, Aop!Uninstalled
    <2>4. AopRunTyped
        BY <1>1 DEF Aop!Init, Aop!Resting, AopRunTyped, AopPlaces
    <2> QED BY <2>1, <2>2, <2>3, <2>4 DEF AopTyped
<1>4. Aop!AopRecordIsTrue
    BY <1>1 DEF Aop!Init, Aop!AopRecordIsTrue, Aop!CertificateIsAccounted
<1>5. Aop!OneCA
    BY <1>1 DEF Aop!Init, Aop!OneCA, Aop!Foreign
<1>6. Aop!KnowsRecord
    BY <1>1 DEF Aop!Init, Aop!Resting, Aop!KnowsRecord
<1>7. Aop!RequiredStands
    BY <1>1 DEF Aop!Init, Aop!Uninstalled, Aop!RequiredStands, Aop!Requires
<1> QED BY <1>3, <1>4, <1>5, <1>6, <1>7, AopTypedIs DEF AopInv

LEMMA AopInvariance == Spec => [](tool = "aop" => AopInv)
<1>1. Init => (tool = "aop" => AopInv)
    BY AopInit
<1>2. (tool = "aop" => AopInv) /\ [Next]_vars => (tool = "aop" => AopInv)'
    BY OneTool, AopStep
<1> QED BY <1>1, <1>2, PTL DEF Spec

(* A certificate at Cloudflare is one the control record accounts for, and a  *)
(* record that says associated is true of Cloudflare, whatever answers and    *)
(* processes are lost (configure-cloudflare-aop.py, upload_aop and            *)
(* associate_aop).                                                           *)
THEOREM RecordStaysTrue == Spec => []AopRecordIsTrue
<1>1. (tool = "aop" => AopInv) => AopRecordIsTrue
    BY DEF AopInv, AopRecordIsTrue
<1> QED BY <1>1, AopInvariance, PTL

(* Where Nginx requires Cloudflare's certificate, the one that Cloudflare     *)
(* presents is under the CA Nginx trusts (install-nginx-aop.sh,               *)
(* validate_fresh_probe_proof).                                              *)
THEOREM RequiredStaysPassable == Spec => []RequiredIsPassable
<1>1. (tool = "aop" => AopInv) => RequiredIsPassable
    BY DEF AopInv, Aop!RequiredStands, Aop!Requires, RequiredIsPassable, Aop!RequiredIsPassable
<1> QED BY <1>1, AopInvariance, PTL

(* The association of the hostname with a certificate of somebody else's is   *)
(* never replaced: a request that is on its way finds none or its own         *)
(* (associate_aop).                                                          *)
THEOREM NeverTakenOver == Spec => NothingOverwritten
<1>1. ASSUME AopInv, [Aop!Next]_(Aop!vars)
      PROVE  Aop!KeepsForeign
    <2>1. AopTyped
        BY <1>1, AopTypedIs DEF AopInv
    <2>2. CASE Aop!Arrives
        BY <1>1, <2>2 DEF Aop!Arrives, AopInv, Aop!OneCA, Aop!KeepsForeign
    <2>3. CASE Aop!Deploys
        BY <2>1, <2>3 DEF Aop!Deploys, AopTyped, AopCloudTyped, Aop!Associations, Aop!KeepsForeign
    <2>4. CASE s2' = s2 \/ s2 = None \/ s2' = None
        BY <2>4 DEF Aop!KeepsForeign
    <2>5. Aop!OthersAssociate \/ Aop!OperatorReconciles => s2' = s2 \/ s2 = None \/ s2' = None
        BY DEF Aop!OthersAssociate, Aop!OperatorReconciles
    <2> QED BY <1>1, <2>2, <2>3, <2>4, <2>5 DEF Aop!Next, Aop!vars, Aop!cloud, Aop!UploadBegins, Aop!WritesCA,
        Aop!Records, Aop!Posts, Aop!Removes, Aop!NotesUploaded, Aop!Marks, Aop!AssociateBegins, Aop!Checks,
        Aop!Begins, Aop!Puts, Aop!Polls, Aop!NotesAssociated, Aop!Probes, Aop!Installs, Aop!Reloads,
        Aop!CommitsInstall, Aop!InstallFails, Aop!StepFails, Aop!Killed, Aop!Reboots, Aop!OperatorRetiresNginx
<1>2. (tool = "aop" => AopInv) /\ [Next]_vars => [tool = "aop" => Aop!KeepsForeign]_vars
    BY <1>1, OneTool
<1> QED BY <1>2, AopInvariance, PTL DEF Spec, NothingOverwritten

-----------------------------------------------------------------------------
(* The hardening of Redis: the host and the recovery files at each command of *)
(* the change, and of the way back.                                          *)

Box(state, compose, pw) == [state |-> state, compose |-> compose, pw |-> pw]
Host(c, e, a, r, k, p) == [compose |-> c, env |-> e, acl |-> a, residue |-> r, redis |-> k, app |-> p]

SoftBox == Box("up", "soft", "old")
HardBox == Box("up", "hard", "new")
HaltedBox == Box("stopped", "soft", "old")
Off(b) == [b EXCEPT !.state = "stopped"]

RedisAt(i) ==
    Host(IF i <= 8 THEN "soft" ELSE "hard", IF i <= 9 THEN "old" ELSE "new",
         IF i <= 7 THEN "none" ELSE "new", IF i <= 14 THEN "open" ELSE "closed",
         IF i <= 12 THEN SoftBox ELSE IF i <= 15 THEN HaltedBox ELSE HardBox,
         IF i <= 11 THEN SoftBox ELSE IF i <= 18 THEN HaltedBox ELSE HardBox)

FilesAt(i) ==
    {f \in Redis!RECOVERY_FILES :
        \/ f = "compose.before" /\ i \in 2..22
        \/ f = "env.before" /\ i \in 3..23
        \/ f = "state.json" /\ i \in 4..24}

BackAt(i) ==
    \E c, e, a, r, k, p :
        /\ s1 = Host(c, e, a, r, k, p)
        /\ i >= 3 => c = "soft"
        /\ i >= 4 => e = "old"
        /\ i >= 5 => r = "open"
        /\ i >= 7 => k = SoftBox
        /\ i >= 10 => p = SoftBox
        /\ i >= 13 => a = "none"

(* A change of one part of the host leaves the others.                       *)
LEMMA HostChanges ==
    ASSUME NEW c, NEW e, NEW a, NEW r, NEW k, NEW p, NEW v
    PROVE  LET h == Host(c, e, a, r, k, p) IN
           /\ h.compose = c /\ h.env = e /\ h.acl = a /\ h.residue = r /\ h.redis = k /\ h.app = p
           /\ [h EXCEPT !["compose"] = v] = Host(v, e, a, r, k, p)
           /\ [h EXCEPT !["env"] = v] = Host(c, v, a, r, k, p)
           /\ [h EXCEPT !["acl"] = v] = Host(c, e, v, r, k, p)
           /\ [h EXCEPT !["residue"] = v] = Host(c, e, a, v, k, p)
           /\ [h EXCEPT !["redis"] = v] = Host(c, e, a, r, v, p)
           /\ [h EXCEPT !["app"] = v] = Host(c, e, a, r, k, v)
<1> DEFINE h == Host(c, e, a, r, k, p)
           parts == {"compose", "env", "acl", "residue", "redis", "app"}
           At(x, c1, e1, a1, r1, k1, p1) ==
               IF x = "compose" THEN c1 ELSE IF x = "env" THEN e1 ELSE IF x = "acl" THEN a1
               ELSE IF x = "residue" THEN r1 ELSE IF x = "redis" THEN k1 ELSE p1
<1>1. /\ DOMAIN h = parts
      /\ h["compose"] = c /\ h["env"] = e /\ h["acl"] = a /\ h["residue"] = r /\ h["redis"] = k /\ h["app"] = p
    BY DEF Host
<1>2. \A c1, e1, a1, r1, k1, p1 : [x \in parts |-> At(x, c1, e1, a1, r1, k1, p1)] = Host(c1, e1, a1, r1, k1, p1)
    BY DEF Host
<1> HIDE DEF h
<1>3. \A y \in parts : [h EXCEPT ![y] = v] = [x \in parts |-> IF x = y THEN v ELSE h[x]]
    BY <1>1
<1>4. /\ [h EXCEPT !["compose"] = v] = [x \in parts |-> At(x, v, e, a, r, k, p)]
      /\ [h EXCEPT !["env"] = v] = [x \in parts |-> At(x, c, v, a, r, k, p)]
      /\ [h EXCEPT !["acl"] = v] = [x \in parts |-> At(x, c, e, v, r, k, p)]
    BY <1>1, <1>3
<1>5. /\ [h EXCEPT !["residue"] = v] = [x \in parts |-> At(x, c, e, a, v, k, p)]
      /\ [h EXCEPT !["redis"] = v] = [x \in parts |-> At(x, c, e, a, r, v, p)]
      /\ [h EXCEPT !["app"] = v] = [x \in parts |-> At(x, c, e, a, r, k, v)]
    BY <1>1, <1>3
<1> HIDE DEF parts, At
<1>6. h.compose = c /\ h.env = e /\ h.acl = a /\ h.residue = r /\ h.redis = k /\ h.app = p
    BY <1>1
<1> QED BY <1>2, <1>4, <1>5, <1>6 DEF h

(* A host is made of its parts.                                              *)
LEMMA HostMade ==
    ASSUME NEW c, NEW e, NEW a, NEW r, NEW k, NEW p, NEW g,
           g = [x \in DOMAIN g |-> g[x]], DOMAIN g = {"compose", "env", "acl", "residue", "redis", "app"},
           g["compose"] = c, g["env"] = e, g["acl"] = a, g["residue"] = r, g["redis"] = k, g["app"] = p
    PROVE  g = Host(c, e, a, r, k, p)
BY DEF Host

LEMMA BoxStops == Off(SoftBox) = HaltedBox
<1>1. Off(SoftBox) = [x \in {"state", "compose", "pw"} |->
            IF x = "state" THEN "stopped" ELSE IF x = "compose" THEN "soft" ELSE "old"]
    BY DEF SoftBox, Box, Off
<1>2. HaltedBox = [x \in {"state", "compose", "pw"} |->
            IF x = "state" THEN "stopped" ELSE IF x = "compose" THEN "soft" ELSE "old"]
    BY DEF HaltedBox, Box
<1> QED BY <1>1, <1>2

LEMMA HostEnds ==
    /\ Redis!Original = Host("soft", "old", "none", "open", SoftBox, SoftBox)
    /\ Redis!Hardened = Host("hard", "new", "new", "closed", HardBox, HardBox)
    /\ Redis!Original # Redis!Hardened
BY DEF Redis!Original, Redis!Hardened, Redis!Container, Host, SoftBox, HardBox, Box

(* What each command is. *)
LEMMA RedisCommands ==
    /\ run.phase = "main" =>
          /\ Len(Redis!Program) = 24
          /\ run.i \in {1, 2, 3} => Redis!Verb = "note"
          /\ run.i = 1 => Redis!Command[2] = "compose.before"
          /\ run.i = 2 => Redis!Command[2] = "env.before"
          /\ run.i = 3 => Redis!Command[2] = "state.json"
          /\ run.i \in {7, 8, 9, 14} => Redis!Verb = "set"
          /\ run.i = 7 => Redis!Command[2] = "acl" /\ Redis!Command[3] = "new"
          /\ run.i = 8 => Redis!Command[2] = "compose" /\ Redis!Command[3] = "hard"
          /\ run.i = 9 => Redis!Command[2] = "env" /\ Redis!Command[3] = "new"
          /\ run.i = 14 => Redis!Command[2] = "residue" /\ Redis!Command[3] = "closed"
          /\ run.i \in {11, 12} => Redis!Verb = "halt"
          /\ run.i = 11 => Redis!Command[2] = {"app"}
          /\ run.i = 12 => Redis!Command[2] = {"redis"}
          /\ run.i \in {15, 18} => Redis!Verb = "up"
          /\ run.i = 15 => Redis!Command[2] = "redis"
          /\ run.i = 18 => Redis!Command[2] = "app"
          /\ run.i \in {22, 23, 24} => Redis!Verb = "forget"
          /\ run.i = 22 => Redis!Command[2] = "compose.before"
          /\ run.i = 23 => Redis!Command[2] = "env.before"
          /\ run.i = 24 => Redis!Command[2] = "state.json"
          /\ run.i = 4 => Redis!Verb = "own"
          /\ run.i \in {5, 6, 10, 13, 16, 17, 19, 20, 21} => Redis!Verb \in Redis!Checks
    /\ run.phase = "clear" =>
          /\ Len(Redis!Program) = 3
          /\ run.i \in {1, 2, 3} => Redis!Verb = "forget"
    /\ run.phase = "undo" =>
          /\ Len(Redis!Program) = 15
          /\ run.i = 1 => Redis!Verb = "read"
          /\ run.i \in {2, 3, 4, 12} => Redis!Verb = "set"
          /\ run.i = 2 => Redis!Command[2] = "compose" /\ Redis!Command[3] = "soft"
          /\ run.i = 3 => Redis!Command[2] = "env" /\ Redis!Command[3] = "old"
          /\ run.i = 4 => Redis!Command[2] = "residue" /\ Redis!Command[3] = "open"
          /\ run.i = 5 => Redis!Verb = "halt" /\ Redis!Command[2] = {"app", "redis"}
          /\ run.i \in {6, 9} => Redis!Verb = "up"
          /\ run.i = 6 => Redis!Command[2] = "redis"
          /\ run.i = 9 => Redis!Command[2] = "app"
          /\ run.i = 12 => Redis!Command[2] = "acl" /\ Redis!Command[3] = "none"
          /\ run.i \in {7, 8, 10, 11} => Redis!Verb \in Redis!Checks
          /\ run.i \in {13, 14, 15} => Redis!Verb = "forget"
          /\ run.i = 13 => Redis!Command[2] = "compose.before"
          /\ run.i = 14 => Redis!Command[2] = "env.before"
          /\ run.i = 15 => Redis!Command[2] = "state.json"
<1>1. CASE run.phase = "main"
    <2>1. Redis!Program = Redis!Hardening
        BY <1>1 DEF Redis!Program
    <2> QED BY <1>1, <2>1 DEF Redis!Hardening, Redis!Verb, Redis!Command, Redis!Checks
<1>2. CASE run.phase = "clear"
    <2>1. Redis!Program = Redis!Clearing
        BY <1>2 DEF Redis!Program
    <2> QED BY <1>2, <2>1 DEF Redis!Clearing, Redis!Verb, Redis!Command
<1>3. CASE run.phase = "undo"
    <2>1. Redis!Program = Redis!Restoring
        BY <1>3 DEF Redis!Program
    <2> QED BY <1>3, <2>1 DEF Redis!Restoring, Redis!Verb, Redis!Command, Redis!Checks
<1> QED BY <1>1, <1>2, <1>3

(* What a command does. *)
LEMMA RedisActs ==
    ASSUME Redis!Acts
    PROVE  /\ Redis!Verb = "set" => s1' = [s1 EXCEPT ![Redis!Command[2]] = Redis!Command[3]] /\ s2' = s2
           /\ Redis!Verb = "up" => s1' = [s1 EXCEPT ![Redis!Command[2]] = Redis!Fresh(Redis!Command[2])] /\ s2' = s2
           /\ Redis!Verb = "halt" =>
                 /\ s1' = [x \in DOMAIN s1' |-> s1'[x]] /\ DOMAIN s1' = DOMAIN s1
                 /\ \A x \in DOMAIN s1 :
                        s1'[x] = IF x \in Redis!Command[2] THEN Off(s1[x]) ELSE s1[x]
                 /\ s2' = s2
           /\ Redis!Verb = "note" => s1' = s1 /\ s2' = s2 \cup {Redis!Command[2]}
           /\ Redis!Verb = "forget" => s1' = s1 /\ s2' = s2 \ {Redis!Command[2]}
           /\ Redis!Verb = "own" => s1' = s1 /\ s2' = s2
BY DEF Redis!Acts, Off

(* docker compose stop of some of the containers.                            *)
LEMMA RedisHalts ==
    ASSUME NEW c, NEW e, NEW a, NEW r, NEW k, NEW p, s1 = Host(c, e, a, r, k, p), Redis!Acts, Redis!Verb = "halt"
    PROVE  /\ Redis!Command[2] = {"app"} => s1' = Host(c, e, a, r, k, Off(p))
           /\ Redis!Command[2] = {"redis"} => s1' = Host(c, e, a, r, Off(k), p)
           /\ Redis!Command[2] = {"app", "redis"} => s1' = Host(c, e, a, r, Off(k), Off(p))
<1> DEFINE S == Redis!Command[2]
<1>1. /\ s1' = [x \in DOMAIN s1' |-> s1'[x]] /\ DOMAIN s1' = DOMAIN s1
      /\ \A x \in DOMAIN s1 : s1'[x] = IF x \in S THEN Off(s1[x]) ELSE s1[x]
    BY RedisActs
<1> HIDE DEF S
<1>2. /\ DOMAIN s1 = {"compose", "env", "acl", "residue", "redis", "app"}
      /\ s1["compose"] = c /\ s1["env"] = e /\ s1["acl"] = a /\ s1["residue"] = r /\ s1["redis"] = k /\ s1["app"] = p
    BY DEF Host
<1>3. S \in {{"app"}, {"redis"}, {"app", "redis"}} =>
      /\ s1'["compose"] = c /\ s1'["env"] = e /\ s1'["acl"] = a /\ s1'["residue"] = r
      /\ s1'["redis"] = IF "redis" \in S THEN Off(k) ELSE k
      /\ s1'["app"] = IF "app" \in S THEN Off(p) ELSE p
    BY <1>1, <1>2
<1>4. S \in {{"app"}, {"redis"}, {"app", "redis"}} => s1' = Host(c, e, a, r, s1'["redis"], s1'["app"])
    BY <1>1, <1>2, <1>3, HostMade
<1>5. /\ S = {"app"} => s1' = Host(c, e, a, r, k, Off(p))
      /\ S = {"redis"} => s1' = Host(c, e, a, r, Off(k), p)
      /\ S = {"app", "redis"} => s1' = Host(c, e, a, r, Off(k), Off(p))
    BY <1>3, <1>4
<1> QED BY <1>5 DEF S

(* A container that is made anew.                                            *)
LEMMA RedisFresh ==
    ASSUME NEW c, NEW e, NEW a, NEW r, NEW k, NEW p, s1 = Host(c, e, a, r, k, p)
    PROVE  /\ Redis!Fresh("app") = Box("up", c, e)
           /\ Redis!Fresh("redis") = Box("up", c, IF c = "hard" THEN a ELSE e)
BY HostChanges DEF Redis!Fresh, Redis!Container, Box

(* A command of the change leads to the next one's host and files.           *)
LEMMA RedisMain ==
    ASSUME run.phase = "main", run.i \in 1..24, s1 = RedisAt(run.i), s2 = FilesAt(run.i), Redis!Acts,
           Redis!Verb \notin Redis!Checks
    PROVE  s1' = RedisAt(run.i + 1) /\ s2' = FilesAt(run.i + 1)
<1>1. run.i \in {1, 2, 3, 4, 7, 8, 9, 11, 12, 14, 15, 18, 22, 23, 24}
    BY RedisCommands
<1>2. CASE run.i \in {1, 2, 3, 4, 22, 23, 24}
    <2>1. s1' = s1
        BY <1>2, RedisActs, RedisCommands
    <2>2. RedisAt(run.i + 1) = RedisAt(run.i)
        BY <1>2 DEF RedisAt
    <2>3. s2' = FilesAt(run.i + 1)
        BY <1>2, RedisActs, RedisCommands DEF FilesAt, Redis!RECOVERY_FILES
    <2> QED BY <2>1, <2>2, <2>3
<1>3. ASSUME run.i \in {7, 8, 9, 11, 12, 14, 15, 18}
      PROVE  FilesAt(run.i + 1) = FilesAt(run.i)
    BY <1>3 DEF FilesAt
<1>4. CASE run.i = 7
    BY <1>3, <1>4, RedisActs, RedisCommands, HostChanges DEF RedisAt
<1>5. CASE run.i = 8
    <2>1. s1 = Host("soft", "old", "new", "open", SoftBox, SoftBox)
        BY <1>5 DEF RedisAt
    <2>2. s1' = Host("hard", "old", "new", "open", SoftBox, SoftBox) /\ s2' = s2
        <3>1. s1' = [s1 EXCEPT !["compose"] = "hard"] /\ s2' = s2
            BY <1>5, RedisActs, RedisCommands
        <3> QED BY <2>1, <3>1, HostChanges
    <2>3. RedisAt(run.i + 1) = Host("hard", "old", "new", "open", SoftBox, SoftBox)
        BY <1>5 DEF RedisAt
    <2> QED BY <1>3, <1>5, <2>2, <2>3
<1>6. CASE run.i = 9
    BY <1>3, <1>6, RedisActs, RedisCommands, HostChanges DEF RedisAt
<1>7. CASE run.i = 11
    <2>1. s1 = Host("hard", "new", "new", "open", SoftBox, SoftBox)
        BY <1>7 DEF RedisAt
    <2>2. s1' = Host("hard", "new", "new", "open", SoftBox, HaltedBox) /\ s2' = s2
        BY <1>7, <2>1, RedisActs, RedisCommands, RedisHalts, BoxStops
    <2>3. RedisAt(run.i + 1) = Host("hard", "new", "new", "open", SoftBox, HaltedBox)
        BY <1>7 DEF RedisAt
    <2> QED BY <1>3, <1>7, <2>2, <2>3
<1>8. CASE run.i = 12
    <2>1. s1 = Host("hard", "new", "new", "open", SoftBox, HaltedBox)
        BY <1>8 DEF RedisAt
    <2>2. s1' = Host("hard", "new", "new", "open", HaltedBox, HaltedBox) /\ s2' = s2
        BY <1>8, <2>1, RedisActs, RedisCommands, RedisHalts, BoxStops
    <2>3. RedisAt(run.i + 1) = Host("hard", "new", "new", "open", HaltedBox, HaltedBox)
        BY <1>8 DEF RedisAt
    <2> QED BY <1>3, <1>8, <2>2, <2>3
<1>9. CASE run.i = 14
    BY <1>3, <1>9, RedisActs, RedisCommands, HostChanges DEF RedisAt
<1>10. CASE run.i = 15
    BY <1>3, <1>10, RedisActs, RedisCommands, HostChanges, RedisFresh DEF RedisAt, HardBox
<1>11. CASE run.i = 18
    BY <1>3, <1>11, RedisActs, RedisCommands, HostChanges, RedisFresh DEF RedisAt, HardBox
<1> QED BY <1>1, <1>2, <1>4, <1>5, <1>6, <1>7, <1>8, <1>9, <1>10, <1>11

(* So does a command of the way back. *)
LEMMA RedisBack ==
    ASSUME NEW i \in 2..12, run.phase = "undo", run.i = i, BackAt(i), Redis!Acts, Redis!Verb \notin Redis!Checks
    PROVE  BackAt(i + 1)' /\ s2' = s2
<1>1. i \in {2, 3, 4, 5, 6, 9, 12}
    BY RedisCommands
<1>2. PICK c, e, a, r, k, p :
        /\ s1 = Host(c, e, a, r, k, p)
        /\ i >= 3 => c = "soft"
        /\ i >= 4 => e = "old"
        /\ i >= 5 => r = "open"
        /\ i >= 7 => k = SoftBox
        /\ i >= 10 => p = SoftBox
        /\ i >= 13 => a = "none"
    BY DEF BackAt
<1>3. CASE i = 2
    <2>1. s1' = Host("soft", e, a, r, k, p) /\ s2' = s2
        <3>1. s1' = [s1 EXCEPT !["compose"] = "soft"] /\ s2' = s2
            BY <1>3, RedisActs, RedisCommands
        <3> QED BY <1>2, <3>1, HostChanges
    <2> QED BY <1>3, <2>1 DEF BackAt
<1>4. CASE i = 3
    <2>1. s1' = Host("soft", "old", a, r, k, p) /\ s2' = s2
        BY <1>2, <1>4, RedisActs, RedisCommands, HostChanges
    <2> QED BY <1>4, <2>1 DEF BackAt
<1>5. CASE i = 4
    <2>1. s1' = Host("soft", "old", a, "open", k, p) /\ s2' = s2
        BY <1>2, <1>5, RedisActs, RedisCommands, HostChanges
    <2> QED BY <1>5, <2>1 DEF BackAt
<1>6. CASE i = 5
    <2>1. s1' = Host("soft", "old", a, "open", Off(k), Off(p)) /\ s2' = s2
        BY <1>6, <1>2, <1>6, RedisActs, RedisCommands, RedisHalts
    <2> QED BY <1>6, <2>1 DEF BackAt
<1>7. CASE i = 6
    <2>1. Redis!Fresh("redis") = SoftBox
        BY <1>2, <1>7, RedisFresh DEF SoftBox
    <2>2. s1' = Host("soft", "old", a, "open", SoftBox, p) /\ s2' = s2
        BY <1>2, <1>7, <2>1, RedisActs, RedisCommands, HostChanges
    <2> QED BY <1>7, <2>2 DEF BackAt
<1>8. CASE i = 9
    <2>1. Redis!Fresh("app") = SoftBox
        BY <1>2, <1>8, RedisFresh DEF SoftBox
    <2>2. s1' = Host("soft", "old", a, "open", SoftBox, SoftBox) /\ s2' = s2
        BY <1>2, <1>8, <2>1, RedisActs, RedisCommands, HostChanges
    <2> QED BY <1>8, <2>2 DEF BackAt
<1>9. CASE i = 12
    <2>1. s1' = Host("soft", "old", "none", "open", SoftBox, SoftBox) /\ s2' = s2
        BY <1>2, <1>9, RedisActs, RedisCommands, HostChanges
    <2> QED BY <1>9, <2>1 DEF BackAt
<1> QED BY <1>1, <1>3, <1>4, <1>5, <1>6, <1>7, <1>8, <1>9

RedisRuns == [op : {"idle", "apply"}, phase : {"main", "clear", "undo"}, i : Nat]

RedisTyped == run \in RedisRuns /\ s2 \subseteq Redis!RECOVERY_FILES

RedisChanging(i) == run.phase = "main" /\ i \in 1..24 /\ s1 = RedisAt(i) /\ s2 = FilesAt(i)
RedisClearing(i) == run.phase = "clear" /\ i \in 1..3 /\ s1 = Redis!Original
RedisReading(i)  == run.phase = "undo" /\ i = 1 /\ (Redis!Noted \/ s1 = Redis!Hardened) /\ BackAt(1)
RedisBacking(i)  == run.phase = "undo" /\ i \in 2..12 /\ Redis!Noted /\ BackAt(i)
RedisEnding(i)   == run.phase = "undo" /\ i \in 13..15 /\ s1 = Redis!Original /\ s2 = FilesAt(i + 9)

RedisSettled == Redis!Noted \/ s1 \in {Redis!Original, Redis!Hardened}

RedisWorks(i) ==
    /\ outcome = "running"
    /\ RedisChanging(i) \/ RedisClearing(i) \/ RedisReading(i) \/ RedisBacking(i) \/ RedisEnding(i)

RedisInv ==
    /\ RedisTyped
    /\ run.op = "idle" => RedisSettled
    /\ run.op = "apply" => RedisWorks(run.i)
    /\ Redis!RedisReportIsTrue

(* What a step of the tool is to the host and its note.                      *)
RedisMoves ==
    \/ s1' = s1 /\ (Redis!Noted' <=> Redis!Noted)
    \/ s1 = Redis!Original /\ s1' = Redis!Original /\ Redis!Noted'
    \/ Redis!Noted /\ RedisSettled'

(* The ends of the tables. *)
LEMMA RedisTables ==
    /\ RedisAt(1) = Redis!Original /\ RedisAt(24) = Redis!Hardened /\ RedisAt(25) = Redis!Hardened
    /\ \A i \in 1..7 : RedisAt(i) = Redis!Original
    /\ \A i \in 19..25 : RedisAt(i) = Redis!Hardened
    /\ FilesAt(1) = {} /\ FilesAt(25) = {}
    /\ \A i \in 4..22 : FilesAt(i) = Redis!RECOVERY_FILES
    /\ \A i : FilesAt(i) \subseteq Redis!RECOVERY_FILES
    /\ \A i \in {5, 6, 10, 13, 16, 17, 19, 20, 21} : RedisAt(i + 1) = RedisAt(i) /\ FilesAt(i + 1) = FilesAt(i)
<1>1. \A i \in 1..7 : RedisAt(i) = Redis!Original
    BY HostEnds DEF RedisAt
<1>2. \A i \in 19..25 : RedisAt(i) = Redis!Hardened
    BY HostEnds DEF RedisAt
<1>3. FilesAt(1) = {} /\ FilesAt(25) = {}
    BY DEF FilesAt
<1>4. \A i \in 4..22 : FilesAt(i) = Redis!RECOVERY_FILES
    BY DEF FilesAt, Redis!RECOVERY_FILES
<1>5. \A i : FilesAt(i) \subseteq Redis!RECOVERY_FILES
    BY DEF FilesAt
<1>6. \A i \in {5, 6, 10, 13, 16, 17, 19, 20, 21} : RedisAt(i + 1) = RedisAt(i) /\ FilesAt(i + 1) = FilesAt(i)
    BY DEF RedisAt, FilesAt
<1> QED BY <1>1, <1>2, <1>3, <1>4, <1>5, <1>6

(* A host of the change is one the way back can start from.                  *)
LEMMA RedisTurns ==
    /\ \A i : s1 = RedisAt(i) => BackAt(1)
    /\ \A i : s1' = RedisAt(i) => BackAt(1)'
    /\ \A i \in 13..16 : BackAt(i) => s1 = Redis!Original
    /\ \A i \in 13..16 : BackAt(i)' => s1' = Redis!Original
BY HostEnds DEF RedisAt, BackAt

(* Where the tool goes. *)
LEMMA RedisRun ==
    ASSUME run \in RedisRuns, run.op = "apply"
    PROVE  /\ \A end : Redis!Reports(end) =>
                  run' \in RedisRuns /\ run'.op = "idle" /\ outcome' = end
           /\ \A ph \in {"clear", "undo"} : Redis!Enters(ph) =>
                  run' \in RedisRuns /\ run'.op = "apply" /\ run'.phase = ph /\ run'.i = 1 /\ outcome' = outcome
<1>1. \A end : Redis!Reports(end) => run' \in RedisRuns /\ run'.op = "idle" /\ outcome' = end
    BY DEF RedisRuns, Redis!Reports, Redis!Idle
<1>2. ASSUME NEW ph \in {"clear", "undo"}, Redis!Enters(ph)
      PROVE  run' \in RedisRuns /\ run'.op = "apply" /\ run'.phase = ph /\ run'.i = 1 /\ outcome' = outcome
    <2>1. run' = [op |-> "apply", phase |-> ph, i |-> 1] /\ outcome' = outcome
        BY <1>2 DEF RedisRuns, Redis!Enters
    <2> QED BY <2>1 DEF RedisRuns
<1> QED BY <1>1, <1>2

LEMMA RedisGoes ==
    ASSUME run \in RedisRuns, run.op = "apply", NEW n \in Nat, Len(Redis!Program) = n, Redis!Goes
    PROVE  \/ /\ run.i < n /\ run' \in RedisRuns /\ run'.op = "apply" /\ run'.phase = run.phase
              /\ run'.i = run.i + 1 /\ outcome' = outcome
           \/ /\ run.i >= n /\ run' \in RedisRuns /\ run'.op = "idle"
              /\ run.phase = "main" => outcome' = "done"
              /\ run.phase = "clear" => outcome' = "unchanged"
              /\ run.phase = "undo" => outcome' = "undone"
<1>1. run.i \in Nat
    BY DEF RedisRuns
<1>2. CASE run.i < n
    BY <1>1, <1>2 DEF RedisRuns, Redis!Goes
<1>3. CASE run.i >= n
    BY <1>1, <1>3 DEF RedisRuns, Redis!Goes, Redis!Reports, Redis!Idle
<1> QED BY <1>1, <1>2, <1>3

(* The place the tool goes to, and what holds there.                         *)
LEMMA RedisInvAt ==
    /\ RedisTyped' /\ run'.op = "idle" /\ RedisSettled' /\ Redis!RedisReportIsTrue' => RedisInv'
    /\ \A j \in Nat : RedisTyped' /\ run'.op = "apply" /\ run'.i = j /\ RedisWorks(j)' => RedisInv'
BY DEF RedisInv, RedisWorks, Redis!RedisReportIsTrue

(* From one row of the tables to itself or the next.                         *)
LEMMA RedisMovesAt ==
    ASSUME NEW i \in 1..24, NEW j \in {i, i + 1}, s1 = RedisAt(i), s2 = FilesAt(i),
           s1' = RedisAt(j), s2' = FilesAt(j)
    PROVE  RedisMoves
<1>1. CASE j = i
    BY <1>1 DEF RedisMoves, Redis!Noted
<1>2. CASE j = i + 1 /\ i \in 1..3
    BY <1>2, RedisTables DEF RedisMoves, Redis!Noted, FilesAt, Redis!RECOVERY_FILES
<1>3. CASE j = i + 1 /\ i \in 4..22
    BY <1>3, RedisTables DEF RedisMoves, RedisSettled, Redis!Noted
<1>4. CASE j = i + 1 /\ i \in 23..24
    BY <1>4, RedisTables DEF RedisMoves, Redis!Noted, FilesAt, Redis!RECOVERY_FILES
<1> QED BY <1>1, <1>2, <1>3, <1>4

(* A command of the change, done.                                            *)
LEMMA RedisChanges ==
    ASSUME RedisTyped, run.op = "apply", RedisWorks(run.i), RedisChanging(run.i), Redis!Goes,
           s1' = RedisAt(run.i + 1), s2' = FilesAt(run.i + 1)
    PROVE  RedisInv' /\ RedisMoves
<1>1. PICK i \in 1..24 : run.i = i
    BY DEF RedisChanging
<1>2. run \in RedisRuns /\ run.phase = "main" /\ Len(Redis!Program) = 24 /\ outcome = "running"
    BY RedisCommands DEF RedisTyped, RedisChanging, RedisWorks
<1>3. s2' \subseteq Redis!RECOVERY_FILES
    BY RedisTables
<1>4. RedisMoves
    BY <1>1, RedisMovesAt DEF RedisChanging
<1>5. CASE i < 24
    <2>1. run' \in RedisRuns /\ run'.op = "apply" /\ run'.phase = "main" /\ run'.i = i + 1 /\ outcome' = "running"
        BY <1>1, <1>2, <1>5, RedisGoes
    <2>2. RedisWorks(i + 1)'
        BY <1>1, <1>5, <2>1 DEF RedisWorks, RedisChanging
    <2> QED BY <1>3, <1>5, <1>4, <2>1, <2>2, RedisInvAt DEF RedisTyped
<1>6. CASE i = 24
    <2>1. run' \in RedisRuns /\ run'.op = "idle" /\ outcome' = "done"
        BY <1>1, <1>2, <1>6, RedisGoes
    <2>2. s1' = Redis!Hardened /\ s2' = {}
        BY <1>1, <1>6, RedisTables
    <2> QED BY <1>3, <1>4, <2>1, <2>2, RedisInvAt DEF RedisTyped, RedisSettled, Redis!RedisReportIsTrue
<1> QED BY <1>5, <1>6

LEMMA RedisReports ==
    ASSUME RedisTyped, run.op = "apply", s2' \subseteq Redis!RECOVERY_FILES, NEW end, Redis!Reports(end),
           end \in {"lost", "retained", "cut"} \/ (end = "unchanged" /\ s1' = Redis!Original), RedisSettled'
    PROVE  RedisInv'
<1>1. run' \in RedisRuns /\ run'.op = "idle" /\ outcome' = end
    BY RedisRun DEF RedisTyped
<1>2. Redis!RedisReportIsTrue'
    BY <1>1 DEF Redis!RedisReportIsTrue
<1> QED BY <1>1, <1>2, RedisInvAt DEF RedisTyped

(* A command of the change that fails, with or without its effect.            *)
LEMMA RedisChangeFails ==
    ASSUME RedisTyped, run.op = "apply", RedisWorks(run.i), RedisChanging(run.i), Redis!Fails,
           NEW j \in {run.i, run.i + 1}, s1' = RedisAt(j), s2' = FilesAt(j)
    PROVE  RedisInv' /\ RedisMoves
<1>1. PICK i \in 1..24 : run.i = i
    BY DEF RedisChanging
<1>2. run \in RedisRuns /\ run.phase = "main" /\ outcome = "running" /\ j \in {i, i + 1}
    BY <1>1 DEF RedisTyped, RedisChanging, RedisWorks
<1>3. s2' \subseteq Redis!RECOVERY_FILES
    BY RedisTables
<1>4. RedisMoves
    BY <1>1, <1>2, RedisMovesAt DEF RedisChanging
<1>5. CASE i <= 3
    <2>1. Redis!Reports("lost")
        <3>1. run.i <= 3 /\ ~(run.i \in 4..6) /\ ~(run.i > 6)
            BY <1>1, <1>5
        <3> QED BY <1>2, <3>1 DEF Redis!Fails
    <2>2. s1' = Redis!Original
        BY <1>2, <1>5, RedisTables
    <2> QED BY <1>3, <1>4, <2>1, <2>2, RedisReports DEF RedisSettled
<1>6. CASE i \in 4..6
    <2>1. Redis!Enters("clear")
        <3>1. run.i \in 4..6 /\ ~(run.i <= 3) /\ ~(run.i > 6)
            BY <1>1, <1>6
        <3> QED BY <1>2, <3>1 DEF Redis!Fails
    <2>2. run' \in RedisRuns /\ run'.op = "apply" /\ run'.phase = "clear" /\ run'.i = 1 /\ outcome' = "running"
        BY <1>2, <2>1, RedisRun
    <2>3. s1' = Redis!Original
        BY <1>2, <1>6, RedisTables
    <2>4. RedisWorks(1)'
        BY <2>2, <2>3 DEF RedisWorks, RedisClearing
    <2> QED BY <1>3, <1>4, <2>2, <2>4, RedisInvAt DEF RedisTyped
<1>7. CASE i > 6
    <2>1. Redis!Enters("undo")
        BY <1>1, <1>2, <1>7 DEF Redis!Fails
    <2>2. run' \in RedisRuns /\ run'.op = "apply" /\ run'.phase = "undo" /\ run'.i = 1 /\ outcome' = "running"
        BY <1>2, <2>1, RedisRun
    <2>3. Redis!Noted' \/ s1' = Redis!Hardened
        BY <1>2, <1>7, RedisTables DEF Redis!Noted
    <2>4. BackAt(1)'
        BY RedisTurns
    <2>5. RedisWorks(1)'
        BY <2>2, <2>3, <2>4 DEF RedisWorks, RedisReading
    <2> QED BY <1>3, <1>4, <2>2, <2>5, RedisInvAt DEF RedisTyped
<1> QED BY <1>5, <1>6, <1>7

(* The recovery files of a change that has not begun are cleared.             *)
LEMMA RedisClears ==
    ASSUME RedisTyped, run.op = "apply", RedisWorks(run.i), RedisClearing(run.i), Redis!Goes \/ Redis!Fails,
           s1' = s1, s2' \subseteq s2
    PROVE  RedisInv' /\ RedisMoves
<1>1. PICK i \in 1..3 : run.i = i
    BY DEF RedisClearing
<1>2. /\ run \in RedisRuns /\ run.phase = "clear" /\ outcome = "running" /\ Len(Redis!Program) = 3
      /\ s1' = Redis!Original /\ s1 = Redis!Original
    BY RedisCommands DEF RedisTyped, RedisClearing, RedisWorks
<1>3. s2' \subseteq Redis!RECOVERY_FILES /\ RedisSettled'
    BY <1>2 DEF RedisTyped, RedisSettled
<1>4. RedisMoves
    BY <1>2, <1>3 DEF RedisMoves, Redis!Noted, RedisTyped
<1>5. CASE Redis!Reports("unchanged")
    BY <1>2, <1>3, <1>4, <1>5, RedisReports
<1>6. CASE Redis!Goes /\ i < 3
    <2>1. run' \in RedisRuns /\ run'.op = "apply" /\ run'.phase = "clear" /\ run'.i = i + 1 /\ outcome' = "running"
        BY <1>1, <1>2, <1>6, RedisGoes
    <2>2. RedisWorks(i + 1)'
        BY <1>2, <1>6, <2>1 DEF RedisWorks, RedisClearing
    <2> QED BY <1>3, <1>4, <2>1, <2>2, RedisInvAt DEF RedisTyped
<1>7. CASE Redis!Goes /\ i = 3
    BY <1>1, <1>2, <1>5, <1>7 DEF Redis!Goes
<1>8. Redis!Fails => Redis!Reports("unchanged")
    BY <1>2 DEF Redis!Fails
<1> QED BY <1>5, <1>6, <1>7, <1>8

(* The way back: a step of it that is done.                                  *)
LEMMA RedisGoesBack ==
    ASSUME RedisTyped, run.op = "apply", outcome = "running", run.phase = "undo", Redis!Goes,
           NEW i \in 1..15, run.i = i, s2' \subseteq Redis!RECOVERY_FILES,
           i <= 11 => Redis!Noted' /\ BackAt(i + 1)',
           i >= 12 => s1' = Redis!Original /\ s2' = FilesAt(i + 10)
    PROVE  RedisInv'
<1>1. run \in RedisRuns /\ Len(Redis!Program) = 15
    BY RedisCommands DEF RedisTyped
<1>2. CASE i < 15
    <2>1. run' \in RedisRuns /\ run'.op = "apply" /\ run'.phase = "undo" /\ run'.i = i + 1 /\ outcome' = "running"
        BY <1>1, <1>2, RedisGoes
    <2>2. RedisWorks(i + 1)'
        BY <1>2, <2>1 DEF RedisWorks, RedisBacking, RedisEnding
    <2> QED BY <2>1, <2>2, RedisInvAt DEF RedisTyped
<1>3. CASE i = 15
    <2>1. run' \in RedisRuns /\ run'.op = "idle" /\ outcome' = "undone"
        BY <1>1, <1>3, RedisGoes
    <2>2. s1' = Redis!Original /\ s2' = {}
        BY <1>3, RedisTables
    <2> QED BY <2>1, <2>2, RedisInvAt DEF RedisTyped, RedisSettled, Redis!RedisReportIsTrue
<1> QED BY <1>2, <1>3

(* A failed command of the way back ends it, or was a stop.                  *)
LEMMA RedisBackFails ==
    ASSUME Redis!Fails, run.phase = "undo"
    PROVE  Redis!Reports("retained") \/ (Redis!Verb = "halt" /\ Redis!Goes)
BY DEF Redis!Fails

(* A step in the middle of the way back, the check of the files first.        *)
LEMMA RedisBacks ==
    ASSUME RedisTyped, run.op = "apply", RedisWorks(run.i), RedisReading(run.i) \/ RedisBacking(run.i),
           Redis!Changes \/ Redis!Verifies \/ Redis!CommandFails
    PROVE  RedisInv' /\ RedisMoves
<1>1. PICK i \in 1..12 : run.i = i
    BY DEF RedisReading, RedisBacking
<1>2. /\ run.phase = "undo" /\ outcome = "running" /\ BackAt(i) /\ s2 \subseteq Redis!RECOVERY_FILES
      /\ i = 1 => Redis!Noted \/ s1 = Redis!Hardened
      /\ i >= 2 => Redis!Noted
    BY <1>1 DEF RedisTyped, RedisWorks, RedisReading, RedisBacking
<1>3. CASE UNCHANGED <<s1, s2>> /\ Redis!Reports("retained")
    <2>1. RedisSettled' /\ RedisMoves
        BY <1>2, <1>3 DEF RedisSettled, RedisMoves, Redis!Noted
    <2> QED BY <1>2, <1>3, <2>1, RedisReports
<1>4. CASE Redis!Verb \notin Redis!Checks /\ Redis!Acts /\ (Redis!Reports("retained") \/ Redis!Goes)
    <2>1. i \in 2..12
        BY <1>1, <1>2, <1>4, RedisCommands DEF Redis!Checks
    <2>2. BackAt(i + 1)' /\ s2' = s2
        BY <1>1, <1>2, <1>4, <2>1, RedisBack
    <2>3. RedisSettled' /\ RedisMoves
        BY <1>2, <2>1, <2>2 DEF RedisSettled, RedisMoves, Redis!Noted
    <2>4. CASE Redis!Reports("retained")
        BY <1>2, <2>2, <2>3, <2>4, RedisReports
    <2>5. CASE Redis!Goes
        <3>1. i >= 12 => s1' = Redis!Original /\ s2' = FilesAt(i + 10)
            BY <1>2, <2>1, <2>2, RedisTurns, RedisTables DEF Redis!Noted
        <3>2. Redis!Noted'
            BY <1>2, <2>1, <2>2 DEF Redis!Noted
        <3> QED BY <1>1, <1>2, <2>2, <2>3, <2>5, <3>1, <3>2, RedisGoesBack
    <2> QED BY <1>4, <2>4, <2>5
<1>5. CASE UNCHANGED <<s1, s2>> /\ Redis!Goes /\ i \in {1, 5, 7, 8, 10, 11} /\ (i = 1 => Redis!Noted)
    <2>1. BackAt(i + 1)' /\ Redis!Noted' /\ RedisMoves
        BY <1>2, <1>5 DEF BackAt, Redis!Noted, RedisMoves
    <2> QED BY <1>1, <1>2, <1>5, <2>1, RedisGoesBack
<1>6. CASE Redis!Changes
    BY <1>4, <1>6 DEF Redis!Changes
<1>7. CASE Redis!Verifies
    <2>1. i \in {1, 7, 8, 10, 11} /\ Redis!Verb # "halt"
        BY <1>1, <1>2, <1>7, RedisCommands DEF Redis!Verifies, Redis!Checks
    <2>2. i = 1 /\ Redis!Passes => Redis!Noted
        <3>1. i = 1 => Redis!Verb = "read"
            BY <1>1, <1>2, RedisCommands
        <3> QED BY <3>1 DEF Redis!Passes, Redis!Readable, Redis!Noted
    <2> QED BY <1>2, <1>3, <1>5, <1>7, <2>1, <2>2, RedisBackFails DEF Redis!Verifies
<1>8. CASE Redis!CommandFails
    <2>1. Redis!Reports("retained") \/ (Redis!Verb = "halt" /\ Redis!Goes)
        BY <1>2, <1>8, RedisBackFails DEF Redis!CommandFails
    <2>2. Redis!Verb = "halt" => i = 5
        BY <1>1, <1>2, RedisCommands DEF Redis!Checks
    <2> QED BY <1>3, <1>4, <1>5, <1>8, <2>1, <2>2 DEF Redis!CommandFails
<1> QED BY <1>6, <1>7, <1>8

(* The recovery files go when the host is as it was.                         *)
LEMMA RedisEnds ==
    ASSUME RedisTyped, run.op = "apply", RedisWorks(run.i), RedisEnding(run.i),
           Redis!Changes \/ Redis!Verifies \/ Redis!CommandFails
    PROVE  RedisInv' /\ RedisMoves
<1>1. PICK i \in 13..15 : run.i = i
    BY DEF RedisEnding
<1>2. /\ run.phase = "undo" /\ outcome = "running" /\ s1 = Redis!Original /\ s2 = FilesAt(i + 9)
      /\ Redis!Verb = "forget" /\ Redis!Verb \notin Redis!Checks
    BY <1>1, RedisCommands DEF RedisWorks, RedisEnding, Redis!Checks
<1>3. Redis!Acts => s1' = s1 /\ s2' = FilesAt(i + 10)
    <2>1. i = 13 \/ i = 14 \/ i = 15
        OBVIOUS
    <2>2. FilesAt(i + 10) = FilesAt(i + 9) \ {Redis!Command[2]}
        BY <1>1, <1>2, <2>1, RedisCommands DEF FilesAt, Redis!RECOVERY_FILES
    <2> QED BY <1>2, <2>2, RedisActs
<1>4. s1' = s1 /\ s2' \in {FilesAt(i + 9), FilesAt(i + 10)}
    BY <1>2, <1>3 DEF Redis!Changes, Redis!Verifies, Redis!CommandFails
<1>5. s2' \subseteq Redis!RECOVERY_FILES /\ RedisSettled'
    BY <1>2, <1>4, RedisTables DEF RedisSettled
<1>6. RedisMoves
    <2>1. FilesAt(i + 10) \subseteq FilesAt(i + 9)
        BY DEF FilesAt
    <2>2. Redis!Noted' => Redis!Noted
        BY <1>2, <1>4, <2>1, RedisTables DEF Redis!Noted
    <2> QED BY <1>4, <1>5, <2>2 DEF RedisMoves
<1>7. CASE Redis!Reports("retained")
    BY <1>5, <1>6, <1>7, RedisReports
<1>8. CASE Redis!Goes /\ Redis!Acts
    BY <1>1, <1>2, <1>3, <1>5, <1>6, <1>8, RedisGoesBack
<1> QED BY <1>2, <1>7, <1>8, RedisBackFails DEF Redis!Changes, Redis!Verifies, Redis!CommandFails

(* Whenever the tool is stopped, the host is whole or there is a note.        *)
LEMMA RedisAlwaysSettled ==
    ASSUME RedisWorks(run.i)
    PROVE  RedisSettled
<1>1. CASE RedisChanging(run.i)
    <2>1. run.i \in 1..7 \/ run.i \in 4..22 \/ run.i \in 19..25
        BY <1>1 DEF RedisChanging
    <2> QED BY <1>1, <2>1, RedisTables DEF RedisChanging, RedisSettled, Redis!Noted
<1>2. CASE RedisClearing(run.i) \/ RedisReading(run.i) \/ RedisBacking(run.i) \/ RedisEnding(run.i)
    BY <1>2 DEF RedisClearing, RedisReading, RedisBacking, RedisEnding, RedisSettled
<1> QED BY <1>1, <1>2 DEF RedisWorks

LEMMA RedisStep ==
    ASSUME RedisInv, [Redis!Next]_(Redis!vars)
    PROVE  RedisInv' /\ RedisMoves
<1>1. RedisTyped /\ run.op \in {"idle", "apply"}
    BY DEF RedisInv, RedisTyped, RedisRuns
<1>2. CASE Redis!Applies
    <2>1. run.op = "idle" /\ s2 = {} /\ s1.acl = "none" /\ UNCHANGED <<s1, s2>>
        BY <1>1, <1>2 DEF Redis!Applies, Redis!Busy, Redis!Admits
    <2>2. s1 = Redis!Original
        BY <2>1, HostEnds, HostChanges DEF RedisInv, RedisSettled, Redis!Noted, Redis!RECOVERY_FILES
    <2>3. run' \in RedisRuns /\ run'.op = "apply" /\ run'.phase = "main" /\ run'.i = 1 /\ outcome' = "running"
        BY <1>2 DEF Redis!Applies, Redis!Idle, RedisRuns
    <2>4. RedisWorks(1)'
        BY <2>1, <2>2, <2>3, RedisTables DEF RedisWorks, RedisChanging
    <2> QED BY <2>1, <2>3, <2>4, RedisInvAt DEF RedisTyped, RedisMoves, Redis!Noted
<1>3. CASE Redis!Disturbed \/ UNCHANGED Redis!vars
    <2>1. UNCHANGED <<s1, s2, run, outcome>>
        BY <1>3 DEF Redis!Disturbed, Redis!vars
    <2>2. BackAt(1)' = BackAt(1) /\ \A i \in 2..12 : BackAt(i)' = BackAt(i)
        BY <2>1 DEF BackAt
    <2> QED BY <2>1, <2>2 DEF RedisInv, RedisTyped, RedisSettled, RedisWorks, RedisChanging, RedisClearing, RedisReading,
            RedisBacking, RedisEnding, Redis!RedisReportIsTrue, Redis!Noted, RedisMoves
<1>4. ASSUME Redis!Changes \/ Redis!Verifies \/ Redis!CommandFails \/ Redis!Killed
      PROVE  RedisInv' /\ RedisMoves
    <2>1. run.op = "apply" /\ RedisWorks(run.i)
        BY <1>1, <1>4 DEF Redis!Changes, Redis!Verifies, Redis!CommandFails, Redis!Killed, Redis!Busy, RedisInv
    <2>2. CASE Redis!Killed
        <3>1. UNCHANGED <<s1, s2>> /\ Redis!Reports("cut")
            BY <2>2 DEF Redis!Killed
        <3>2. RedisSettled' /\ RedisMoves
            BY <2>1, <3>1, RedisAlwaysSettled DEF RedisSettled, RedisMoves, Redis!Noted
        <3> QED BY <1>1, <2>1, <3>1, <3>2, RedisReports DEF RedisTyped
    <2>3. CASE RedisChanging(run.i) /\ ~Redis!Killed
        <3>1. /\ run.phase = "main" /\ run.i \in 1..24 /\ s1 = RedisAt(run.i) /\ s2 = FilesAt(run.i)
            BY <2>3 DEF RedisChanging
        <3>2. Redis!Verb \notin Redis!Checks /\ Redis!Acts => s1' = RedisAt(run.i + 1) /\ s2' = FilesAt(run.i + 1)
            BY <3>1, RedisMain
        <3>3. Redis!Verb \in Redis!Checks => run.i \in {5, 6, 10, 13, 16, 17, 19, 20, 21}
            BY <3>1, RedisCommands DEF Redis!Checks
        <3>4. CASE Redis!Goes /\ ~Redis!Fails
            <4>1. s1' = RedisAt(run.i + 1) /\ s2' = FilesAt(run.i + 1)
                BY <1>4, <2>3, <3>1, <3>2, <3>3, <3>4, RedisTables DEF Redis!Changes, Redis!Verifies, Redis!CommandFails
            <4> QED BY <1>1, <2>1, <2>3, <3>4, <4>1, RedisChanges
        <3>5. CASE Redis!Fails
            <4>1. \E j \in {run.i, run.i + 1} : s1' = RedisAt(j) /\ s2' = FilesAt(j)
                BY <1>4, <2>3, <3>1, <3>2 DEF Redis!Changes, Redis!Verifies, Redis!CommandFails
            <4> QED BY <1>1, <2>1, <2>3, <3>5, <4>1, RedisChangeFails
        <3> QED BY <1>4, <2>3, <3>4, <3>5 DEF Redis!Changes, Redis!Verifies, Redis!CommandFails
    <2>4. CASE RedisClearing(run.i) /\ ~Redis!Killed
        <3>1. Redis!Verb = "forget"
            BY <2>4, RedisCommands DEF RedisClearing
        <3>2. s1' = s1 /\ s2' \subseteq s2 /\ (Redis!Goes \/ Redis!Fails)
            BY <1>4, <2>4, <3>1, RedisActs DEF Redis!Changes, Redis!Verifies, Redis!CommandFails
        <3> QED BY <1>1, <2>1, <2>4, <3>2, RedisClears
    <2>5. CASE (RedisReading(run.i) \/ RedisBacking(run.i)) /\ ~Redis!Killed
        BY <1>1, <1>4, <2>1, <2>5, RedisBacks
    <2>6. CASE RedisEnding(run.i) /\ ~Redis!Killed
        BY <1>1, <1>4, <2>1, <2>6, RedisEnds
    <2> QED BY <2>1, <2>2, <2>3, <2>4, <2>5, <2>6 DEF RedisWorks
<1> QED BY <1>2, <1>3, <1>4 DEF Redis!Next

LEMMA RedisInit ==
    ASSUME Init, tool = "redis"
    PROVE  RedisInv
<1>1. Redis!Init
    BY DEF Init
<1> QED BY <1>1 DEF Redis!Init, Redis!Idle, RedisInv, RedisTyped, RedisRuns, RedisSettled, Redis!RedisReportIsTrue

-----------------------------------------------------------------------------
(* The hardening of rpcbind. *)

RpcUnits == [Rpcbind!TARGET_UNITS -> Rpcbind!UnitStates]
RpcRuns ==
    [op : {"idle", "apply", "restore"}, phase : {"main", "undo"}, i : Nat,
     previous : Rpcbind!Notes \cup {None}]

RpcTyped ==
    /\ s1 \in RpcUnits /\ s5 \in RpcUnits /\ s2 \in BOOLEAN
    /\ s4 \in Rpcbind!Notes \cup {None} /\ run \in RpcRuns

(* restore_recorded_state runs, to undo an apply or as a restore. *)
RpcGoingBack ==
    \/ run.op = "apply" /\ run.phase = "undo"
    \/ run.op = "restore" /\ run.phase = "main"

(* What each command is. *)
LEMMA RpcCommands ==
    /\ run.op = "apply" /\ run.phase = "main" =>
          /\ Len(Rpcbind!Program) = 5
          /\ run.i = 1 => Rpcbind!Verb = "note"
          /\ run.i = 2 => Rpcbind!Verb = "disable"
          /\ run.i = 3 => Rpcbind!Verb = "stop" /\ Rpcbind!Command[2] = "socket"
          /\ run.i = 4 => Rpcbind!Verb = "stop" /\ Rpcbind!Command[2] = "service"
          /\ run.i = 5 => Rpcbind!Verb = "hardened"
    /\ RpcGoingBack =>
          /\ Len(Rpcbind!Program) = 9
          /\ run.i \in {1, 2} => Rpcbind!Verb = "reenable"
          /\ run.i \in {3, 4} => Rpcbind!Verb = "restart"
          /\ run.i \in {5, 6} => Rpcbind!Verb = "unstart"
          /\ run.i \in {1, 3, 5} => Rpcbind!Command[2] = "service"
          /\ run.i \in {2, 4, 6} => Rpcbind!Command[2] = "socket"
          /\ run.i = 7 => Rpcbind!Verb = "reverted"
          /\ run.i = 8 => Rpcbind!Verb = "portlike"
          /\ run.i = 9 => Rpcbind!Verb = "forget"
    /\ run.op = "restore" /\ run.phase = "undo" =>
          /\ Len(Rpcbind!Program) = 4
          /\ run.i = 1 => Rpcbind!Verb = "disable"
          /\ run.i = 2 => Rpcbind!Verb = "stop" /\ Rpcbind!Command[2] = "socket"
          /\ run.i = 3 => Rpcbind!Verb = "stop" /\ Rpcbind!Command[2] = "service"
          /\ run.i = 4 => Rpcbind!Verb = "hardened"
<1>1. CASE run.op = "apply" /\ run.phase = "main"
    <2>1. Rpcbind!Program = Rpcbind!Applying
        BY <1>1 DEF Rpcbind!Program
    <2> QED BY <1>1, <2>1 DEF Rpcbind!Applying, Rpcbind!Verb, Rpcbind!Command, RpcGoingBack
<1>2. CASE RpcGoingBack
    <2>1. Rpcbind!Program = Rpcbind!Recovering
        BY <1>2 DEF Rpcbind!Program, RpcGoingBack
    <2> QED BY <1>2, <2>1 DEF Rpcbind!Recovering, Rpcbind!Verb, Rpcbind!Command, RpcGoingBack
<1>3. CASE run.op = "restore" /\ run.phase = "undo"
    <2>1. Rpcbind!Program = Rpcbind!Disabling
        BY <1>3 DEF Rpcbind!Program
    <2> QED BY <1>3, <2>1 DEF Rpcbind!Disabling, Rpcbind!Verb, Rpcbind!Command, RpcGoingBack
<1> QED BY <1>1, <1>2, <1>3 DEF RpcGoingBack

(* The commands keep the units' shape.                                       *)
LEMMA RpcUnitsKept ==
    ASSUME RpcTyped, run.previous \in Rpcbind!Notes, Rpcbind!Acts,
           Rpcbind!Verb \in {"stop", "reenable", "restart", "unstart"} => Rpcbind!Command[2] \in Rpcbind!TARGET_UNITS
    PROVE  s1' \in RpcUnits
<1>1. run.previous.units \in RpcUnits
    BY DEF Rpcbind!Notes, RpcUnits
<1>2. ASSUME NEW us \in RpcUnits, NEW u \in Rpcbind!TARGET_UNITS, NEW x \in Rpcbind!TARGET_UNITS
      PROVE  /\ us[x] \in Rpcbind!UnitStates /\ us[x].enabled \in {"enabled", "enabled-runtime", "disabled", "static"}
             /\ [us[x] EXCEPT !.active = TRUE] \in Rpcbind!UnitStates
             /\ [us[x] EXCEPT !.active = FALSE] \in Rpcbind!UnitStates
             /\ \A e \in {"enabled", "enabled-runtime", "disabled", "static"} :
                   [us[x] EXCEPT !.enabled = e] \in Rpcbind!UnitStates
    BY DEF RpcUnits, Rpcbind!UnitStates
<1>3. \A u \in Rpcbind!TARGET_UNITS : Rpcbind!Start(s1, u) \in RpcUnits
    BY <1>2 DEF RpcTyped, RpcUnits, Rpcbind!Start
<1>4. \A u \in Rpcbind!TARGET_UNITS : Rpcbind!Stop(s1, u) \in RpcUnits
    BY <1>2 DEF RpcTyped, RpcUnits, Rpcbind!Stop
<1>5. \A u \in Rpcbind!TARGET_UNITS, e \in {"enabled", "enabled-runtime", "disabled", "static"} :
        Rpcbind!Enable(s1, u, e) \in RpcUnits
    BY <1>2 DEF RpcTyped, RpcUnits, Rpcbind!Enable
<1>6. \A u \in Rpcbind!TARGET_UNITS : Rpcbind!Reenable(u) \in RpcUnits
    BY <1>1, <1>2, <1>5 DEF RpcTyped, Rpcbind!Reenable
<1>7. [u \in Rpcbind!TARGET_UNITS |->
          [s1[u] EXCEPT !.enabled = IF Rpcbind!Enabled(s1[u].enabled) THEN "disabled" ELSE s1[u].enabled]] \in RpcUnits
    BY <1>2 DEF RpcTyped, RpcUnits
<1>8. CASE Rpcbind!Verb = "disable"
    BY <1>7, <1>8 DEF Rpcbind!Acts
<1>9. CASE Rpcbind!Verb = "stop"
    BY <1>4, <1>9 DEF Rpcbind!Acts
<1>10. CASE Rpcbind!Verb = "reenable"
    BY <1>6, <1>10 DEF Rpcbind!Acts
<1>11. CASE Rpcbind!Verb = "restart"
    BY <1>3, <1>11 DEF Rpcbind!Acts, RpcTyped
<1>12. CASE Rpcbind!Verb = "unstart"
    BY <1>4, <1>12 DEF Rpcbind!Acts, RpcTyped
<1>13. CASE Rpcbind!Verb \notin {"disable", "stop", "reenable", "restart", "unstart"}
    BY <1>13 DEF Rpcbind!Acts, RpcTyped
<1> QED BY <1>8, <1>9, <1>10, <1>11, <1>12, <1>13

RpcOff == \A u \in Rpcbind!TARGET_UNITS : Rpcbind!IsDisabled(s1[u].enabled) /\ ~s1[u].active

(* The record is of the units when the change began, and without one they are *)
(* as they were then.                                                        *)
RpcNoted ==
    /\ s4 # None => s4.units = s5
    /\ s4 = None => Rpcbind!AsBefore

RpcKnows == run.previous \in Rpcbind!Notes /\ run.previous.units = s5

RpcWorks ==
    \/ run.op = "apply" /\ run.phase = "main" /\ run.i \in 1..5 /\ (run.i = 1 <=> s4 = None)
    \/ /\ RpcGoingBack
       /\ run.i \in 1..9 /\ s4 # None /\ (run.i >= 8 => Rpcbind!AsBefore)
    \/ run.op = "restore" /\ run.phase = "undo" /\ run.i \in 1..4 /\ s4 # None

RpcReported ==
    /\ outcome = [op |-> "apply", end |-> "done"] => RpcOff /\ s4 # None
    /\ outcome = [op |-> "restore", end |-> "undone"] => RpcOff /\ s4 # None
    /\ outcome = [op |-> "apply", end |-> "undone"] => s4 = None
    /\ outcome = [op |-> "restore", end |-> "done"] => s4 = None

RpcInv ==
    /\ RpcTyped /\ RpcNoted
    /\ run.op = "idle" => RpcReported
    /\ run.op # "idle" => RpcKnows /\ RpcWorks

(* Where the tool goes. *)
LEMMA RpcReports ==
    ASSUME RpcTyped, NEW end, Rpcbind!Reports(end)
    PROVE  run' \in RpcRuns /\ run'.op = "idle" /\ outcome' = [op |-> run.op, end |-> end]
BY DEF RpcRuns, Rpcbind!Reports, Rpcbind!Idle

LEMMA RpcGoes ==
    ASSUME RpcTyped, NEW n \in Nat, Len(Rpcbind!Program) = n, Rpcbind!Goes
    PROVE  \/ /\ run.i < n /\ run' \in RpcRuns /\ run'.op = run.op /\ run'.phase = run.phase
              /\ run'.i = run.i + 1 /\ run'.previous = run.previous
           \/ run.i >= n /\ Rpcbind!Reports(IF run.phase = "main" THEN "done" ELSE "undone")
<1>1. run.i \in Nat
    BY DEF RpcTyped, RpcRuns
<1>2. CASE run.i < n
    BY <1>1, <1>2 DEF RpcTyped, RpcRuns, Rpcbind!Goes
<1>3. CASE run.i >= n
    BY <1>1, <1>3 DEF Rpcbind!Goes
<1> QED BY <1>1, <1>2, <1>3

LEMMA RpcGoesTyped ==
    ASSUME RpcTyped, Rpcbind!Goes
    PROVE  run' \in RpcRuns
BY RpcReports DEF RpcTyped, RpcRuns, Rpcbind!Goes

LEMMA RpcFails ==
    ASSUME RpcTyped, Rpcbind!Fails
    PROVE  \/ Rpcbind!Reports("lost")
           \/ /\ ~Rpcbind!OutsideTry /\ run.phase = "main" /\ run' \in RpcRuns /\ run'.op = run.op
              /\ run'.phase = "undo" /\ run'.i = 1 /\ run'.previous = run.previous
<1>1. run \in RpcRuns
    BY DEF RpcTyped
<1>2. CASE run.phase = "undo" \/ Rpcbind!OutsideTry
    BY <1>2 DEF Rpcbind!Fails
<1>3. CASE ~(run.phase = "undo" \/ Rpcbind!OutsideTry)
    <2>1. run' = [op |-> run.op, phase |-> "undo", i |-> 1, previous |-> run.previous]
        BY <1>1, <1>3 DEF Rpcbind!Fails, RpcRuns
    <2>2. run.phase = "main"
        BY <1>1, <1>3 DEF RpcRuns
    <2> QED BY <1>1, <1>3, <2>1, <2>2 DEF RpcRuns
<1> QED BY <1>2, <1>3

(* What a command does to the record.                                        *)
LEMMA RpcActs ==
    ASSUME Rpcbind!Acts
    PROVE  /\ Rpcbind!Verb = "note" =>
                 s1' = s1 /\ s4' = [units |-> run.previous.units, bound |-> run.previous.bound]
           /\ Rpcbind!Verb = "forget" => s1' = s1 /\ s4' = None
           /\ Rpcbind!Verb \notin {"note", "forget"} => s4' = s4
BY DEF Rpcbind!Acts, Rpcbind!Noted

(* A report that claims nothing. *)
LEMMA RpcLost ==
    ASSUME RpcTyped, RpcTyped', RpcNoted', NEW end \in {"lost", "cut"}, Rpcbind!Reports(end)
    PROVE  RpcInv'
BY RpcReports DEF RpcInv, RpcReported

(* A command in the middle of a program leaves a record; the note, at its      *)
(* beginning, makes it, and the end of the way back gives it up.              *)
LEMMA RpcEffects ==
    ASSUME RpcInv, run.op # "idle", Rpcbind!Acts, Rpcbind!Verb \notin Rpcbind!Checks, s2' = s2, s5' = s5
    PROVE  /\ s1' \in RpcUnits /\ s4' \in Rpcbind!Notes \cup {None} /\ RpcNoted'
           /\ Rpcbind!Verb = "note" <=> (run.op = "apply" /\ run.phase = "main" /\ run.i = 1)
           /\ Rpcbind!Verb = "note" => s4' # None /\ s1' = s1
           /\ Rpcbind!Verb = "forget" =>
                 /\ RpcGoingBack
                 /\ run.i = 9 /\ s4' = None
           /\ Rpcbind!Verb \notin {"note", "forget"} => s4' = s4 /\ s4 # None /\ run.i \notin {8, 9}
<1>1. RpcTyped /\ RpcNoted /\ RpcKnows /\ RpcWorks
    BY DEF RpcInv
<1>2. /\ Rpcbind!Verb = "note" <=> (run.op = "apply" /\ run.phase = "main" /\ run.i = 1)
      /\ Rpcbind!Verb = "forget" =>
            /\ RpcGoingBack
            /\ run.i = 9
      /\ Rpcbind!Verb \notin {"note", "forget"} => s4 # None /\ run.i \notin {8, 9}
      /\ Rpcbind!Verb \in {"stop", "reenable", "restart", "unstart"} => Rpcbind!Command[2] \in {"service", "socket"}
    BY <1>1, RpcCommands DEF RpcWorks, RpcGoingBack, Rpcbind!Checks
<1>3. s1' \in RpcUnits
    BY <1>1, <1>2, RpcUnitsKept DEF RpcKnows, Rpcbind!TARGET_UNITS
<1>4. CASE Rpcbind!Verb = "note"
    <2>1. s1' = s1 /\ s4' \in Rpcbind!Notes /\ s4'.units = s5
        BY <1>1, <1>4, RpcActs DEF RpcKnows, Rpcbind!Notes
    <2>2. s4' # None
        BY <2>1, NoneAssumption
    <2> QED BY <1>2, <1>3, <1>4, <2>1, <2>2 DEF RpcNoted
<1>5. CASE Rpcbind!Verb = "forget"
    <2>1. s1' = s1 /\ s4' = None
        BY <1>5, RpcActs
    <2>2. Rpcbind!AsBefore
        BY <1>1, <1>2, <1>5 DEF RpcWorks, RpcGoingBack
    <2>3. Rpcbind!AsBefore'
        BY <2>1, <2>2 DEF Rpcbind!AsBefore
    <2> QED BY <1>2, <1>3, <1>5, <2>1, <2>3 DEF RpcNoted
<1>6. CASE Rpcbind!Verb \notin {"note", "forget"}
    <2>1. s4' = s4 /\ s4 # None
        BY <1>2, <1>6, RpcActs
    <2> QED BY <1>1, <1>2, <1>3, <1>6, <2>1 DEF RpcNoted, RpcTyped
<1> QED BY <1>4, <1>5, <1>6

(* A program that goes on, or ends with a report.                            *)
LEMMA RpcGoesOn ==
    ASSUME RpcInv, run.op # "idle", Rpcbind!Goes, RpcTyped', RpcNoted', s5' = s5,
           run.op = "apply" /\ run.phase = "main" =>
               s4' # None /\ (run.i = 5 => RpcOff'),
           RpcGoingBack =>
               /\ run.i <= 8 => s4' # None
               /\ run.i \in {7, 8} => Rpcbind!AsBefore'
               /\ run.i = 9 => s4' = None,
           run.op = "restore" /\ run.phase = "undo" =>
               s4' # None /\ (run.i = 4 => RpcOff')
    PROVE  RpcInv'
<1>1. RpcTyped /\ RpcKnows /\ RpcWorks
    BY DEF RpcInv
<1>2. CASE run.op = "apply" /\ run.phase = "main"
    <2>1. Len(Rpcbind!Program) = 5 /\ run.i \in 1..5
        BY <1>1, <1>2, RpcCommands DEF RpcWorks, RpcGoingBack
    <2>2. CASE run.i < 5
        <3>1. run'.op = "apply" /\ run'.phase = "main" /\ run'.i = run.i + 1 /\ run'.previous = run.previous
            BY <1>1, <1>2, <2>1, <2>2, RpcGoes
        <3> QED BY <1>1, <1>2, <2>1, <2>2, <3>1 DEF RpcInv, RpcKnows, RpcWorks, RpcGoingBack
    <2>3. CASE run.i = 5
        <3>1. Rpcbind!Reports("done")
            BY <1>1, <1>2, <2>1, <2>3, RpcGoes
        <3>2. run'.op = "idle" /\ outcome' = [op |-> "apply", end |-> "done"]
            BY <1>1, <1>2, <3>1, RpcReports
        <3> QED BY <1>2, <2>3, <3>2 DEF RpcInv, RpcReported
    <2> QED BY <2>1, <2>2, <2>3
<1>3. CASE RpcGoingBack
    <2>1. Len(Rpcbind!Program) = 9 /\ run.i \in 1..9
        BY <1>1, <1>3, RpcCommands DEF RpcWorks, RpcGoingBack
    <2>2. CASE run.i < 9
        <3>1. run'.op = run.op /\ run'.phase = run.phase /\ run'.i = run.i + 1 /\ run'.previous = run.previous
            BY <1>1, <1>3, <2>1, <2>2, RpcGoes
        <3>2. run'.i \in 1..9 /\ s4' # None /\ (run'.i >= 8 => Rpcbind!AsBefore')
            BY <1>3, <2>1, <2>2, <3>1
        <3> QED BY <1>1, <1>3, <3>1, <3>2 DEF RpcInv, RpcKnows, RpcWorks, RpcGoingBack
    <2>3. CASE run.i = 9
        <3>1. Rpcbind!Reports(IF run.phase = "main" THEN "done" ELSE "undone")
            BY <1>1, <2>1, <2>3, RpcGoes
        <3>2. run'.op = "idle" /\ outcome' = [op |-> run.op, end |-> IF run.phase = "main" THEN "done" ELSE "undone"]
            BY <1>1, <3>1, RpcReports
        <3> QED BY <1>3, <2>3, <3>2 DEF RpcInv, RpcReported, RpcGoingBack
    <2> QED BY <2>1, <2>2, <2>3
<1>4. CASE run.op = "restore" /\ run.phase = "undo"
    <2>1. Len(Rpcbind!Program) = 4 /\ run.i \in 1..4
        BY <1>1, <1>4, RpcCommands DEF RpcWorks, RpcGoingBack
    <2>2. CASE run.i < 4
        <3>1. run'.op = "restore" /\ run'.phase = "undo" /\ run'.i = run.i + 1 /\ run'.previous = run.previous
            BY <1>1, <1>4, <2>1, <2>2, RpcGoes
        <3> QED BY <1>1, <1>4, <2>1, <2>2, <3>1 DEF RpcInv, RpcKnows, RpcWorks, RpcGoingBack
    <2>3. CASE run.i = 4
        <3>1. Rpcbind!Reports("undone")
            BY <1>1, <1>4, <2>1, <2>3, RpcGoes
        <3>2. run'.op = "idle" /\ outcome' = [op |-> "restore", end |-> "undone"]
            BY <1>1, <1>4, <3>1, RpcReports
        <3> QED BY <1>4, <2>3, <3>2 DEF RpcInv, RpcReported
    <2> QED BY <2>1, <2>2, <2>3
<1> QED BY <1>1, <1>2, <1>3, <1>4 DEF RpcWorks, RpcGoingBack

(* A command that fails leads back, or ends the run.                         *)
LEMMA RpcFailsBack ==
    ASSUME RpcInv, run.op # "idle", Rpcbind!Fails, RpcTyped', RpcNoted', s5' = s5,
           Rpcbind!Verb \notin {"note", "forget"} => s4' # None
    PROVE  RpcInv'
<1>1. RpcTyped /\ RpcKnows /\ RpcWorks
    BY DEF RpcInv
<1>2. CASE Rpcbind!Reports("lost")
    BY <1>1, <1>2, RpcLost
<1>3. CASE /\ ~Rpcbind!OutsideTry /\ run.phase = "main" /\ run' \in RpcRuns /\ run'.op = run.op
           /\ run'.phase = "undo" /\ run'.i = 1 /\ run'.previous = run.previous
    <2>1. s4' # None
        <3>1. Rpcbind!Verb \notin {"note", "forget"}
            BY <1>1, <1>3, RpcCommands DEF RpcWorks, RpcGoingBack, Rpcbind!OutsideTry
        <3> QED BY <3>1
    <2>2. run.op \in {"apply", "restore"}
        BY <1>1 DEF RpcWorks, RpcGoingBack
    <2>3. run'.previous \in Rpcbind!Notes /\ run'.previous.units = s5'
        BY <1>1, <1>3 DEF RpcKnows
    <2>4. RpcWorks'
        <3> DEFINE r == run'
        <3>1. CASE run.op = "apply"
            <4>1. r.op = "apply" /\ r.phase = "undo" /\ r.i \in 1..9 /\ ~(r.i >= 8) /\ s4' # None
                BY <1>3, <2>1, <3>1
            <4> QED BY <4>1 DEF RpcWorks, RpcGoingBack
        <3>2. CASE run.op = "restore"
            BY <1>3, <2>1, <3>2 DEF RpcWorks, RpcGoingBack
        <3> QED BY <2>2, <3>1, <3>2
    <2> QED BY <1>3, <2>2, <2>3, <2>4 DEF RpcInv, RpcKnows
<1> QED BY <1>1, <1>2, <1>3, RpcFails

(* The service is activated: nothing the invariant speaks of is undone.       *)
LEMMA RpcConnects ==
    ASSUME RpcInv, Rpcbind!Connects
    PROVE  RpcInv'
<1>1. RpcTyped /\ s1["socket"].active /\ UNCHANGED <<s2, s4, s5, run, outcome>>
    BY DEF RpcInv, Rpcbind!Connects
<1>2. /\ s1' \in RpcUnits /\ s1'["socket"] = s1["socket"]
      /\ s1'["service"].enabled = s1["service"].enabled /\ s1'["service"].active
    BY <1>1 DEF Rpcbind!Connects, RpcTyped, RpcUnits, Rpcbind!TARGET_UNITS, Rpcbind!UnitStates
<1>3. Rpcbind!AsBefore => Rpcbind!AsBefore'
    BY <1>1, <1>2 DEF Rpcbind!AsBefore, Rpcbind!TARGET_UNITS
<1>4. ~RpcOff
    BY <1>1 DEF RpcOff, Rpcbind!TARGET_UNITS
<1> QED BY <1>1, <1>2, <1>3, <1>4 DEF RpcInv, RpcTyped, RpcNoted, RpcReported, RpcKnows, RpcWorks, RpcGoingBack

(* After a reboot the host is what a change starts from.                     *)
LEMMA RpcReboots ==
    ASSUME RpcInv, Rpcbind!Reboots
    PROVE  RpcInv'
<1>1. RpcTyped /\ Rpcbind!Reports("cut") /\ s4' = None /\ s5' = s1' /\ s2' = s2
    BY DEF RpcInv, Rpcbind!Reboots
<1>2. s1' \in RpcUnits
    BY <1>1 DEF Rpcbind!Reboots, RpcTyped, RpcUnits, Rpcbind!TARGET_UNITS, Rpcbind!UnitStates
<1>3. run' \in RpcRuns
    BY <1>1, RpcReports
<1>4. RpcTyped' /\ RpcNoted'
    BY <1>1, <1>2, <1>3 DEF RpcTyped, RpcNoted, Rpcbind!AsBefore
<1> QED BY <1>1, <1>4, RpcLost

LEMMA RpcStep ==
    ASSUME RpcInv, [Rpcbind!Next]_(Rpcbind!vars)
    PROVE  RpcInv' /\ (s4 = None /\ s4' # None => UNCHANGED <<s1, s5>>)
<1>1. RpcTyped /\ RpcNoted /\ run \in RpcRuns
    BY DEF RpcInv, RpcTyped
<1>2. CASE Rpcbind!Applies
    <2>1. /\ s4 = None /\ UNCHANGED <<s1, s2, s4>> /\ s5' = s1
          /\ run' = [Rpcbind!Idle EXCEPT !.op = "apply", !.previous = [units |-> s1, bound |-> Rpcbind!PortBound]]
        BY <1>2 DEF Rpcbind!Applies
    <2>2. Rpcbind!PortBound \in BOOLEAN
        BY <1>1 DEF Rpcbind!PortBound, RpcTyped, RpcUnits, Rpcbind!UnitStates, Rpcbind!TARGET_UNITS
    <2>3. [units |-> s1, bound |-> Rpcbind!PortBound] \in Rpcbind!Notes
        BY <1>1, <2>2 DEF RpcTyped, RpcUnits, Rpcbind!Notes
    <2>4. run' = [op |-> "apply", phase |-> "main", i |-> 1, previous |-> [units |-> s1, bound |-> Rpcbind!PortBound]]
        BY <2>1 DEF Rpcbind!Idle
    <2>5. /\ run' \in RpcRuns /\ run'.op = "apply" /\ run'.phase = "main" /\ run'.i = 1
          /\ run'.previous \in Rpcbind!Notes /\ run'.previous.units = s1
        BY <2>3, <2>4 DEF RpcRuns
    <2>6. Rpcbind!AsBefore'
        BY <2>1 DEF Rpcbind!AsBefore
    <2> QED BY <1>1, <2>1, <2>5, <2>6 DEF RpcInv, RpcTyped, RpcNoted, RpcKnows, RpcWorks, RpcGoingBack
<1>3. CASE Rpcbind!Restores
    <2>1. s4 # None /\ UNCHANGED <<s1, s2, s4, s5>> /\ run' = [Rpcbind!Idle EXCEPT !.op = "restore", !.previous = s4]
        BY <1>3 DEF Rpcbind!Restores, Rpcbind!AdmitsRestore
    <2>2. run' = [op |-> "restore", phase |-> "main", i |-> 1, previous |-> s4] /\ s4 \in Rpcbind!Notes
        BY <1>1, <2>1 DEF Rpcbind!Idle, RpcTyped
    <2>3. /\ run' \in RpcRuns /\ run'.op = "restore" /\ run'.phase = "main" /\ run'.i = 1
          /\ run'.previous = s4
        BY <2>2 DEF RpcRuns
    <2>5. s4.units = s5
        BY <1>1, <2>1 DEF RpcNoted
    <2>4. RpcNoted'
        BY <1>1, <2>1 DEF RpcNoted, Rpcbind!AsBefore
    <2> QED BY <1>1, <2>1, <2>2, <2>3, <2>4, <2>5 DEF RpcInv, RpcTyped, RpcKnows, RpcWorks, RpcGoingBack
<1>4. CASE Rpcbind!Changes
    <2>1. run.op # "idle" /\ Rpcbind!Verb \notin Rpcbind!Checks /\ Rpcbind!Acts /\ Rpcbind!Goes /\ s2' = s2 /\ s5' = s5
        BY <1>4 DEF Rpcbind!Changes, Rpcbind!Busy
    <2>2. run' \in RpcRuns
        BY <1>1, <2>1, RpcGoesTyped
    <2>3. RpcTyped' /\ RpcNoted'
        BY <1>1, <2>1, <2>2, RpcEffects DEF RpcTyped
    <2>4. RpcWorks
        BY <2>1 DEF RpcInv
    <2>5. /\ Rpcbind!Verb = "note" <=> (run.op = "apply" /\ run.phase = "main" /\ run.i = 1)
          /\ Rpcbind!Verb = "note" => s4' # None /\ s1' = s1
          /\ Rpcbind!Verb = "forget" =>
                /\ RpcGoingBack
                /\ run.i = 9 /\ s4' = None
          /\ Rpcbind!Verb \notin {"note", "forget"} => s4' = s4 /\ s4 # None /\ run.i \notin {8, 9}
        BY <2>1, RpcEffects
    <2>6. /\ run.op = "apply" /\ run.phase = "main" => run.i # 5
          /\ RpcGoingBack => run.i \notin {7, 8}
          /\ run.op = "restore" /\ run.phase = "undo" => run.i # 4
        BY <2>1, RpcCommands DEF Rpcbind!Checks
    <2>7. RpcInv'
        BY <2>1, <2>3, <2>4, <2>5, <2>6, RpcGoesOn DEF RpcWorks, RpcGoingBack
    <2> QED BY <2>1, <2>5, <2>7
<1>5. CASE Rpcbind!Verifies
    <2>1. run.op # "idle" /\ Rpcbind!Verb \in Rpcbind!Checks /\ UNCHANGED <<s1, s2, s4, s5>>
        BY <1>5 DEF Rpcbind!Verifies, Rpcbind!Busy
    <2>2. RpcKnows /\ RpcWorks
        BY <2>1 DEF RpcInv
    <2>3. /\ run.op = "apply" /\ run.phase = "main" => run.i = 5 /\ Rpcbind!Verb = "hardened"
          /\ RpcGoingBack =>
                \/ run.i = 7 /\ Rpcbind!Verb = "reverted"
                \/ run.i = 8 /\ Rpcbind!Verb = "portlike"
          /\ run.op = "restore" /\ run.phase = "undo" => run.i = 4 /\ Rpcbind!Verb = "hardened"
        BY <2>1, <2>2, RpcCommands DEF RpcWorks, RpcGoingBack, Rpcbind!Checks
    <2>4. s4 # None
        BY <2>2, <2>3 DEF RpcWorks, RpcGoingBack
    <2>5. RpcNoted'
        BY <1>1, <2>1 DEF RpcNoted, Rpcbind!AsBefore
    <2>6. CASE Rpcbind!Passes /\ Rpcbind!Goes
        <3>1. RpcTyped'
            BY <1>1, <2>1, <2>6, RpcGoesTyped DEF RpcTyped
        <3>2. Rpcbind!Verb = "hardened" => RpcOff'
            BY <2>1, <2>6 DEF Rpcbind!Passes, Rpcbind!IsHardened, RpcOff
        <3>3. Rpcbind!Verb = "reverted" => Rpcbind!AsBefore'
            BY <2>1, <2>2, <2>6 DEF Rpcbind!Passes, RpcKnows, Rpcbind!AsBefore
        <3>4. Rpcbind!Verb = "portlike" => Rpcbind!AsBefore'
            BY <2>1, <2>2, <2>3 DEF RpcWorks, RpcGoingBack, Rpcbind!AsBefore
        <3> QED BY <2>1, <2>3, <2>4, <2>5, <2>6, <3>1, <3>2, <3>3, <3>4, RpcGoesOn
    <2>7. CASE Rpcbind!Fails
        <3>1. run' \in RpcRuns
            BY <1>1, <2>7, RpcFails, RpcReports
        <3>2. RpcTyped'
            BY <1>1, <2>1, <3>1 DEF RpcTyped
        <3> QED BY <2>1, <2>4, <2>5, <2>7, <3>2, RpcFailsBack
    <2> QED BY <1>5, <2>6, <2>7 DEF Rpcbind!Verifies
<1>6. CASE Rpcbind!CommandFails
    <2>1. run.op # "idle" /\ Rpcbind!Fails /\ s2' = s2 /\ s5' = s5
        BY <1>6 DEF Rpcbind!CommandFails, Rpcbind!Busy
    <2>2. run' \in RpcRuns
        BY <1>1, <2>1, RpcFails, RpcReports
    <2>3. CASE Rpcbind!Verb \notin Rpcbind!Checks /\ Rpcbind!Acts
        <3>1. /\ s1' \in RpcUnits /\ s4' \in Rpcbind!Notes \cup {None} /\ RpcNoted'
              /\ Rpcbind!Verb = "note" => s4' # None /\ s1' = s1
              /\ Rpcbind!Verb = "forget" => s4' = None
              /\ Rpcbind!Verb \notin {"note", "forget"} => s4' = s4 /\ s4 # None
            BY <2>1, <2>3, RpcEffects
        <3>2. RpcInv'
            BY <1>1, <2>1, <2>2, <3>1, RpcFailsBack DEF RpcTyped
        <3> QED BY <2>1, <3>1, <3>2
    <2>4. CASE UNCHANGED <<s1, s4>>
        <3>1. Rpcbind!Verb \notin {"note", "forget"} => s4 # None
            BY <2>1, RpcCommands DEF RpcInv, RpcWorks, RpcGoingBack
        <3>2. RpcTyped' /\ RpcNoted'
            BY <1>1, <2>1, <2>2, <2>4 DEF RpcTyped, RpcNoted, Rpcbind!AsBefore
        <3> QED BY <2>1, <2>4, <3>1, <3>2, RpcFailsBack
    <2> QED BY <1>6, <2>3, <2>4 DEF Rpcbind!CommandFails
<1>7. CASE Rpcbind!Killed
    <2>1. UNCHANGED <<s1, s2, s4, s5>> /\ Rpcbind!Reports("cut")
        BY <1>7 DEF Rpcbind!Killed
    <2>2. RpcTyped' /\ RpcNoted'
        BY <1>1, <2>1, RpcReports DEF RpcTyped, RpcNoted, Rpcbind!AsBefore
    <2> QED BY <1>1, <2>1, <2>2, RpcLost
<1>8. CASE Rpcbind!Connects
    BY <1>8, RpcConnects DEF Rpcbind!Connects
<1>9. CASE Rpcbind!Reboots
    BY <1>9, RpcReboots DEF Rpcbind!Reboots
<1>10. CASE Rpcbind!Disturbed \/ UNCHANGED Rpcbind!vars
    <2>1. UNCHANGED <<s1, s4, s5, run, outcome>> /\ s2' \in BOOLEAN
        BY <1>1, <1>10 DEF Rpcbind!Disturbed, Rpcbind!vars, RpcTyped
    <2> QED BY <2>1 DEF RpcInv, RpcTyped, RpcNoted, RpcReported, RpcKnows, RpcWorks, RpcGoingBack, RpcOff, Rpcbind!AsBefore
<1> QED BY <1>2, <1>3, <1>4, <1>5, <1>6, <1>7, <1>8, <1>9, <1>10 DEF Rpcbind!Next

LEMMA RpcInit ==
    ASSUME Init, tool = "rpcbind"
    PROVE  RpcInv
<1>1. Rpcbind!Init
    BY DEF Init
<1>2. s1 \in RpcUnits
    BY <1>1 DEF Rpcbind!Init, RpcUnits, Rpcbind!UnitStates
<1>3. RpcTyped
    BY <1>1, <1>2 DEF Rpcbind!Init, Rpcbind!Idle, RpcTyped, RpcRuns
<1>4. Rpcbind!AsBefore
    BY <1>1 DEF Rpcbind!Init, Rpcbind!AsBefore
<1>5. run.op = "idle" /\ RpcReported
    BY <1>1 DEF Rpcbind!Init, Rpcbind!Idle, RpcReported
<1> QED BY <1>1, <1>3, <1>4, <1>5 DEF Rpcbind!Init, RpcInv, RpcNoted

-----------------------------------------------------------------------------
(* The hardening of the legacy sync service. *)

UnitRuns ==
    [op : {"idle", "apply"}, phase : {"main", "recheck", "undo"}, i : Nat, madeDir : BOOLEAN]

UnitTyped ==
    /\ s1 \in BOOLEAN /\ s2 \in BOOLEAN /\ s3 \in BOOLEAN /\ s6 \in BOOLEAN
    /\ s4 \in {"down", "open", "sandboxed"} /\ run \in UnitRuns

(* What each command finds: the drop-in on disk, loaded, and in the process,  *)
(* one after the other, in and out.                                          *)
UnitWorks ==
    /\ outcome = "running"
    /\ \/ /\ run.phase = "main" /\ run.i \in 1..5
          /\ run.i >= 3 => s1
          /\ run.i >= 4 => s3
          /\ run.i = 5 => s4 # "open"
       \/ run.phase = "recheck" /\ run.i = 1
       \/ /\ run.phase = "undo" /\ run.i \in 1..5
          /\ run.i >= 2 => ~s1
          /\ run.i >= 3 => ~s3
          /\ run.i >= 4 => s4 # "sandboxed"

UnitInv ==
    /\ UnitTyped
    /\ run.op = "apply" => UnitWorks
    /\ SyncUnit!SyncServiceReportIsTrue

LEMMA UnitCommands ==
    /\ run.phase = "main" =>
          /\ Len(SyncUnit!Program) = 5
          /\ run.i = 1 => SyncUnit!Verb = "mkdir"
          /\ run.i = 2 => SyncUnit!Verb = "link"
          /\ run.i = 3 => SyncUnit!Verb = "load"
          /\ run.i = 4 => SyncUnit!Verb = "restart"
          /\ run.i = 5 => SyncUnit!Verb = "runtime"
    /\ run.phase = "recheck" =>
          Len(SyncUnit!Program) = 1 /\ (run.i = 1 => SyncUnit!Verb = "runtime")
    /\ run.phase = "undo" =>
          /\ Len(SyncUnit!Program) = 5
          /\ run.i = 1 => SyncUnit!Verb = "unlink"
          /\ run.i = 2 => SyncUnit!Verb = "load"
          /\ run.i = 3 => SyncUnit!Verb = "restart"
          /\ run.i = 4 => SyncUnit!Verb = "runtime"
          /\ run.i = 5 => SyncUnit!Verb = "rmdir"
<1>1. CASE run.phase = "main"
    <2>1. SyncUnit!Program = SyncUnit!Applying
        BY <1>1 DEF SyncUnit!Program
    <2> QED BY <1>1, <2>1 DEF SyncUnit!Applying, SyncUnit!Verb, SyncUnit!Command
<1>2. CASE run.phase = "recheck"
    <2>1. SyncUnit!Program = SyncUnit!Rechecking
        BY <1>2 DEF SyncUnit!Program
    <2> QED BY <1>2, <2>1 DEF SyncUnit!Rechecking, SyncUnit!Verb, SyncUnit!Command
<1>3. CASE run.phase = "undo"
    <2>1. SyncUnit!Program = SyncUnit!Undoing
        BY <1>3 DEF SyncUnit!Program
    <2> QED BY <1>3, <2>1 DEF SyncUnit!Undoing, SyncUnit!Verb, SyncUnit!Command
<1> QED BY <1>1, <1>2, <1>3

(* Where the tool goes. *)
LEMMA UnitReports ==
    ASSUME NEW end, SyncUnit!Reports(end)
    PROVE  run' \in UnitRuns /\ run'.op = "idle" /\ outcome' = end
BY DEF UnitRuns, SyncUnit!Reports, SyncUnit!Idle

LEMMA UnitEnters ==
    ASSUME UnitTyped, NEW p \in {"main", "recheck", "undo"}, SyncUnit!Enters(p)
    PROVE  run' \in UnitRuns /\ run'.op = run.op /\ run'.phase = p /\ run'.i = 1 /\ outcome' = outcome
<1>1. run \in UnitRuns
    BY DEF UnitTyped
<1>2. run' = [op |-> run.op, phase |-> p, i |-> 1, madeDir |-> run.madeDir] /\ outcome' = outcome
    BY <1>1 DEF SyncUnit!Enters, UnitRuns
<1> QED BY <1>1, <1>2 DEF UnitRuns

LEMMA UnitGoes ==
    ASSUME UnitTyped, NEW n \in Nat, Len(SyncUnit!Program) = n, SyncUnit!Goes
    PROVE  \/ /\ run.i < n /\ run' \in UnitRuns /\ run'.op = run.op /\ run'.phase = run.phase
              /\ run'.i = run.i + 1 /\ outcome' = outcome
           \/ /\ run.i >= n /\ run' \in UnitRuns /\ run'.op = "idle"
              /\ run.phase = "main" => outcome' = "hardened"
              /\ run.phase = "recheck" => outcome' = "already"
              /\ run.phase = "undo" => outcome' = "restored"
<1>1. run \in UnitRuns /\ s2 \in BOOLEAN /\ run.i \in Nat
    BY DEF UnitTyped, UnitRuns
<1>2. CASE run.i < n
    <2>1. /\ run' = [run EXCEPT !.i = run.i + 1, !.madeDir = IF SyncUnit!Verb = "mkdir" THEN ~s2 ELSE run.madeDir]
          /\ outcome' = outcome
        BY <1>2 DEF SyncUnit!Goes
    <2>2. PICK m \in BOOLEAN : m = IF SyncUnit!Verb = "mkdir" THEN ~s2 ELSE run.madeDir
        BY <1>1 DEF UnitRuns
    <2>3. run' = [op |-> run.op, phase |-> run.phase, i |-> run.i + 1, madeDir |-> m]
        BY <1>1, <2>1, <2>2 DEF UnitRuns
    <2> QED BY <1>1, <1>2, <2>1, <2>3 DEF UnitRuns
<1>3. CASE run.i >= n
    <2>1. ~(run.i < Len(SyncUnit!Program))
        BY <1>1, <1>3
    <2>2. PICK end : /\ SyncUnit!Reports(end)
                     /\ end = CASE run.phase = "main" -> "hardened" [] run.phase = "recheck" -> "already"
                                 [] run.phase = "undo" -> "restored"
        BY <2>1 DEF SyncUnit!Goes
    <2> QED BY <1>3, <2>2, UnitReports
<1> QED BY <1>1, <1>2, <1>3

LEMMA UnitFails ==
    ASSUME UnitTyped, UnitWorks, SyncUnit!Fails
    PROVE  \/ /\ run.phase = "main" /\ run' \in UnitRuns /\ run'.op = run.op /\ run'.phase = "undo"
              /\ run'.i = 1 /\ outcome' = outcome
           \/ run.phase = "undo" /\ run.i = 5 /\ run' \in UnitRuns /\ run'.op = "idle" /\ outcome' = "restored"
           \/ run' \in UnitRuns /\ run'.op = "idle" /\ outcome' = "failed"
<1>1. CASE run.phase = "main" /\ SyncUnit!Verb \in {"load", "restart", "runtime"}
    <2>1. SyncUnit!Enters("undo")
        BY <1>1 DEF SyncUnit!Fails
    <2> QED BY <1>1, <2>1, UnitEnters
<1>2. CASE run.phase = "undo" /\ SyncUnit!Verb = "rmdir"
    <2>1. SyncUnit!Reports("restored")
        BY <1>2 DEF SyncUnit!Fails
    <2>2. run.i = 5
        BY <1>2, UnitCommands DEF UnitWorks
    <2> QED BY <1>2, <2>1, <2>2, UnitReports
<1>3. CASE /\ ~(run.phase = "main" /\ SyncUnit!Verb \in {"load", "restart", "runtime"})
           /\ ~(run.phase = "undo" /\ SyncUnit!Verb = "rmdir")
    <2>1. SyncUnit!Reports("failed")
        BY <1>3 DEF SyncUnit!Fails
    <2> QED BY <2>1, UnitReports
<1> QED BY <1>1, <1>2, <1>3

(* Only the last command of the way out may fail and be called restored.      *)
LEMMA UnitFailsBack ==
    ASSUME UnitInv, run.op = "apply", SyncUnit!Fails, s1' \in BOOLEAN, s2' \in BOOLEAN, s3' \in BOOLEAN,
           s6' \in BOOLEAN, s4' \in {"down", "open", "sandboxed"},
           run.phase = "undo" /\ run.i = 5 => s1' = s1 /\ s3' = s3 /\ s4' = s4
    PROVE  UnitInv'
<1>1. UnitTyped /\ UnitWorks
    BY DEF UnitInv
<1>2. CASE /\ run.phase = "main" /\ run' \in UnitRuns /\ run'.op = run.op /\ run'.phase = "undo"
           /\ run'.i = 1 /\ outcome' = outcome
    <2>1. UnitTyped'
        BY <1>2 DEF UnitTyped
    <2>2. outcome' = "running"
        BY <1>1, <1>2 DEF UnitWorks
    <2>3. UnitWorks'
        BY <1>2, <2>2 DEF UnitWorks
    <2> QED BY <2>1, <2>2, <2>3 DEF UnitInv, SyncUnit!SyncServiceReportIsTrue
<1>3. CASE run.phase = "undo" /\ run.i = 5 /\ run' \in UnitRuns /\ run'.op = "idle" /\ outcome' = "restored"
    <2>1. UnitTyped'
        BY <1>3 DEF UnitTyped
    <2>2. ~s1' /\ ~s3' /\ s4' # "sandboxed"
        BY <1>1, <1>3 DEF UnitWorks
    <2> QED BY <1>3, <2>1, <2>2 DEF UnitInv, UnitTyped, SyncUnit!SyncServiceReportIsTrue
<1>4. CASE run' \in UnitRuns /\ run'.op = "idle" /\ outcome' = "failed"
    BY <1>4 DEF UnitInv, UnitTyped, SyncUnit!SyncServiceReportIsTrue
<1> QED BY <1>1, <1>2, <1>3, <1>4, UnitFails

(* What a command does. *)
LEMMA UnitActs ==
    ASSUME UnitTyped, SyncUnit!Acts
    PROVE  /\ s1' \in BOOLEAN /\ s2' \in BOOLEAN /\ s3' \in BOOLEAN /\ s4' \in {"down", "open", "sandboxed"}
           /\ SyncUnit!Verb = "link" => s1'
           /\ SyncUnit!Verb = "unlink" => ~s1'
           /\ SyncUnit!Verb \notin {"link", "unlink"} => s1' = s1
           /\ s3' = IF SyncUnit!Verb = "load" THEN s1 ELSE s3
           /\ SyncUnit!Verb # "restart" => s4' = s4
           /\ SyncUnit!Verb = "restart" => IF s3 THEN s4' # "open" ELSE s4' # "sandboxed"
<1>1. /\ s1 \in BOOLEAN /\ s2 \in BOOLEAN /\ s3 \in BOOLEAN /\ s4 \in {"down", "open", "sandboxed"}
      /\ run.madeDir \in BOOLEAN
    BY DEF UnitTyped, UnitRuns
<1>2. /\ s1' \in BOOLEAN
      /\ SyncUnit!Verb = "link" => s1'
      /\ SyncUnit!Verb = "unlink" => ~s1'
      /\ SyncUnit!Verb \notin {"link", "unlink"} => s1' = s1
    BY <1>1 DEF SyncUnit!Acts
<1>3. s2' \in BOOLEAN
    BY <1>1 DEF SyncUnit!Acts
<1>4. s3' = IF SyncUnit!Verb = "load" THEN s1 ELSE s3
    BY DEF SyncUnit!Acts
<1>5. s4' = IF SyncUnit!Verb = "restart" THEN SyncUnit!Restarted(s3) ELSE s4
    BY DEF SyncUnit!Acts
<1>6. /\ SyncUnit!Verb # "restart" => s4' = s4
      /\ SyncUnit!Verb = "restart" => IF s3 THEN s4' # "open" ELSE s4' # "sandboxed"
      /\ s4' \in {"down", "open", "sandboxed"}
    BY <1>1, <1>5 DEF SyncUnit!Restarted
<1> QED BY <1>1, <1>2, <1>3, <1>4, <1>6

LEMMA UnitGoesOn ==
    ASSUME UnitInv, run.op = "apply", SyncUnit!Goes, s6' = s6,
           \/ SyncUnit!Verb # "runtime" /\ SyncUnit!Acts
           \/ SyncUnit!Verb = "runtime" /\ UNCHANGED <<s1, s2, s3, s4>>
    PROVE  UnitInv'
<1>1. UnitTyped /\ UnitWorks /\ outcome = "running"
    BY DEF UnitInv, UnitWorks
<1>2. /\ s1' \in BOOLEAN /\ s2' \in BOOLEAN /\ s3' \in BOOLEAN /\ s4' \in {"down", "open", "sandboxed"}
      /\ s6' \in BOOLEAN
      /\ SyncUnit!Verb = "link" => s1'
      /\ SyncUnit!Verb = "unlink" => ~s1'
      /\ SyncUnit!Verb \notin {"link", "unlink"} => s1' = s1
      /\ s3' = IF SyncUnit!Verb = "load" THEN s1 ELSE s3
      /\ SyncUnit!Verb # "restart" => s4' = s4
      /\ SyncUnit!Verb = "restart" => IF s3 THEN s4' # "open" ELSE s4' # "sandboxed"
    BY <1>1, UnitActs DEF UnitTyped
<1>3. CASE run.phase = "main"
    <2>1. Len(SyncUnit!Program) = 5 /\ run.i \in 1..5
        BY <1>1, <1>3, UnitCommands DEF UnitWorks
    <2>2. CASE run.i < 5
        <3>1. run' \in UnitRuns /\ run'.op = "apply" /\ run'.phase = "main" /\ run'.i = run.i + 1 /\ outcome' = "running"
            BY <1>1, <1>3, <2>1, <2>2, UnitGoes
        <3>2. /\ run.i >= 2 => s1'
              /\ run.i >= 3 => s3'
              /\ run.i = 4 => s4' # "open"
            BY <1>1, <1>2, <1>3, <2>1, <2>2, UnitCommands DEF UnitWorks
        <3>3. UnitWorks'
            BY <2>1, <2>2, <3>1, <3>2 DEF UnitWorks
        <3> QED BY <1>2, <3>1, <3>3 DEF UnitInv, UnitTyped, SyncUnit!SyncServiceReportIsTrue
    <2>3. CASE run.i = 5
        <3>1. run' \in UnitRuns /\ run'.op = "idle" /\ outcome' = "hardened"
            BY <1>1, <1>3, <2>1, <2>3, UnitGoes
        <3>2. s1' /\ s3' /\ s4' # "open"
            BY <1>1, <1>2, <1>3, <2>3, UnitCommands DEF UnitWorks
        <3> QED BY <1>2, <3>1, <3>2 DEF UnitInv, UnitTyped, SyncUnit!SyncServiceReportIsTrue
    <2> QED BY <2>1, <2>2, <2>3
<1>4. CASE run.phase = "recheck"
    <2>1. Len(SyncUnit!Program) = 1 /\ run.i = 1
        BY <1>1, <1>4, UnitCommands DEF UnitWorks
    <2>2. run' \in UnitRuns /\ run'.op = "idle" /\ outcome' = "already"
        BY <1>1, <1>4, <2>1, UnitGoes
    <2> QED BY <1>2, <2>2 DEF UnitInv, UnitTyped, SyncUnit!SyncServiceReportIsTrue
<1>5. CASE run.phase = "undo"
    <2>1. Len(SyncUnit!Program) = 5 /\ run.i \in 1..5
        BY <1>1, <1>5, UnitCommands DEF UnitWorks
    <2>2. CASE run.i < 5
        <3>1. run' \in UnitRuns /\ run'.op = "apply" /\ run'.phase = "undo" /\ run'.i = run.i + 1 /\ outcome' = "running"
            BY <1>1, <1>5, <2>1, <2>2, UnitGoes
        <3>2. /\ run.i >= 1 => ~s1'
              /\ run.i >= 2 => ~s3'
              /\ run.i >= 3 => s4' # "sandboxed"
            BY <1>1, <1>2, <1>5, <2>1, <2>2, UnitCommands DEF UnitWorks
        <3>3. UnitWorks'
            BY <2>1, <2>2, <3>1, <3>2 DEF UnitWorks
        <3> QED BY <1>2, <3>1, <3>3 DEF UnitInv, UnitTyped, SyncUnit!SyncServiceReportIsTrue
    <2>3. CASE run.i = 5
        <3>1. run' \in UnitRuns /\ run'.op = "idle" /\ outcome' = "restored"
            BY <1>1, <1>5, <2>1, <2>3, UnitGoes
        <3>2. ~s1' /\ ~s3' /\ s4' # "sandboxed"
            BY <1>1, <1>2, <1>5, <2>3, UnitCommands DEF UnitWorks
        <3> QED BY <1>2, <3>1, <3>2 DEF UnitInv, UnitTyped, SyncUnit!SyncServiceReportIsTrue
    <2> QED BY <2>1, <2>2, <2>3
<1> QED BY <1>1, <1>3, <1>4, <1>5 DEF UnitWorks

(* A phase that begins knows nothing yet.                                    *)
LEMMA UnitTurns ==
    ASSUME UnitInv, run.op = "apply", NEW p \in {"recheck", "undo"}, SyncUnit!Enters(p),
           s1' \in BOOLEAN, s2' \in BOOLEAN, s3' \in BOOLEAN, s4' \in {"down", "open", "sandboxed"}, s6' = s6
    PROVE  UnitInv'
<1>1. UnitTyped /\ outcome = "running"
    BY DEF UnitInv, UnitWorks
<1>2. run' \in UnitRuns /\ run'.op = "apply" /\ run'.phase = p /\ run'.i = 1 /\ outcome' = "running"
    BY <1>1, UnitEnters
<1>3. UnitWorks'
    BY <1>2 DEF UnitWorks
<1> QED BY <1>1, <1>2, <1>3 DEF UnitInv, UnitTyped, SyncUnit!SyncServiceReportIsTrue

LEMMA UnitStep ==
    ASSUME UnitInv, [SyncUnit!Next]_(SyncUnit!vars)
    PROVE  UnitInv'
<1>1. UnitTyped
    BY DEF UnitInv
<1>2. SyncUnit!Busy => run.op = "apply" /\ UnitWorks
    BY DEF UnitInv, UnitTyped, UnitRuns, SyncUnit!Busy
<1>3. CASE SyncUnit!Applies
    <2>1. /\ UNCHANGED <<s1, s2, s3, s4, s6>> /\ outcome' = "running"
          /\ run' = [op |-> "apply", phase |-> "main", i |-> 1, madeDir |-> FALSE]
        BY <1>3 DEF SyncUnit!Applies, SyncUnit!Idle, SyncUnit!host
    <2>2. run' \in UnitRuns /\ run'.phase = "main" /\ run'.i = 1
        BY <2>1 DEF UnitRuns
    <2>3. UnitWorks'
        BY <2>1, <2>2 DEF UnitWorks
    <2> QED BY <1>1, <2>1, <2>2, <2>3 DEF UnitInv, UnitTyped, SyncUnit!SyncServiceReportIsTrue
<1>4. CASE SyncUnit!VerifiesService
    <2>1. UNCHANGED <<s1, s2, s3, s4, s6, run>> /\ outcome' = "already" /\ run.op # "apply"
        BY <1>1, <1>4 DEF SyncUnit!VerifiesService, SyncUnit!host, SyncUnit!Busy
    <2> QED BY <1>1, <2>1 DEF UnitInv, UnitTyped, SyncUnit!SyncServiceReportIsTrue
<1>5. CASE SyncUnit!Changes
    <2>1. run.op = "apply" /\ SyncUnit!Verb # "runtime" /\ s6' = s6 /\ UnitWorks
        BY <1>2, <1>5 DEF SyncUnit!Changes
    <2>2. CASE SyncUnit!Enters("recheck") /\ UNCHANGED <<s1, s2, s3, s4>>
        BY <1>1, <2>1, <2>2, UnitTurns DEF UnitTyped
    <2>3. CASE SyncUnit!Fails /\ UNCHANGED <<s1, s2, s3, s4>>
        BY <1>1, <2>1, <2>3, UnitFailsBack DEF UnitTyped
    <2>4. CASE SyncUnit!Acts /\ SyncUnit!Goes
        BY <2>1, <2>4, UnitGoesOn
    <2> QED BY <1>5, <2>2, <2>3, <2>4 DEF SyncUnit!Changes, SyncUnit!host
<1>6. CASE SyncUnit!Waits
    <2>1. run.op = "apply" /\ SyncUnit!Verb = "runtime" /\ UNCHANGED <<s1, s2, s3, s4, s6>>
        BY <1>2, <1>6 DEF SyncUnit!Waits, SyncUnit!host
    <2>2. CASE SyncUnit!Goes
        BY <2>1, <2>2, UnitGoesOn
    <2>3. CASE SyncUnit!Fails
        BY <1>1, <2>1, <2>3, UnitFailsBack DEF UnitTyped
    <2> QED BY <1>6, <2>2, <2>3 DEF SyncUnit!Waits
<1>7. CASE SyncUnit!CommandFails
    <2>1. run.op = "apply" /\ SyncUnit!Verb # "runtime" /\ s6' = s6 /\ UnitWorks
        BY <1>2, <1>7 DEF SyncUnit!CommandFails
    <2>2. run.phase = "undo" /\ run.i = 5 => SyncUnit!Verb = "rmdir"
        BY UnitCommands
    <2>3. CASE SyncUnit!Acts /\ SyncUnit!Fails
        <3>1. /\ s1' \in BOOLEAN /\ s2' \in BOOLEAN /\ s3' \in BOOLEAN /\ s4' \in {"down", "open", "sandboxed"}
              /\ SyncUnit!Verb = "rmdir" => s1' = s1 /\ s3' = s3 /\ s4' = s4
            BY <1>1, <2>3, UnitActs
        <3> QED BY <1>1, <2>1, <2>2, <2>3, <3>1, UnitFailsBack DEF UnitTyped
    <2>4. CASE UNCHANGED <<s1, s3, s4>> /\ SyncUnit!Fails /\ s2' \in {s2, s2 /\ ~run.madeDir}
        <3>1. s2' \in BOOLEAN
            BY <1>1, <2>4 DEF UnitTyped
        <3> QED BY <1>1, <2>1, <2>4, <3>1, UnitFailsBack DEF UnitTyped
    <2>5. CASE SyncUnit!Acts /\ SyncUnit!Enters("undo")
        BY <1>1, <2>1, <2>5, UnitActs, UnitTurns
    <2> QED BY <1>7, <2>3, <2>4, <2>5 DEF SyncUnit!CommandFails
<1>8. CASE SyncUnit!Killed \/ SyncUnit!Reboots
    <2>1. /\ s1' \in BOOLEAN /\ s2' \in BOOLEAN /\ s3' \in BOOLEAN /\ s4' \in {"down", "open", "sandboxed"}
          /\ s6' \in BOOLEAN /\ SyncUnit!Reports("cut")
        BY <1>1, <1>8 DEF SyncUnit!Killed, SyncUnit!Reboots, SyncUnit!Restarted, SyncUnit!host, UnitTyped
    <2>2. run' \in UnitRuns /\ run'.op = "idle" /\ outcome' = "cut"
        BY <2>1, UnitReports
    <2> QED BY <2>1, <2>2 DEF UnitInv, UnitTyped, SyncUnit!SyncServiceReportIsTrue
<1>9. CASE SyncUnit!Disturbed \/ UNCHANGED SyncUnit!vars
    <2>1. UNCHANGED <<s1, s2, s3, run, outcome>> /\ s6' \in BOOLEAN /\ s4' \in {s4, "down"}
        BY <1>1, <1>9 DEF SyncUnit!Disturbed, SyncUnit!vars, SyncUnit!host, UnitTyped
    <2>2. UnitTyped'
        BY <1>1, <2>1 DEF UnitTyped
    <2>3. UnitWorks => UnitWorks'
        BY <2>1 DEF UnitWorks
    <2> QED BY <2>1, <2>2, <2>3 DEF UnitInv, SyncUnit!SyncServiceReportIsTrue
<1> QED BY <1>3, <1>4, <1>5, <1>6, <1>7, <1>8, <1>9 DEF SyncUnit!Next

LEMMA UnitInit ==
    ASSUME Init, tool = "unit"
    PROVE  UnitInv
<1>1. SyncUnit!Init
    BY DEF Init
<1> QED BY <1>1 DEF SyncUnit!Init, SyncUnit!Idle, UnitInv, UnitTyped, UnitRuns, SyncUnit!SyncServiceReportIsTrue

-----------------------------------------------------------------------------
(* The direct /v1 cutover of Nginx. *)

DirectFiles == [Direct!FILES -> {"old", "absent", "new"}]
DirectRuns ==
    [op : {"idle", "apply"}, phase : {"main", "undo"}, i : Nat,
     original : DirectFiles, changed : SUBSET Direct!FILES]

DirectTyped == s1 \in DirectFiles /\ run \in DirectRuns /\ trouble \in Nat

(* The files are written, and put back, in this order.                       *)
DirectWorks ==
    /\ outcome.end = "running"
    /\ \/ /\ run.phase = "main" /\ run.i \in 1..8
          /\ run.i >= 2 => s1["site"] = "new"
          /\ run.i >= 3 => s1["map"] = "new"
          /\ run.i >= 4 => s1["stable"] = "new"
          /\ run.i >= 5 => s1["sync"] = "new"
          /\ run.i = 8 => s2 = Direct!New
       \/ /\ run.phase = "undo" /\ run.i \in 1..6
          /\ run.i >= 2 => s1["site"] = run.original["site"]
          /\ run.i >= 3 => s1["map"] = run.original["map"]
          /\ run.i >= 4 => s1["stable"] = run.original["stable"]
          /\ run.i >= 5 => s1["sync"] = run.original["sync"]

DirectInv ==
    /\ DirectTyped
    /\ run.op = "apply" => DirectWorks
    /\ Direct!NginxReportIsTrue

LEMMA DirectCommands ==
    /\ run.phase = "main" =>
          /\ Len(Direct!Program) = 8
          /\ run.i \in 1..4 => Direct!Verb = "write"
          /\ run.i = 1 => Direct!Command[2] = "site"
          /\ run.i = 2 => Direct!Command[2] = "map"
          /\ run.i = 3 => Direct!Command[2] = "stable"
          /\ run.i = 4 => Direct!Command[2] = "sync"
          /\ run.i = 5 => Direct!Verb = "capture"
          /\ run.i = 6 => Direct!Verb = "test"
          /\ run.i = 7 => Direct!Verb = "reload"
          /\ run.i = 8 => Direct!Verb = "canary"
    /\ run.phase = "undo" =>
          /\ Len(Direct!Program) = 6
          /\ run.i \in 1..4 => Direct!Verb = "back"
          /\ run.i = 1 => Direct!Command[2] = "site"
          /\ run.i = 2 => Direct!Command[2] = "map"
          /\ run.i = 3 => Direct!Command[2] = "stable"
          /\ run.i = 4 => Direct!Command[2] = "sync"
          /\ run.i = 5 => Direct!Verb = "test"
          /\ run.i = 6 => Direct!Verb = "reload"
<1>1. CASE run.phase = "main"
    <2>1. Direct!Program = Direct!Switching
        BY <1>1 DEF Direct!Program
    <2> QED BY <1>1, <2>1 DEF Direct!Switching, Direct!Verb, Direct!Command
<1>2. CASE run.phase = "undo"
    <2>1. Direct!Program = Direct!Restoring
        BY <1>2 DEF Direct!Program
    <2> QED BY <1>2, <2>1 DEF Direct!Restoring, Direct!Verb, Direct!Command
<1> QED BY <1>1, <1>2

(* Four files of one kind are the whole.                                     *)
LEMMA DirectWhole ==
    ASSUME NEW d \in DirectFiles, NEW e \in DirectFiles,
           d["site"] = e["site"], d["map"] = e["map"], d["stable"] = e["stable"], d["sync"] = e["sync"]
    PROVE  d = e
BY DEF DirectFiles, Direct!FILES

LEMMA DirectNew == Direct!New \in DirectFiles /\ \A f \in Direct!FILES : Direct!New[f] = "new"
BY DEF Direct!New, DirectFiles

(* Where the tool goes. *)
LEMMA DirectReports ==
    ASSUME NEW end, Direct!Reports(end)
    PROVE  run' \in DirectRuns /\ run'.op = "idle" /\ outcome'.end = end /\ outcome'.original = run.original
BY DirectNew DEF DirectRuns, Direct!Reports, Direct!Idle

LEMMA DirectGoes ==
    ASSUME DirectTyped, NEW n \in Nat, Len(Direct!Program) = n, Direct!Goes,
           Direct!Verb = "write" => Direct!Command[2] \in Direct!FILES
    PROVE  \/ /\ run.i < n /\ run' \in DirectRuns /\ run'.op = run.op /\ run'.phase = run.phase
              /\ run'.i = run.i + 1 /\ run'.original = run.original /\ outcome' = outcome
           \/ /\ run.i >= n
              /\ Direct!Reports(IF run.phase = "main" THEN "switched" ELSE "restored")
<1>1. run \in DirectRuns /\ run.i \in Nat
    BY DEF DirectTyped, DirectRuns
<1>2. CASE run.i < n
    <2>1. PICK c \in SUBSET Direct!FILES :
              c = IF Direct!Verb = "write" THEN run.changed \cup {Direct!Command[2]} ELSE run.changed
        BY <1>1 DEF DirectRuns
    <2>2. run' = [run EXCEPT !.i = run.i + 1, !.changed = c] /\ outcome' = outcome
        BY <1>2, <2>1 DEF Direct!Goes
    <2>3. run' = [op |-> run.op, phase |-> run.phase, i |-> run.i + 1, original |-> run.original, changed |-> c]
        BY <1>1, <2>2 DEF DirectRuns
    <2> QED BY <1>1, <1>2, <2>2, <2>3 DEF DirectRuns
<1>3. CASE run.i >= n
    <2>1. ~(run.i < Len(Direct!Program))
        BY <1>1, <1>3
    <2> QED BY <1>3, <2>1 DEF Direct!Goes
<1> QED BY <1>1, <1>2, <1>3

LEMMA DirectFails ==
    ASSUME DirectTyped, Direct!Fails
    PROVE  \/ \E end \in {"unconfirmed", "failed"} : Direct!Reports(end)
           \/ /\ run' \in DirectRuns /\ run'.op = run.op /\ run'.phase = "undo" /\ run'.i = 1
              /\ run'.original = run.original /\ outcome' = outcome
<1>1. run \in DirectRuns
    BY DEF DirectTyped
<1>2. CASE run.phase = "undo" \/ run.changed = {}
    BY <1>2 DEF Direct!Fails
<1>3. CASE ~(run.phase = "undo" \/ run.changed = {})
    <2>1. /\ run' = [op |-> run.op, phase |-> "undo", i |-> 1, original |-> run.original, changed |-> run.changed]
          /\ outcome' = outcome
        BY <1>1, <1>3 DEF Direct!Fails, DirectRuns
    <2> QED BY <1>1, <2>1 DEF DirectRuns
<1> QED BY <1>2, <1>3

(* What a command does. *)
LEMMA DirectActs ==
    ASSUME DirectTyped, DirectWorks, Direct!Acts
    PROVE  /\ s1' \in DirectFiles
           /\ Direct!Verb = "write" => s1' = [s1 EXCEPT ![Direct!Command[2]] = "new"]
           /\ Direct!Verb = "back" => s1' = [s1 EXCEPT ![Direct!Command[2]] = run.original[Direct!Command[2]]]
           /\ Direct!Verb \notin {"write", "back"} => s1' = s1
           /\ s2' = IF Direct!Verb = "reload" THEN s1 ELSE s2
           /\ Direct!Verb \in {"write", "back"} => Direct!Command[2] \in Direct!FILES
<1>1. /\ Direct!Verb = "write" => s1' = [s1 EXCEPT ![Direct!Command[2]] = "new"]
      /\ Direct!Verb = "back" => s1' = [s1 EXCEPT ![Direct!Command[2]] = run.original[Direct!Command[2]]]
      /\ Direct!Verb \notin {"write", "back"} => s1' = s1
      /\ s2' = IF Direct!Verb = "reload" THEN s1 ELSE s2
    BY DEF Direct!Acts
<1>2. Direct!Verb \in {"write", "back"} => Direct!Command[2] \in Direct!FILES
    <2>1. Direct!Verb \in {"write", "back"} => run.i \in {1, 2, 3, 4}
        BY DirectCommands DEF DirectWorks
    <2> QED BY <2>1, DirectCommands DEF Direct!FILES, DirectWorks
<1>3. run.original \in DirectFiles
    BY DEF DirectTyped, DirectRuns
<1>4. s1' \in DirectFiles
    BY <1>1, <1>2, <1>3 DEF DirectTyped, DirectFiles
<1> QED BY <1>1, <1>2, <1>4

LEMMA DirectGoesOn ==
    ASSUME DirectInv, run.op = "apply", Direct!Acts, Direct!Goes, trouble' \in Nat
    PROVE  /\ DirectInv'
           /\ s2' # s2 => s2' \in {Direct!New, run.original}
<1>1. DirectTyped /\ DirectWorks /\ outcome.end = "running" /\ run.original \in DirectFiles
    BY DEF DirectInv, DirectWorks, DirectTyped, DirectRuns
<1>2. /\ s1' \in DirectFiles
      /\ Direct!Verb = "write" => s1' = [s1 EXCEPT ![Direct!Command[2]] = "new"]
      /\ Direct!Verb = "back" => s1' = [s1 EXCEPT ![Direct!Command[2]] = run.original[Direct!Command[2]]]
      /\ Direct!Verb \notin {"write", "back"} => s1' = s1
      /\ s2' = IF Direct!Verb = "reload" THEN s1 ELSE s2
      /\ Direct!Verb \in {"write", "back"} => Direct!Command[2] \in Direct!FILES
    BY <1>1, DirectActs
<1>3. CASE run.phase = "main"
    <2>1. Len(Direct!Program) = 8 /\ run.i \in 1..8
        BY <1>1, <1>3, DirectCommands DEF DirectWorks
    <2>2. /\ run.i >= 1 => s1'["site"] = "new"
          /\ run.i >= 2 => s1'["map"] = "new"
          /\ run.i >= 3 => s1'["stable"] = "new"
          /\ run.i >= 4 => s1'["sync"] = "new"
        <3>1. CASE run.i \in {1, 2, 3, 4}
            BY <1>1, <1>2, <1>3, <3>1, DirectCommands DEF DirectWorks, DirectTyped, DirectFiles, Direct!FILES
        <3>2. CASE run.i \in {5, 6, 7, 8}
            BY <1>1, <1>2, <1>3, <3>2, DirectCommands DEF DirectWorks
        <3> QED BY <2>1, <3>1, <3>2
    <2>3. run.i \in {7, 8} => s1 = Direct!New
        BY <1>1, <1>3, DirectWhole, DirectNew DEF DirectWorks, DirectTyped, Direct!FILES
    <2>4. /\ run.i \in {7, 8} => s2' = Direct!New
          /\ run.i # 7 => s2' = s2
        BY <1>1, <1>2, <1>3, <2>1, <2>3, DirectCommands DEF DirectWorks
    <2>5. CASE run.i < 8
        <3>1. /\ run' \in DirectRuns /\ run'.op = "apply" /\ run'.phase = "main" /\ run'.i = run.i + 1
              /\ outcome'.end = "running"
            BY <1>1, <1>2, <1>3, <2>1, <2>5, DirectGoes
        <3>2. DirectWorks'
            BY <2>1, <2>2, <2>4, <2>5, <3>1 DEF DirectWorks
        <3> QED BY <1>2, <2>1, <2>4, <3>1, <3>2 DEF DirectInv, DirectTyped, Direct!NginxReportIsTrue
    <2>6. CASE run.i = 8
        <3>1. Direct!Reports("switched")
            BY <1>1, <1>2, <1>3, <2>1, <2>6, DirectGoes
        <3>2. run' \in DirectRuns /\ run'.op = "idle" /\ outcome'.end = "switched"
            BY <3>1, DirectReports
        <3>3. s1' = Direct!New /\ s2' = Direct!New
            BY <1>2, <1>3, <2>3, <2>4, <2>6, DirectCommands
        <3> QED BY <1>2, <3>2, <3>3 DEF DirectInv, DirectTyped, Direct!NginxReportIsTrue
    <2> QED BY <2>1, <2>5, <2>6
<1>4. CASE run.phase = "undo"
    <2>1. Len(Direct!Program) = 6 /\ run.i \in 1..6
        BY <1>1, <1>4, DirectCommands DEF DirectWorks
    <2>2. /\ run.i >= 1 => s1'["site"] = run.original["site"]
          /\ run.i >= 2 => s1'["map"] = run.original["map"]
          /\ run.i >= 3 => s1'["stable"] = run.original["stable"]
          /\ run.i >= 4 => s1'["sync"] = run.original["sync"]
        <3>1. CASE run.i \in {1, 2, 3, 4}
            BY <1>1, <1>2, <1>4, <3>1, DirectCommands DEF DirectWorks, DirectTyped, DirectFiles, Direct!FILES
        <3>2. CASE run.i \in {5, 6}
            BY <1>1, <1>2, <1>4, <3>2, DirectCommands DEF DirectWorks
        <3> QED BY <2>1, <3>1, <3>2
    <2>3. run.i = 6 => s1 = run.original
        BY <1>1, <1>4, DirectWhole DEF DirectWorks, DirectTyped
    <2>4. /\ run.i = 6 => s2' = run.original
          /\ run.i # 6 => s2' = s2
        BY <1>1, <1>2, <1>4, <2>1, <2>3, DirectCommands
    <2>5. CASE run.i < 6
        <3>1. /\ run' \in DirectRuns /\ run'.op = "apply" /\ run'.phase = "undo" /\ run'.i = run.i + 1
              /\ run'.original = run.original /\ outcome'.end = "running"
            BY <1>1, <1>2, <1>4, <2>1, <2>5, DirectGoes
        <3>2. DirectWorks'
            BY <2>1, <2>2, <2>5, <3>1 DEF DirectWorks
        <3> QED BY <1>2, <2>1, <2>4, <2>5, <3>1, <3>2 DEF DirectInv, DirectTyped, Direct!NginxReportIsTrue
    <2>6. CASE run.i = 6
        <3>1. Direct!Reports("restored")
            BY <1>1, <1>2, <1>4, <2>1, <2>6, DirectGoes
        <3>2. run' \in DirectRuns /\ run'.op = "idle" /\ outcome'.end = "restored" /\ outcome'.original = run.original
            BY <3>1, DirectReports
        <3>3. s1' = run.original /\ s2' = run.original
            BY <1>2, <1>4, <2>3, <2>4, <2>6, DirectCommands
        <3> QED BY <1>2, <3>2, <3>3 DEF DirectInv, DirectTyped, Direct!NginxReportIsTrue
    <2> QED BY <2>1, <2>5, <2>6
<1> QED BY <1>1, <1>3, <1>4 DEF DirectWorks

LEMMA DirectFailsBack ==
    ASSUME DirectInv, run.op = "apply", Direct!Fails, s1' \in DirectFiles, trouble' \in Nat
    PROVE  DirectInv'
<1>1. DirectTyped /\ outcome.end = "running"
    BY DEF DirectInv, DirectWorks
<1>2. ASSUME NEW end \in {"unconfirmed", "failed"}, Direct!Reports(end)
      PROVE  DirectInv'
    <2>1. run' \in DirectRuns /\ run'.op = "idle" /\ outcome'.end = end
        BY <1>2, DirectReports
    <2> QED BY <1>2, <2>1 DEF DirectInv, DirectTyped, Direct!NginxReportIsTrue
<1>3. CASE /\ run' \in DirectRuns /\ run'.op = run.op /\ run'.phase = "undo" /\ run'.i = 1
           /\ run'.original = run.original /\ outcome' = outcome
    <2>1. DirectWorks'
        BY <1>1, <1>3 DEF DirectWorks
    <2> QED BY <1>1, <1>3, <2>1 DEF DirectInv, DirectTyped, Direct!NginxReportIsTrue
<1> QED BY <1>1, <1>2, <1>3, DirectFails

LEMMA DirectStep ==
    ASSUME DirectInv, [Direct!Next]_(Direct!vars)
    PROVE  DirectInv' /\ Direct!LoadsWhole
<1>1. DirectTyped
    BY DEF DirectInv
<1>2. Direct!Busy => run.op = "apply" /\ DirectWorks
    BY DEF DirectInv, DirectTyped, DirectRuns, Direct!Busy
<1>9. trouble \in Nat /\ trouble' \in Nat /\ (Direct!Trouble => trouble' # trouble)
    BY <1>1 DEF DirectTyped, Direct!Next, Direct!vars, Direct!Applies, Direct!Changes, Direct!CommandFails,
       Direct!Killed, Direct!Reboots, Direct!Disturbed, Direct!OthersReload, Direct!Trouble
<1>3. CASE Direct!Applies
    <2>1. UNCHANGED <<s1, s2>> /\ run' = [Direct!Idle EXCEPT !.op = "apply", !.original = s1]
          /\ outcome' = [end |-> "running", original |-> s1]
        BY <1>3 DEF Direct!Applies
    <2>2. run' = [op |-> "apply", phase |-> "main", i |-> 1, original |-> s1, changed |-> {}]
        BY <2>1 DEF Direct!Idle
    <2>5. s1 \in DirectFiles
        BY <1>1 DEF DirectTyped
    <2>3. run' \in DirectRuns /\ run'.phase = "main" /\ run'.i = 1 /\ outcome'.end = "running"
        <3> DEFINE none == {}
        <3>1. none \in SUBSET Direct!FILES /\ run' = [op |-> "apply", phase |-> "main", i |-> 1, original |-> s1, changed |-> none]
            BY <2>2
        <3> HIDE DEF none
        <3>2. run' \in DirectRuns /\ run'.phase = "main" /\ run'.i = 1
            BY <2>5, <3>1 DEF DirectRuns
        <3>3. outcome'.end = "running"
            BY <2>1
        <3> QED BY <3>2, <3>3
    <2>4. DirectWorks'
        BY <2>3 DEF DirectWorks
    <2> QED BY <1>1, <1>9, <2>1, <2>3, <2>4 DEF DirectInv, DirectTyped, Direct!NginxReportIsTrue, Direct!LoadsWhole
<1>4. CASE Direct!Changes
    <2>1. run.op = "apply"
        BY <1>2, <1>4 DEF Direct!Changes
    <2>2. CASE Direct!Acts /\ Direct!Goes
        BY <1>9, <2>1, <2>2, DirectGoesOn DEF Direct!LoadsWhole
    <2>3. CASE Direct!Fails /\ UNCHANGED <<s1, s2>>
        BY <1>1, <1>9, <2>1, <2>3, DirectFailsBack DEF Direct!LoadsWhole, DirectTyped
    <2> QED BY <1>4, <2>2, <2>3 DEF Direct!Changes
<1>5. CASE Direct!CommandFails
    <2>1. run.op = "apply" /\ DirectWorks /\ Direct!Fails /\ (Direct!Acts \/ UNCHANGED <<s1, s2>>)
        BY <1>2, <1>5 DEF Direct!CommandFails
    <2>2. s1' \in DirectFiles
        BY <1>1, <2>1, DirectActs DEF DirectTyped
    <2>3. DirectInv'
        BY <1>9, <2>1, <2>2, DirectFailsBack
    <2> QED BY <1>5, <2>3, <1>9 DEF Direct!CommandFails, Direct!LoadsWhole
<1>6. CASE Direct!Killed \/ Direct!Reboots
    <2>1. s1' = s1 /\ Direct!Reports("cut") /\ Direct!Trouble
        BY <1>6 DEF Direct!Killed, Direct!Reboots
    <2>2. run' \in DirectRuns /\ run'.op = "idle" /\ outcome'.end = "cut"
        BY <2>1, DirectReports
    <2>3. DirectInv'
        BY <1>1, <1>9, <2>1, <2>2 DEF DirectInv, DirectTyped, Direct!NginxReportIsTrue
    <2> QED BY <1>9, <2>1, <2>3 DEF Direct!LoadsWhole
<1>7. CASE Direct!OthersReload
    <2>1. s2 # Direct!Down /\ s2' = s1 /\ UNCHANGED <<s1, run, outcome>> /\ Direct!Trouble
        BY <1>7 DEF Direct!OthersReload
    <2>2. run.op = "apply" => DirectWorks'
        <3>1. run.phase = "main" /\ run.i = 8 /\ DirectWorks => s1 = Direct!New
            BY <1>1, DirectWhole, DirectNew DEF DirectWorks, DirectTyped, Direct!FILES
        <3> QED BY <2>1, <3>1 DEF DirectInv, DirectWorks
    <2>3. Direct!NginxReportIsTrue'
        BY <2>1 DEF DirectInv, Direct!NginxReportIsTrue
    <2> QED BY <1>1, <1>9, <2>1, <2>2, <2>3 DEF DirectInv, DirectTyped, Direct!LoadsWhole
<1>8. CASE Direct!Disturbed \/ UNCHANGED Direct!vars
    <2>1. UNCHANGED <<s1, s2, run, outcome>>
        BY <1>8 DEF Direct!Disturbed, Direct!vars
    <2>2. DirectInv'
        BY <1>9, <2>1 DEF DirectInv, DirectTyped, DirectWorks, Direct!NginxReportIsTrue
    <2> QED BY <2>1, <2>2 DEF Direct!LoadsWhole
<1> QED BY <1>3, <1>4, <1>5, <1>6, <1>7, <1>8 DEF Direct!Next

LEMMA DirectInit ==
    ASSUME Init, tool = "direct"
    PROVE  DirectInv
<1>1. Direct!Init
    BY DEF Init
<1> QED BY <1>1, DirectNew
    DEF Direct!Init, Direct!Idle, DirectInv, DirectTyped, DirectRuns, DirectFiles, Direct!NginxReportIsTrue

LEMMA DirectInvariance == Spec => [](tool = "direct" => DirectInv)
<1>1. Init => (tool = "direct" => DirectInv)
    BY DirectInit
<1>2. (tool = "direct" => DirectInv) /\ [Next]_vars => (tool = "direct" => DirectInv)'
    BY OneTool, DirectStep
<1> QED BY <1>1, <1>2, PTL DEF Spec

(* What the installation reports is on disk and loaded, and whatever fails or *)
(* is killed between the four files, the tool never loads some of the new     *)
(* ones without the others (install-nginx-direct-v1.py, run_locked_cutover).   *)
THEOREM NginxStaysWhole == Spec => NginxIsWhole
<1>1. (tool = "direct" => DirectInv) => (tool = "direct" => Direct!NginxReportIsTrue)
    BY DEF DirectInv
<1>2. (tool = "direct" => DirectInv) /\ [Next]_vars => [tool = "direct" => Direct!LoadsWhole]_vars
    BY OneTool, DirectStep
<1> QED BY <1>1, <1>2, DirectInvariance, PTL DEF Spec, NginxIsWhole

-----------------------------------------------------------------------------
(* The sync canary and the cutover of port 3021. *)

RelayOn(u)   == s1[u].active
RelayKept(u) == s1[u].enabled
BoxUp(u)     == s2[u].state = "up"

RelayUnits   == [Canary!Relays -> [active : BOOLEAN, enabled : BOOLEAN]]
RelayBoxes   == [Canary!Relays -> [state : {"absent", "up", "stopped"}, image : Nat \X Nat]]
ReleaseHeads == [commit : Nat, inputs : Nat]
ImageNotes   == [image : Nat \X Nat, at : ReleaseHeads]
PortOps      == {"prepare", "start", "promote", "rollback"}
PortRuns ==
    [op : PortOps \cup {"idle"}, phase : {"main", "undo"}, i : Nat, want : Nat \X Nat,
     at : ReleaseHeads \cup {0}]

(* The port has the relay that can have it.                                  *)
PortServed ==
    /\ s3 \in Canary!Stable \cup {"nobody"}
    /\ s3 \in Canary!Stable => RelayOn(s3) /\ BoxUp(s3)
    /\ s3 = "nobody" => \A u \in Canary!Stable : ~(RelayOn(u) /\ BoxUp(u))

HostTyped  == s1 \in RelayUnits /\ s2 \in RelayBoxes /\ PortServed
ImageTyped == s4 \in ReleaseHeads /\ s5 \in Nat \X Nat /\ s6 \in ImageNotes \cup {None} /\ s9 \in Nat
PortTyped  == HostTyped /\ ImageTyped /\ s8 \in BOOLEAN /\ run \in PortRuns

(* A commit of before: no later one takes a change of the inputs back.        *)
Past(h) ==
    /\ h.commit <= s4.commit /\ h.inputs <= s4.inputs
    /\ h.commit = s4.commit => h.inputs = s4.inputs

(* An image is built from the inputs of the commit it is noted with, or of a  *)
(* later one.                                                                *)
BuiltSince(img, h) == h.inputs <= img[2] /\ img[2] <= s4.inputs

NoteHolds == s6 # None => Past(s6.at) /\ BuiltSince(s6.image, s6.at)

PromoteAt(i) ==
    /\ i \in 1..17
    /\ i <= 4 => s5 = s2["canary"].image /\ s5[2] = run.at.inputs
    /\ i <= 16 => RelayKept("legacy")
    /\ i <= 14 => BoxUp("legacy")
    /\ i >= 2 => ~RelayOn("legacy")
    /\ i >= 5 => BoxUp("stable")
    /\ i >= 7 => RelayOn("stable")
    /\ i >= 10 => RelayKept("stable")
    /\ i >= 17 => ~RelayKept("legacy")

(* recover_legacy and rollback *)
LegacyAt(i) ==
    /\ i \in 1..10
    /\ i >= 2 => ~RelayOn("stable")
    /\ i >= 3 => ~RelayKept("stable")
    /\ i >= 7 => BoxUp("legacy")
    /\ i >= 8 => RelayKept("legacy")
    /\ i >= 9 => RelayOn("legacy")

StableAt(i) ==
    /\ i \in 1..9
    /\ ~s8 /\ i >= 2 => ~RelayOn("legacy")
    /\ ~s8 /\ i >= 3 => ~RelayKept("legacy")
    /\ i >= 5 => BoxUp("stable")
    /\ i >= 7 => RelayOn("stable")
    /\ i >= 8 => RelayKept("stable")

PortWorks ==
    /\ run.at \in ReleaseHeads /\ Past(run.at)
    /\ \/ /\ run.op = "prepare" /\ run.phase = "main" /\ run.i \in 1..4
          /\ run.i >= 2 => BuiltSince(run.want, run.at)
       \/ run.op = "start" /\ run.phase = "main" /\ run.i \in 1..6 /\ RelayKept("legacy") /\ BoxUp("legacy")
       \/ run.op = "start" /\ run.phase = "undo" /\ run.i \in 1..2 /\ (s8 \/ run.i = 1 \/ ~RelayOn("canary"))
       \/ run.op = "promote" /\ run.phase = "main" /\ PromoteAt(run.i)
       \/ run.op = "promote" /\ run.phase = "undo" /\ LegacyAt(run.i)
       \/ run.op = "rollback" /\ run.phase = "main" /\ LegacyAt(run.i)
       \/ run.op = "rollback" /\ run.phase = "undo" /\ StableAt(run.i)

PortInv ==
    /\ PortTyped /\ NoteHolds
    /\ run.op # "idle" => PortWorks
    /\ Canary!ReportIsTrue

LEMMA StartCommands ==
    ASSUME run.op = "start"
    PROVE  /\ run.phase = "main" =>
                 /\ Len(Canary!Program(run.op, run.phase)) = 6
                 /\ run.i = 1 => Canary!Verb = "up" /\ Canary!Command[2] = "canary"
                 /\ run.i = 3 => Canary!Verb = "start" /\ Canary!Command[2] = "canary"
                 /\ run.i \in {2, 4, 5, 6} => Canary!Verb \in Canary!Checks
           /\ run.phase = "undo" =>
                 /\ Len(Canary!Program(run.op, run.phase)) = 2
                 /\ run.i = 1 => Canary!Verb = "stop" /\ Canary!Command[2] = "canary"
                 /\ run.i = 2 => Canary!Verb = "halt" /\ Canary!Command[2] = "canary"
<1>1. CASE run.phase = "main"
    <2>1. Canary!Program(run.op, run.phase) = Canary!Starting
        BY <1>1 DEF Canary!Program
    <2> QED BY <1>1, <2>1 DEF Canary!Starting, Canary!Verb, Canary!Command, Canary!Checks
<1>2. CASE run.phase = "undo"
    <2>1. Canary!Program(run.op, run.phase) = Canary!StoppingCanary
        BY <1>2 DEF Canary!Program
    <2> QED BY <1>2, <2>1 DEF Canary!StoppingCanary, Canary!Verb, Canary!Command
<1> QED BY <1>1, <1>2

LEMMA PrepareCommands ==
    ASSUME run.op = "prepare", run.phase = "main"
    PROVE  /\ Len(Canary!Program(run.op, run.phase)) = 4
           /\ run.i = 1 => Canary!Verb = "build"
           /\ run.i = 2 => Canary!Verb = "tag"
           /\ run.i = 3 => Canary!Verb = "attest"
           /\ run.i = 4 => Canary!Verb = "write"
<1>1. Canary!Program(run.op, run.phase) = Canary!Preparing
    BY DEF Canary!Program
<1> QED BY <1>1 DEF Canary!Preparing, Canary!Verb, Canary!Command

LEMMA PromoteCommands ==
    ASSUME run.op = "promote", run.phase = "main"
    PROVE  /\ Len(Canary!Program(run.op, run.phase)) = 17
           /\ run.i = 1 => Canary!Verb = "stop" /\ Canary!Command[2] = "legacy"
           /\ run.i = 4 => Canary!Verb = "up" /\ Canary!Command[2] = "stable"
           /\ run.i = 6 => Canary!Verb = "start" /\ Canary!Command[2] = "stable"
           /\ run.i = 9 => Canary!Verb = "enable" /\ Canary!Command[2] = "stable"
           /\ run.i = 11 => Canary!Verb = "stop" /\ Canary!Command[2] = "canary"
           /\ run.i = 13 => Canary!Verb = "halt" /\ Canary!Command[2] = "canary"
           /\ run.i = 14 => Canary!Verb = "halt" /\ Canary!Command[2] = "legacy"
           /\ run.i = 16 => Canary!Verb = "disable" /\ Canary!Command[2] = "legacy"
           /\ run.i \in {2, 3, 5, 7, 8, 10, 12, 15, 17} => Canary!Verb \in Canary!Checks
<1>1. Canary!Program(run.op, run.phase) = Canary!Promoting
    BY DEF Canary!Program
<1> QED BY <1>1 DEF Canary!Promoting, Canary!Verb, Canary!Command, Canary!Checks

LEMMA LegacyCommands ==
    ASSUME \/ run.op = "promote" /\ run.phase = "undo"
           \/ run.op = "rollback" /\ run.phase = "main"
    PROVE  /\ Len(Canary!Program(run.op, run.phase)) = 10
           /\ run.i = 1 => Canary!Verb = "stop" /\ Canary!Command[2] = "stable"
           /\ run.i = 2 => Canary!Verb = "disable" /\ Canary!Command[2] = "stable"
           /\ run.i = 5 => Canary!Verb = "halt" /\ Canary!Command[2] = "stable"
           /\ run.i = 6 => Canary!Verb = "revive"
           /\ run.i = 7 => Canary!Verb = "enable" /\ Canary!Command[2] = "legacy"
           /\ run.i = 8 => Canary!Verb = "start" /\ Canary!Command[2] = "legacy"
           /\ run.i \in {3, 4, 9, 10} => Canary!Verb \in Canary!Checks
<1>1. \/ Canary!Program(run.op, run.phase) = Canary!RecoveringLegacy
      \/ Canary!Program(run.op, run.phase) = Canary!RollingBack
    BY DEF Canary!Program
<1>2. CASE Canary!Program(run.op, run.phase) = Canary!RecoveringLegacy
    BY <1>2 DEF Canary!RecoveringLegacy, Canary!Verb, Canary!Command, Canary!Checks
<1>3. CASE Canary!Program(run.op, run.phase) = Canary!RollingBack
    BY <1>3 DEF Canary!RollingBack, Canary!Verb, Canary!Command, Canary!Checks
<1> QED BY <1>1, <1>2, <1>3

LEMMA StableCommands ==
    ASSUME run.op = "rollback", run.phase = "undo"
    PROVE  /\ Len(Canary!Program(run.op, run.phase)) = 9
           /\ run.i = 1 => Canary!Verb = "stop" /\ Canary!Command[2] = "legacy"
           /\ run.i = 2 => Canary!Verb = "disable" /\ Canary!Command[2] = "legacy"
           /\ run.i = 3 => Canary!Verb = "halt" /\ Canary!Command[2] = "legacy"
           /\ run.i = 4 => Canary!Verb = "up" /\ Canary!Command[2] = "stable"
           /\ run.i = 6 => Canary!Verb = "start" /\ Canary!Command[2] = "stable"
           /\ run.i = 7 => Canary!Verb = "enable" /\ Canary!Command[2] = "stable"
           /\ run.i \in {5, 8, 9} => Canary!Verb \in Canary!Checks
<1>1. Canary!Program(run.op, run.phase) = Canary!RestoringStable
    BY DEF Canary!Program
<1> QED BY <1>1 DEF Canary!RestoringStable, Canary!Verb, Canary!Command, Canary!Checks

(* What the host becomes. *)
LEMMA PortTakes ==
    ASSUME NEW units \in RelayUnits, NEW boxes \in RelayBoxes, Canary!Becomes(units, boxes),
           s3 \in Canary!Stable \cup {"nobody"}
    PROVE  s1' = units /\ s2' = boxes /\ HostTyped'
<1>1. s1' = units /\ s2' = boxes /\ s3' \in Canary!Takes(units, boxes)
    BY DEF Canary!Becomes
<1> DEFINE able == {u \in Canary!Stable : units[u].active /\ boxes[u].state = "up"}
<1>2. \/ s3' \in able
      \/ able = {} /\ s3' = "nobody"
    BY <1>1 DEF Canary!Takes
<1>3. "nobody" \notin Canary!Stable
    BY DEF Canary!Stable
<1> QED BY <1>1, <1>2, <1>3 DEF HostTyped, PortServed, RelayOn, BoxUp

(* The effects of the commands on relays and containers, c being the command's *)
(* relay.                                                                    *)
LEMMA PortActs ==
    ASSUME PortTyped, Canary!Acts, Canary!Verb \notin Canary!Checks, NEW c \in Canary!Relays,
           Canary!Verb \in {"stop", "start", "disable", "enable", "halt", "up"} => Canary!Command[2] = c
    PROVE  /\ HostTyped'
           /\ Canary!Verb \in {"stop", "start", "disable", "enable"} => s2' = s2
           /\ Canary!Verb \in {"halt", "up", "revive"} => s1' = s1
           /\ \A u \in Canary!Relays : u # c => s1'[u] = s1[u] /\ (Canary!Verb # "revive" => s2'[u] = s2[u])
           /\ Canary!Verb = "stop" => ~RelayOn(c)' /\ (RelayKept(c)' <=> RelayKept(c))
           /\ Canary!Verb = "start" => RelayOn(c)' /\ (RelayKept(c)' <=> RelayKept(c))
           /\ Canary!Verb = "disable" => ~RelayKept(c)' /\ (RelayOn(c)' <=> RelayOn(c))
           /\ Canary!Verb = "enable" => RelayKept(c)' /\ (RelayOn(c)' <=> RelayOn(c))
           /\ Canary!Verb = "halt" => ~BoxUp(c)'
           /\ Canary!Verb = "up" => BoxUp(c)' /\ s2'[c].image = s5
           /\ Canary!Verb = "revive" => BoxUp("legacy")' /\ \A u \in Canary!Relays : u # "legacy" => s2'[u] = s2[u]
           /\ Canary!Verb \in {"build", "tag", "write"} => UNCHANGED <<s1, s2, s3>>
<1>1. s1 \in RelayUnits /\ s2 \in RelayBoxes /\ s3 \in Canary!Stable \cup {"nobody"} /\ s5 \in Nat \X Nat
    BY DEF PortTyped, HostTyped, PortServed, ImageTyped
<1>2. ASSUME NEW b \in BOOLEAN
      PROVE  /\ [s1 EXCEPT ![c].active = b] \in RelayUnits /\ [s1 EXCEPT ![c].enabled = b] \in RelayUnits
             /\ [s1 EXCEPT ![c].active = b][c].active = b
             /\ [s1 EXCEPT ![c].active = b][c].enabled = s1[c].enabled
             /\ [s1 EXCEPT ![c].enabled = b][c].enabled = b
             /\ [s1 EXCEPT ![c].enabled = b][c].active = s1[c].active
             /\ \A u \in Canary!Relays : u # c => [s1 EXCEPT ![c].active = b][u] = s1[u]
             /\ \A u \in Canary!Relays : u # c => [s1 EXCEPT ![c].enabled = b][u] = s1[u]
    BY <1>1 DEF RelayUnits
<1>3. CASE Canary!Verb = "stop"
    <2>1. Canary!Becomes([s1 EXCEPT ![c].active = FALSE], s2)
        BY <1>3 DEF Canary!Acts
    <2>2. s1' = [s1 EXCEPT ![c].active = FALSE] /\ s2' = s2 /\ HostTyped'
        BY <1>1, <1>2, <2>1, PortTakes
    <2> QED BY <1>2, <1>3, <2>2 DEF RelayOn, RelayKept
<1>4. CASE Canary!Verb = "start"
    <2>1. Canary!Becomes([s1 EXCEPT ![c].active = TRUE], s2)
        BY <1>4 DEF Canary!Acts
    <2>2. s1' = [s1 EXCEPT ![c].active = TRUE] /\ s2' = s2 /\ HostTyped'
        BY <1>1, <1>2, <2>1, PortTakes
    <2> QED BY <1>2, <1>4, <2>2 DEF RelayOn, RelayKept
<1>5. CASE Canary!Verb = "disable"
    <2>1. Canary!Becomes([s1 EXCEPT ![c].enabled = FALSE], s2)
        BY <1>5 DEF Canary!Acts
    <2>2. s1' = [s1 EXCEPT ![c].enabled = FALSE] /\ s2' = s2 /\ HostTyped'
        BY <1>1, <1>2, <2>1, PortTakes
    <2> QED BY <1>2, <1>5, <2>2 DEF RelayOn, RelayKept
<1>6. CASE Canary!Verb = "enable"
    <2>1. Canary!Becomes([s1 EXCEPT ![c].enabled = TRUE], s2)
        BY <1>6 DEF Canary!Acts
    <2>2. s1' = [s1 EXCEPT ![c].enabled = TRUE] /\ s2' = s2 /\ HostTyped'
        BY <1>1, <1>2, <2>1, PortTakes
    <2> QED BY <1>2, <1>6, <2>2 DEF RelayOn, RelayKept
<1>7. CASE Canary!Verb = "halt"
    <2> DEFINE st == IF s2[c].state = "up" THEN "stopped" ELSE s2[c].state
    <2>1. Canary!Becomes(s1, [s2 EXCEPT ![c].state = st])
        BY <1>7 DEF Canary!Acts
    <2>2. st \in {"absent", "stopped"}
        BY <1>1 DEF RelayBoxes
    <2> HIDE DEF st
    <2>3. /\ [s2 EXCEPT ![c].state = st] \in RelayBoxes /\ [s2 EXCEPT ![c].state = st][c].state = st
          /\ \A u \in Canary!Relays : u # c => [s2 EXCEPT ![c].state = st][u] = s2[u]
        BY <1>1, <2>2 DEF RelayBoxes
    <2>4. s1' = s1 /\ s2' = [s2 EXCEPT ![c].state = st] /\ HostTyped'
        BY <1>1, <2>1, <2>3, PortTakes
    <2> QED BY <1>7, <2>2, <2>3, <2>4 DEF BoxUp
<1>8. CASE Canary!Verb = "up"
    <2>1. Canary!Becomes(s1, [s2 EXCEPT ![c] = [state |-> "up", image |-> s5]])
        BY <1>8 DEF Canary!Acts
    <2>2. /\ [s2 EXCEPT ![c] = [state |-> "up", image |-> s5]] \in RelayBoxes
          /\ [s2 EXCEPT ![c] = [state |-> "up", image |-> s5]][c].state = "up"
          /\ [s2 EXCEPT ![c] = [state |-> "up", image |-> s5]][c].image = s5
          /\ \A u \in Canary!Relays : u # c => [s2 EXCEPT ![c] = [state |-> "up", image |-> s5]][u] = s2[u]
        BY <1>1 DEF RelayBoxes
    <2>3. s1' = s1 /\ s2' = [s2 EXCEPT ![c] = [state |-> "up", image |-> s5]] /\ HostTyped'
        BY <1>1, <2>1, <2>2, PortTakes
    <2> QED BY <1>8, <2>2, <2>3 DEF BoxUp
<1>9. CASE Canary!Verb = "revive"
    <2>1. Canary!Becomes(s1, [s2 EXCEPT !["legacy"].state = "up"])
        BY <1>9 DEF Canary!Acts
    <2>2. /\ [s2 EXCEPT !["legacy"].state = "up"] \in RelayBoxes /\ [s2 EXCEPT !["legacy"].state = "up"]["legacy"].state = "up"
          /\ \A u \in Canary!Relays : u # "legacy" => [s2 EXCEPT !["legacy"].state = "up"][u] = s2[u]
        BY <1>1 DEF RelayBoxes, Canary!Relays
    <2>3. s1' = s1 /\ s2' = [s2 EXCEPT !["legacy"].state = "up"] /\ HostTyped'
        BY <1>1, <2>1, <2>2, PortTakes
    <2> QED BY <1>9, <2>2, <2>3 DEF BoxUp
<1>10. CASE Canary!Verb \notin {"stop", "start", "disable", "enable", "halt", "up", "revive"}
    <2>1. UNCHANGED <<s1, s2, s3>>
        BY <1>10 DEF Canary!Acts, Canary!host
    <2> QED BY <1>10, <2>1 DEF PortTyped, HostTyped, PortServed, RelayOn, BoxUp
<1> QED BY <1>3, <1>4, <1>5, <1>6, <1>7, <1>8, <1>9, <1>10

(* Where the tool goes. *)
LEMMA PortReports ==
    ASSUME NEW end, Canary!Reports(end)
    PROVE  run' \in PortRuns /\ run'.op = "idle" /\ outcome' = [op |-> run.op, end |-> end]
BY DEF PortRuns, Canary!Reports, Canary!Idle, Canary!NoImage

LEMMA PortGoes ==
    ASSUME PortTyped, NEW n \in Nat, Len(Canary!Program(run.op, run.phase)) = n, Canary!Goes
    PROVE  \/ /\ run.i < n /\ run' \in PortRuns /\ run'.op = run.op /\ run'.phase = run.phase
              /\ run'.i = run.i + 1 /\ run'.at = run.at /\ run'.want = Canary!Built /\ outcome' = outcome
           \/ run.i >= n /\ Canary!Reports(IF run.phase = "main" THEN "done" ELSE "undone")
<1>1. run \in PortRuns /\ run.i \in Nat
    BY DEF PortTyped, PortRuns
<1>2. CASE run.i < n
    <2>1. run' = [run EXCEPT !.i = run.i + 1, !.want = Canary!Built] /\ outcome' = outcome
        BY <1>2 DEF Canary!Goes
    <2>2. Canary!Built \in Nat \X Nat
        BY <1>1 DEF Canary!Built, PortTyped, ImageTyped, ReleaseHeads, PortRuns
    <2>3. run' = [op |-> run.op, phase |-> run.phase, i |-> run.i + 1, want |-> Canary!Built, at |-> run.at]
        BY <1>1, <2>1 DEF PortRuns
    <2> QED BY <1>1, <1>2, <2>1, <2>2, <2>3 DEF PortRuns
<1>3. CASE run.i >= n
    <2>1. ~(run.i < Len(Canary!Program(run.op, run.phase)))
        BY <1>1, <1>3
    <2> QED BY <1>3, <2>1 DEF Canary!Goes
<1> QED BY <1>1, <1>2, <1>3

LEMMA PortFails ==
    ASSUME PortTyped, Canary!Fails
    PROVE  \/ Canary!PassedOver /\ Canary!Goes /\ s8' = TRUE
           \/ /\ s8' = s8 /\ run.phase = "main" /\ run.op # "prepare" /\ run' \in PortRuns /\ run'.op = run.op
              /\ run'.phase = "undo" /\ run'.i = 1 /\ run'.at = run.at /\ outcome' = outcome
           \/ s8' = s8 /\ Canary!Reports("lost")
<1>1. run \in PortRuns
    BY DEF PortTyped
<1>2. CASE Canary!PassedOver
    BY <1>2 DEF Canary!Fails
<1>3. CASE ~Canary!PassedOver /\ run.phase = "main" /\ run.op # "prepare"
    <2>1. /\ run' = [op |-> run.op, phase |-> "undo", i |-> 1, want |-> run.want, at |-> run.at]
          /\ outcome' = outcome /\ s8' = s8
        BY <1>1, <1>3 DEF Canary!Fails, PortRuns
    <2> QED BY <1>1, <1>3, <2>1 DEF PortRuns
<1>4. CASE ~Canary!PassedOver /\ ~(run.phase = "main" /\ run.op # "prepare")
    BY <1>4 DEF Canary!Fails
<1> QED BY <1>2, <1>3, <1>4

(* What the checks of the relays say, one flag at a time.                     *)
LEMMA RelayFlags ==
    ASSUME s1 \in RelayUnits, NEW u \in Canary!Relays
    PROVE  /\ RelayOn(u) /\ RelayKept(u) => Canary!RelayIs(u, TRUE, TRUE)
           /\ ~RelayOn(u) /\ ~RelayKept(u) => Canary!RelayIs(u, FALSE, FALSE)
           /\ Canary!RelayIs(u, TRUE, TRUE) => RelayOn(u) /\ RelayKept(u)
<1>1. s1[u] \in [active : BOOLEAN, enabled : BOOLEAN]
    BY DEF RelayUnits
<1>2. s1[u] = [active |-> s1[u].active, enabled |-> s1[u].enabled]
    BY <1>1
<1>3. (RelayOn(u) <=> s1[u].active = TRUE) /\ (RelayKept(u) <=> s1[u].enabled = TRUE)
    BY <1>1 DEF RelayOn, RelayKept
<1>4. (~RelayOn(u) <=> s1[u].active = FALSE) /\ (~RelayKept(u) <=> s1[u].enabled = FALSE)
    BY <1>1 DEF RelayOn, RelayKept
<1>5. CASE RelayOn(u) /\ RelayKept(u)
    BY <1>2, <1>3, <1>5 DEF Canary!RelayIs
<1>6. CASE ~RelayOn(u) /\ ~RelayKept(u)
    <2>1. s1[u] = [active |-> FALSE, enabled |-> FALSE]
        BY <1>2, <1>4, <1>6
    <2>2. s1[u] # [active |-> TRUE, enabled |-> TRUE]
        BY <1>4, <1>6
    <2> QED BY <1>6, <2>1, <2>2 DEF Canary!RelayIs
<1>7. CASE ~(RelayOn(u) <=> RelayKept(u))
    <2>1. s1[u] # [active |-> TRUE, enabled |-> TRUE]
        BY <1>3, <1>7
    <2> QED BY <1>7, <2>1 DEF Canary!RelayIs
<1> QED BY <1>5, <1>6, <1>7

(* The one relay of port 3021 that is on and has its container has the port.  *)
LEMMA OneServes ==
    ASSUME HostTyped, NEW u \in Canary!Stable, NEW v \in Canary!Stable, u # v,
           RelayOn(u), RelayKept(u), BoxUp(u), ~RelayOn(v), ~RelayKept(v)
    PROVE  Canary!ServedBy(u) /\ Canary!RelayIs(v, FALSE, FALSE)
<1>1. u \in Canary!Relays /\ v \in Canary!Relays /\ s1 \in RelayUnits
    BY DEF Canary!Stable, Canary!Relays, HostTyped
<1>2. s3 = u
    BY DEF HostTyped, PortServed, Canary!Stable
<1> QED BY <1>1, <1>2, RelayFlags DEF Canary!ServedBy

(* What an operation that ends has to show.                                  *)
PortShows(op, end) ==
    /\ <<op, end>> \in {<<"promote", "done">>, <<"rollback", "undone">>} =>
           Canary!ServedBy("stable") /\ Canary!RelayIs("legacy", FALSE, FALSE)
    /\ <<op, end>> \in {<<"promote", "undone">>, <<"rollback", "done">>} =>
           Canary!ServedBy("legacy") /\ Canary!RelayIs("stable", FALSE, FALSE)
    /\ <<op, end>> = <<"start", "undone">> => ~RelayOn("canary") /\ ~BoxUp("canary")

LEMMA ShownIsTrue ==
    ASSUME NEW op, NEW end, outcome' = [op |-> op, end |-> end], s8' \/ PortShows(op, end)'
    PROVE  Canary!ReportIsTrue'
<1>1. CASE s8'
    BY <1>1 DEF Canary!ReportIsTrue
<1>2. CASE PortShows(op, end)'
    <2>1. ASSUME NEW o, NEW e
          PROVE  outcome' = [op |-> o, end |-> e] => op = o /\ end = e
        BY <2>1
    <2>2. CASE outcome' \in {[op |-> "promote", end |-> "done"], [op |-> "rollback", end |-> "undone"]}
        BY <1>2, <2>1, <2>2 DEF PortShows, Canary!ReportIsTrue
    <2>3. CASE outcome' \in {[op |-> "promote", end |-> "undone"], [op |-> "rollback", end |-> "done"]}
        BY <1>2, <2>1, <2>3 DEF PortShows, Canary!ReportIsTrue
    <2>4. CASE outcome' = [op |-> "start", end |-> "undone"]
        BY <1>2, <2>1, <2>4 DEF PortShows, Canary!ReportIsTrue, RelayOn, BoxUp
    <2> QED BY <2>2, <2>3, <2>4 DEF Canary!ReportIsTrue
<1> QED BY <1>1, <1>2

(* A command of the program is done, or a check passed over it.              *)
PortDoes ==
    \/ Canary!Verb \notin Canary!Checks /\ Canary!Acts
    \/ Canary!Verb \in Canary!Checks /\ UNCHANGED <<s1, s2, s3, s4, s5, s6, s7, s9>>

(* Only the preparation builds, tags and writes the note, the last when the   *)
(* image is there.                                                           *)
LEMMA PortWrites ==
    ASSUME PortInv, run.op # "idle"
    PROVE  /\ Canary!Verb \in {"build", "tag", "write"} => run.op = "prepare"
           /\ Canary!Verb = "write" => BuiltSince(run.want, run.at)
<1>1. PortWorks
    BY DEF PortInv
<1>2. Canary!Verb \in Canary!Checks => Canary!Verb \notin {"build", "tag", "write"}
    BY DEF Canary!Checks
<1>3. CASE run.op = "prepare" /\ run.phase = "main"
    BY <1>1, <1>3, PrepareCommands DEF PortWorks
<1>4. CASE run.op = "start" /\ run.phase = "main"
    <2>1. run.i \in 1..6
        BY <1>1, <1>4 DEF PortWorks
    <2> QED BY <1>2, <1>4, <2>1, StartCommands
<1>5. CASE run.op = "start" /\ run.phase = "undo"
    <2>1. run.i \in 1..2
        BY <1>1, <1>5 DEF PortWorks
    <2> QED BY <1>2, <1>5, <2>1, StartCommands
<1>6. CASE run.op = "promote" /\ run.phase = "main"
    <2>1. run.i \in 1..17
        BY <1>1, <1>6 DEF PortWorks, PromoteAt
    <2> QED BY <1>2, <1>6, <2>1, PromoteCommands
<1>7. CASE \/ run.op = "promote" /\ run.phase = "undo"
           \/ run.op = "rollback" /\ run.phase = "main"
    <2>1. run.i \in 1..10
        BY <1>1, <1>7 DEF PortWorks, LegacyAt
    <2> QED BY <1>2, <1>7, <2>1, LegacyCommands
<1>8. CASE run.op = "rollback" /\ run.phase = "undo"
    <2>1. run.i \in 1..9
        BY <1>1, <1>8 DEF PortWorks, StableAt
    <2> QED BY <1>2, <1>8, <2>1, StableCommands
<1> QED BY <1>1, <1>3, <1>4, <1>5, <1>6, <1>7, <1>8 DEF PortWorks

(* The release tree stays while a command runs; the image and its note are    *)
(* what the preparation makes them.                                          *)
LEMMA PortImage ==
    ASSUME PortInv, run.op # "idle", PortDoes
    PROVE  /\ s4' = s4 /\ ImageTyped' /\ NoteHolds'
           /\ run.op # "prepare" => s5' = s5
<1>1. PortTyped /\ NoteHolds /\ PortWorks
    BY DEF PortInv
<1>2. /\ run.at \in ReleaseHeads /\ run.want \in Nat \X Nat /\ Past(run.at)
      /\ s4 \in ReleaseHeads /\ s5 \in Nat \X Nat /\ s6 \in ImageNotes \cup {None} /\ s9 \in Nat
    BY <1>1 DEF PortTyped, ImageTyped, PortRuns, PortWorks
<1>3. CASE Canary!Acts
    <2>1. /\ s4' = s4 /\ s5' = IF Canary!Verb = "tag" THEN run.want ELSE s5
          /\ s6' = IF Canary!Verb = "write" THEN [image |-> run.want, at |-> run.at] ELSE s6
          /\ s9' = IF Canary!Verb = "build" THEN s9 + 1 ELSE s9
        BY <1>3 DEF Canary!Acts, Canary!Noted
    <2>2. [image |-> run.want, at |-> run.at] \in ImageNotes
        BY <1>2 DEF ImageNotes
    <2>3. ImageTyped'
        BY <1>2, <2>1, <2>2 DEF ImageTyped
    <2>4. CASE Canary!Verb = "write"
        <3>1. BuiltSince(run.want, run.at)
            BY <2>4, PortWrites
        <3>2. s6'.at = run.at /\ s6'.image = run.want
            BY <2>1, <2>4
        <3> QED BY <1>2, <2>1, <2>3, <2>4, <3>1, <3>2, PortWrites DEF NoteHolds, Past, BuiltSince
    <2>5. CASE Canary!Verb # "write"
        BY <1>1, <2>1, <2>3, <2>5, PortWrites DEF NoteHolds, Past, BuiltSince
    <2> QED BY <2>4, <2>5
<1>4. CASE UNCHANGED <<s4, s5, s6, s9>>
    BY <1>1, <1>4 DEF PortTyped, ImageTyped, NoteHolds, Past, BuiltSince
<1> QED BY <1>3, <1>4 DEF PortDoes

(* One command of each program, and what the next may rely on. *)
LEMMA PromoteGoesOn ==
    ASSUME PortInv, run.op = "promote", run.phase = "main", PortDoes, NEW j, j = run.i + 1
    PROVE  /\ HostTyped' /\ Canary!StartsWhatWasProved
           /\ run.i < 17 /\ run'.at = run.at => PromoteAt(j)'
           /\ run.i = 17 => PortShows("promote", "done")'
<1>1. PortTyped /\ PromoteAt(run.i) /\ run.i \in 1..17
    BY DEF PortInv, PortWorks, PromoteAt
<1>2. s5' = s5
    BY PortImage
<1>3. {"legacy", "canary", "stable"} \subseteq Canary!Relays
    BY DEF Canary!Relays
<1>4. Canary!Verb # "revive"
    BY <1>1, PromoteCommands DEF Canary!Checks
<1>5. CASE Canary!Verb \in Canary!Checks
    <2>1. UNCHANGED <<s1, s2, s3>> /\ run.i \in {2, 3, 5, 7, 8, 10, 12, 15, 17}
        BY <1>1, <1>5, PromoteCommands DEF PortDoes, Canary!Checks
    <2>2. HostTyped'
        BY <1>1, <2>1 DEF PortTyped, HostTyped, PortServed, RelayOn, BoxUp
    <2>3. run.i < 17 /\ run'.at = run.at => PromoteAt(j)'
        BY <1>1, <1>2, <2>1 DEF PromoteAt, RelayOn, RelayKept, BoxUp
    <2>4. run.i = 17 => PortShows("promote", "done")'
        <3> SUFFICES ASSUME run.i = 17
                     PROVE  PortShows("promote", "done")'
            OBVIOUS
        <3>1. HostTyped /\ RelayOn("stable") /\ RelayKept("stable") /\ BoxUp("stable") /\ ~RelayOn("legacy") /\ ~RelayKept("legacy")
            BY <1>1 DEF PromoteAt, PortTyped
        <3>2. Canary!ServedBy("stable") /\ Canary!RelayIs("legacy", FALSE, FALSE)
            BY <3>1, OneServes DEF Canary!Stable
        <3> QED BY <2>1, <3>2 DEF PortShows, Canary!ServedBy, Canary!RelayIs
    <2> QED BY <2>1, <2>2, <2>3, <2>4 DEF Canary!StartsWhatWasProved
<1>6. CASE Canary!Verb \notin Canary!Checks
    <2>1. Canary!Acts
        BY <1>6 DEF PortDoes
    <2>2. CASE run.i = 1
        <3>1. HostTyped' /\ s2' = s2 /\ ~RelayOn("legacy")' /\ (RelayKept("legacy")' <=> RelayKept("legacy"))
            BY <1>1, <1>3, <1>4, <1>6, <2>1, <2>2, PromoteCommands, PortActs
        <3> QED BY <1>1, <1>2, <2>2, <3>1 DEF PromoteAt, BoxUp, Canary!StartsWhatWasProved
    <2>3. CASE run.i = 4
        <3>1. /\ HostTyped' /\ s1' = s1 /\ s2'["legacy"] = s2["legacy"] /\ s2'["canary"] = s2["canary"]
              /\ BoxUp("stable")' /\ s2'["stable"].image = s5
            BY <1>1, <1>3, <1>4, <1>6, <2>1, <2>3, PromoteCommands, PortActs
        <3> QED BY <1>1, <1>2, <2>3, <3>1 DEF PromoteAt, RelayOn, RelayKept, BoxUp, Canary!StartsWhatWasProved
    <2>4. CASE run.i = 6
        <3>1. HostTyped' /\ s2' = s2 /\ s1'["legacy"] = s1["legacy"] /\ RelayOn("stable")'
            BY <1>1, <1>3, <1>4, <1>6, <2>1, <2>4, PromoteCommands, PortActs
        <3> QED BY <1>1, <1>2, <2>4, <3>1 DEF PromoteAt, RelayOn, RelayKept, BoxUp, Canary!StartsWhatWasProved
    <2>5. CASE run.i = 9
        <3>1. /\ HostTyped' /\ s2' = s2 /\ s1'["legacy"] = s1["legacy"] /\ RelayKept("stable")'
              /\ (RelayOn("stable")' <=> RelayOn("stable"))
            BY <1>1, <1>3, <1>4, <1>6, <2>1, <2>5, PromoteCommands, PortActs
        <3>2. RelayOn("stable")'
            BY <1>1, <2>5, <3>1 DEF PromoteAt
        <3> QED BY <1>1, <1>2, <2>5, <3>1, <3>2 DEF PromoteAt, RelayOn, RelayKept, BoxUp, Canary!StartsWhatWasProved
    <2>6. CASE run.i \in {11, 13}
        <3>1. /\ HostTyped' /\ s2'["legacy"] = s2["legacy"] /\ s2'["stable"] = s2["stable"]
              /\ s1'["legacy"] = s1["legacy"] /\ s1'["stable"] = s1["stable"]
            BY <1>1, <1>3, <1>4, <1>6, <2>1, <2>6, PromoteCommands, PortActs
        <3> QED BY <1>1, <1>2, <2>6, <3>1 DEF PromoteAt, RelayOn, RelayKept, BoxUp, Canary!StartsWhatWasProved
    <2>7. CASE run.i = 14
        <3>1. HostTyped' /\ s1' = s1 /\ s2'["stable"] = s2["stable"]
            BY <1>1, <1>3, <1>4, <1>6, <2>1, <2>7, PromoteCommands, PortActs
        <3> QED BY <1>1, <1>2, <2>7, <3>1 DEF PromoteAt, RelayOn, RelayKept, BoxUp, Canary!StartsWhatWasProved
    <2>8. CASE run.i = 16
        <3>1. /\ HostTyped' /\ s2' = s2 /\ s1'["stable"] = s1["stable"] /\ ~RelayKept("legacy")'
              /\ (RelayOn("legacy")' <=> RelayOn("legacy"))
            BY <1>1, <1>3, <1>4, <1>6, <2>1, <2>8, PromoteCommands, PortActs
        <3>2. ~RelayOn("legacy")'
            BY <1>1, <2>8, <3>1 DEF PromoteAt
        <3> QED BY <1>1, <1>2, <2>8, <3>1, <3>2 DEF PromoteAt, RelayOn, RelayKept, BoxUp, Canary!StartsWhatWasProved
    <2> QED BY <1>1, <1>6, <2>2, <2>3, <2>4, <2>5, <2>6, <2>7, <2>8, PromoteCommands
<1> QED BY <1>5, <1>6

LEMMA LegacyGoesOn ==
    ASSUME PortInv, PortDoes, NEW j, j = run.i + 1,
           \/ run.op = "promote" /\ run.phase = "undo"
           \/ run.op = "rollback" /\ run.phase = "main"
    PROVE  /\ HostTyped' /\ Canary!StartsWhatWasProved
           /\ run.i < 10 => LegacyAt(j)'
           /\ run.i = 10 => Canary!ServedBy("legacy")' /\ Canary!RelayIs("stable", FALSE, FALSE)'
<1>1. PortTyped /\ LegacyAt(run.i) /\ run.i \in 1..10
    BY DEF PortInv, PortWorks, LegacyAt
<1>3. {"legacy", "canary", "stable"} \subseteq Canary!Relays
    BY DEF Canary!Relays
<1>5. CASE Canary!Verb \in Canary!Checks
    <2>1. UNCHANGED <<s1, s2, s3>> /\ run.i \in {3, 4, 9, 10}
        BY <1>1, <1>5, LegacyCommands DEF PortDoes, Canary!Checks
    <2>2. HostTyped'
        BY <1>1, <2>1 DEF PortTyped, HostTyped, PortServed, RelayOn, BoxUp
    <2>3. run.i < 10 => LegacyAt(j)'
        BY <1>1, <2>1 DEF LegacyAt, RelayOn, RelayKept, BoxUp
    <2>4. run.i = 10 => Canary!ServedBy("legacy")' /\ Canary!RelayIs("stable", FALSE, FALSE)'
        <3> SUFFICES ASSUME run.i = 10
                     PROVE  Canary!ServedBy("legacy")' /\ Canary!RelayIs("stable", FALSE, FALSE)'
            OBVIOUS
        <3>1. HostTyped /\ RelayOn("legacy") /\ RelayKept("legacy") /\ BoxUp("legacy") /\ ~RelayOn("stable") /\ ~RelayKept("stable")
            BY <1>1 DEF LegacyAt, PortTyped
        <3>2. Canary!ServedBy("legacy") /\ Canary!RelayIs("stable", FALSE, FALSE)
            BY <3>1, OneServes DEF Canary!Stable
        <3> QED BY <2>1, <3>2 DEF Canary!ServedBy, Canary!RelayIs
    <2> QED BY <2>1, <2>2, <2>3, <2>4 DEF Canary!StartsWhatWasProved
<1>6. CASE Canary!Verb \notin Canary!Checks
    <2>1. Canary!Acts
        BY <1>6 DEF PortDoes
    <2>2. CASE run.i = 1
        <3>1. HostTyped' /\ s2' = s2 /\ ~RelayOn("stable")'
            BY <1>1, <1>3, <1>6, <2>1, <2>2, LegacyCommands, PortActs
        <3> QED BY <1>1, <2>2, <3>1 DEF LegacyAt, Canary!StartsWhatWasProved
    <2>3. CASE run.i = 2
        <3>1. HostTyped' /\ s2' = s2 /\ ~RelayKept("stable")' /\ (RelayOn("stable")' <=> RelayOn("stable"))
            BY <1>1, <1>3, <1>6, <2>1, <2>3, LegacyCommands, PortActs
        <3> QED BY <1>1, <2>3, <3>1 DEF LegacyAt, Canary!StartsWhatWasProved
    <2>4. CASE run.i = 5
        <3>1. HostTyped' /\ s1' = s1 /\ ~BoxUp("stable")'
            BY <1>1, <1>3, <1>6, <2>1, <2>4, LegacyCommands, PortActs
        <3> QED BY <1>1, <2>4, <3>1 DEF LegacyAt, RelayOn, RelayKept, BoxUp, Canary!StartsWhatWasProved
    <2>5. CASE run.i = 6
        <3>1. HostTyped' /\ s1' = s1 /\ BoxUp("legacy")' /\ s2'["stable"] = s2["stable"]
            BY <1>1, <1>3, <1>6, <2>1, <2>5, LegacyCommands, PortActs
        <3> QED BY <1>1, <2>5, <3>1 DEF LegacyAt, RelayOn, RelayKept, BoxUp, Canary!StartsWhatWasProved
    <2>6. CASE run.i = 7
        <3>1. HostTyped' /\ s2' = s2 /\ s1'["stable"] = s1["stable"] /\ RelayKept("legacy")'
            BY <1>1, <1>3, <1>6, <2>1, <2>6, LegacyCommands, PortActs
        <3> QED BY <1>1, <2>6, <3>1 DEF LegacyAt, RelayOn, RelayKept, BoxUp, Canary!StartsWhatWasProved
    <2>7. CASE run.i = 8
        <3>1. /\ HostTyped' /\ s2' = s2 /\ s1'["stable"] = s1["stable"] /\ RelayOn("legacy")'
              /\ (RelayKept("legacy")' <=> RelayKept("legacy"))
            BY <1>1, <1>3, <1>6, <2>1, <2>7, LegacyCommands, PortActs
        <3>2. RelayKept("legacy")'
            BY <1>1, <2>7, <3>1 DEF LegacyAt
        <3> QED BY <1>1, <2>7, <3>1, <3>2 DEF LegacyAt, RelayOn, RelayKept, BoxUp, Canary!StartsWhatWasProved
    <2>8. run.i \in {1, 2, 5, 6, 7, 8}
        BY <1>1, <1>6, LegacyCommands
    <2> QED BY <2>2, <2>3, <2>4, <2>5, <2>6, <2>7, <2>8
<1> QED BY <1>5, <1>6

LEMMA StableGoesOn ==
    ASSUME PortInv, PortDoes, NEW j, j = run.i + 1, run.op = "rollback", run.phase = "undo"
    PROVE  /\ HostTyped'
           /\ run.i < 9 /\ s8' = s8 => StableAt(j)'
           /\ run.i = 9 /\ ~s8 => Canary!ServedBy("stable")' /\ Canary!RelayIs("legacy", FALSE, FALSE)'
<1>1. PortTyped /\ StableAt(run.i) /\ run.i \in 1..9
    BY DEF PortInv, PortWorks, StableAt
<1>2. {"legacy", "canary", "stable"} \subseteq Canary!Relays
    BY DEF Canary!Relays
<1>3. CASE Canary!Verb \in Canary!Checks
    <2>1. UNCHANGED <<s1, s2, s3>> /\ run.i \in {5, 8, 9}
        BY <1>1, <1>3, StableCommands DEF PortDoes, Canary!Checks
    <2>2. HostTyped'
        BY <1>1, <2>1 DEF PortTyped, HostTyped, PortServed, RelayOn, BoxUp
    <2>3. run.i < 9 /\ s8' = s8 => StableAt(j)'
        BY <1>1, <2>1 DEF StableAt, RelayOn, RelayKept, BoxUp
    <2>4. ASSUME run.i = 9, ~s8
          PROVE  Canary!ServedBy("stable")' /\ Canary!RelayIs("legacy", FALSE, FALSE)'
        <3>1. HostTyped /\ RelayOn("stable") /\ RelayKept("stable") /\ BoxUp("stable") /\ ~RelayOn("legacy") /\ ~RelayKept("legacy")
            BY <1>1, <2>4 DEF StableAt, PortTyped
        <3>2. Canary!ServedBy("stable") /\ Canary!RelayIs("legacy", FALSE, FALSE)
            BY <3>1, OneServes DEF Canary!Stable
        <3> QED BY <2>1, <3>2 DEF Canary!ServedBy, Canary!RelayIs
    <2> QED BY <2>2, <2>3, <2>4
<1>4. CASE Canary!Verb \notin Canary!Checks
    <2>1. Canary!Acts
        BY <1>4 DEF PortDoes
    <2>2. CASE run.i = 1
        <3>1. HostTyped' /\ ~RelayOn("legacy")'
            BY <1>1, <1>2, <1>4, <2>1, <2>2, StableCommands, PortActs
        <3> QED BY <1>1, <2>2, <3>1 DEF StableAt
    <2>3. CASE run.i = 2
        <3>1. HostTyped' /\ ~RelayKept("legacy")' /\ (RelayOn("legacy")' <=> RelayOn("legacy"))
            BY <1>1, <1>2, <1>4, <2>1, <2>3, StableCommands, PortActs
        <3> QED BY <1>1, <2>3, <3>1 DEF StableAt
    <2>4. CASE run.i = 3
        <3>1. HostTyped' /\ s1' = s1
            BY <1>1, <1>2, <1>4, <2>1, <2>4, StableCommands, PortActs
        <3> QED BY <1>1, <2>4, <3>1 DEF StableAt, RelayOn, RelayKept
    <2>5. CASE run.i = 4
        <3>1. HostTyped' /\ s1' = s1 /\ BoxUp("stable")'
            BY <1>1, <1>2, <1>4, <2>1, <2>5, StableCommands, PortActs
        <3> QED BY <1>1, <2>5, <3>1 DEF StableAt, RelayOn, RelayKept
    <2>6. CASE run.i = 6
        <3>1. HostTyped' /\ s2' = s2 /\ s1'["legacy"] = s1["legacy"] /\ RelayOn("stable")'
            BY <1>1, <1>2, <1>4, <2>1, <2>6, StableCommands, PortActs
        <3> QED BY <1>1, <2>6, <3>1 DEF StableAt, RelayOn, RelayKept, BoxUp
    <2>7. CASE run.i = 7
        <3>1. /\ HostTyped' /\ s2' = s2 /\ s1'["legacy"] = s1["legacy"] /\ RelayKept("stable")'
              /\ (RelayOn("stable")' <=> RelayOn("stable"))
            BY <1>1, <1>2, <1>4, <2>1, <2>7, StableCommands, PortActs
        <3>2. RelayOn("stable")'
            BY <1>1, <2>7, <3>1 DEF StableAt
        <3> QED BY <1>1, <2>7, <3>1, <3>2 DEF StableAt, RelayOn, RelayKept, BoxUp
    <2>8. run.i \in {1, 2, 3, 4, 6, 7}
        BY <1>1, <1>4, StableCommands
    <2> QED BY <2>2, <2>3, <2>4, <2>5, <2>6, <2>7, <2>8
<1> QED BY <1>3, <1>4

LEMMA StartGoesOn ==
    ASSUME PortInv, PortDoes, run.op = "start"
    PROVE  /\ HostTyped'
           /\ run.phase = "main" => run.i \in 1..6 /\ RelayKept("legacy")' /\ BoxUp("legacy")'
           /\ run.phase = "undo" =>
                 /\ run.i \in 1..2 /\ (run.i = 1 => ~RelayOn("canary")')
                 /\ run.i = 2 => ~BoxUp("canary")' /\ (s8 \/ ~RelayOn("canary")')
<1>1. PortTyped /\ PortWorks
    BY DEF PortInv
<1>2. {"legacy", "canary", "stable"} \subseteq Canary!Relays
    BY DEF Canary!Relays
<1>3. CASE run.phase = "main"
    <2>1. run.i \in 1..6 /\ RelayKept("legacy") /\ BoxUp("legacy")
        BY <1>1, <1>3 DEF PortWorks
    <2>2. CASE Canary!Verb \in Canary!Checks
        <3>1. UNCHANGED <<s1, s2, s3>>
            BY <2>2 DEF PortDoes
        <3> QED BY <1>1, <1>3, <2>1, <3>1 DEF PortTyped, HostTyped, PortServed, RelayOn, RelayKept, BoxUp
    <2>3. CASE Canary!Verb \notin Canary!Checks
        <3>1. Canary!Acts /\ run.i \in {1, 3} /\ Canary!Command[2] = "canary" /\ Canary!Verb # "revive"
            BY <1>3, <2>1, <2>3, StartCommands DEF PortDoes
        <3>2. HostTyped' /\ s1'["legacy"] = s1["legacy"] /\ s2'["legacy"] = s2["legacy"]
            BY <1>1, <1>2, <2>3, <3>1, PortActs
        <3> QED BY <1>3, <2>1, <3>2 DEF RelayKept, BoxUp
    <2> QED BY <2>2, <2>3
<1>4. CASE run.phase = "undo"
    <2>1. run.i \in 1..2 /\ (s8 \/ run.i = 1 \/ ~RelayOn("canary"))
        BY <1>1, <1>4 DEF PortWorks
    <2>2. CASE run.i = 1
        <3>1. Canary!Verb = "stop" /\ Canary!Command[2] = "canary" /\ Canary!Verb \notin Canary!Checks
            BY <1>4, <2>2, StartCommands DEF Canary!Checks
        <3>2. HostTyped' /\ ~RelayOn("canary")'
            BY <1>1, <1>2, <3>1, PortActs DEF PortDoes
        <3> QED BY <1>4, <2>1, <2>2, <3>2
    <2>3. CASE run.i = 2
        <3>1. Canary!Verb = "halt" /\ Canary!Command[2] = "canary" /\ Canary!Verb \notin Canary!Checks
            BY <1>4, <2>3, StartCommands DEF Canary!Checks
        <3>2. HostTyped' /\ s1' = s1 /\ ~BoxUp("canary")'
            BY <1>1, <1>2, <3>1, PortActs DEF PortDoes
        <3> QED BY <1>4, <2>1, <2>3, <3>2 DEF RelayOn
    <2> QED BY <2>1, <2>2, <2>3
<1> QED BY <1>1, <1>3, <1>4 DEF PortWorks

LEMMA PrepareGoesOn ==
    ASSUME PortInv, PortDoes, run.op = "prepare"
    PROVE  /\ HostTyped' /\ run.i \in 1..4 /\ run.phase = "main"
           /\ BuiltSince(Canary!Built, run.at)
<1>1. PortTyped /\ PortWorks /\ run.phase = "main" /\ run.i \in 1..4 /\ Past(run.at) /\ run.at \in ReleaseHeads
    BY DEF PortInv, PortWorks
<1>2. HostTyped'
    <2>1. CASE Canary!Verb \notin Canary!Checks
        <3>1. "canary" \in Canary!Relays /\ Canary!Verb \in {"build", "tag", "write"}
            BY <1>1, <2>1, PrepareCommands DEF Canary!Relays, Canary!Checks
        <3> QED BY <1>1, <2>1, <3>1, PortActs DEF PortDoes
    <2>2. CASE UNCHANGED <<s1, s2, s3>>
        BY <1>1, <2>2 DEF PortTyped, HostTyped, PortServed, RelayOn, BoxUp
    <2> QED BY <2>1, <2>2 DEF PortDoes
<1>3. BuiltSince(Canary!Built, run.at)
    <2>1. CASE run.i = 1
        <3>1. Canary!Built[2] = s4.inputs
            BY <1>1, <2>1, PrepareCommands DEF Canary!Built
        <3> QED BY <1>1, <3>1 DEF BuiltSince, Past, PortTyped, ImageTyped, ReleaseHeads
    <2>2. CASE run.i # 1
        <3>1. BuiltSince(run.want, run.at)
            BY <1>1, <2>2 DEF PortWorks
        <3>2. Canary!Built = run.want
            BY <1>1, <2>2, PrepareCommands DEF Canary!Built
        <3> QED BY <3>1, <3>2
    <2> QED BY <2>1, <2>2
<1> QED BY <1>1, <1>2, <1>3

(* An operation that ends, ends with a report that is true.                   *)
LEMMA PortEnds ==
    ASSUME NEW op, op = run.op, NEW end, Canary!Reports(end), HostTyped', ImageTyped', NoteHolds',
           s8' \in BOOLEAN, s8' \/ PortShows(op, end)'
    PROVE  PortInv'
<1>1. run' \in PortRuns /\ run'.op = "idle" /\ outcome' = [op |-> op, end |-> end]
    BY PortReports
<1>2. Canary!ReportIsTrue'
    BY <1>1, ShownIsTrue
<1> QED BY <1>1, <1>2 DEF PortInv, PortTyped

(* A program that goes on finds what its next command relies on.              *)
LEMMA PortGoesOn ==
    ASSUME PortInv, run.op # "idle", PortDoes, Canary!Goes, s8' = s8
    PROVE  PortInv' /\ Canary!StartsWhatWasProved
<1>1. PortTyped /\ PortWorks /\ s8' \in BOOLEAN /\ run.i \in Nat
    BY DEF PortInv, PortTyped, PortRuns
<1>2. s4' = s4 /\ ImageTyped' /\ NoteHolds'
    BY PortImage
<1>3. ASSUME run'.at = run.at
      PROVE  run'.at \in ReleaseHeads /\ Past(run.at)'
    BY <1>1, <1>2, <1>3 DEF PortWorks, Past
<1>4. ASSUME run' \in PortRuns, HostTyped', run'.op # "idle", PortWorks'
      PROVE  PortInv'
    BY <1>1, <1>2, <1>4 DEF PortInv, PortTyped, Canary!ReportIsTrue, Canary!Busy
<1>5. CASE run.op = "prepare"
    <2>1. HostTyped' /\ run.i \in 1..4 /\ run.phase = "main" /\ BuiltSince(Canary!Built, run.at)
        BY <1>5, PrepareGoesOn
    <2>2. Len(Canary!Program(run.op, run.phase)) = 4
        BY <1>5, <2>1, PrepareCommands
    <2>3. CASE /\ run.i < 4 /\ run' \in PortRuns /\ run'.op = run.op /\ run'.phase = run.phase
               /\ run'.i = run.i + 1 /\ run'.at = run.at /\ run'.want = Canary!Built
        <3>1. BuiltSince(run.want, run.at)'
            BY <1>2, <2>1, <2>3 DEF BuiltSince
        <3>2. PortWorks'
            BY <1>3, <1>5, <2>1, <2>3, <3>1 DEF PortWorks
        <3> QED BY <1>4, <1>5, <2>1, <2>3, <3>2 DEF Canary!StartsWhatWasProved
    <2>4. CASE Canary!Reports("done")
        <3>1. PortShows("prepare", "done")'
            BY DEF PortShows
        <3> QED BY <1>1, <1>2, <1>5, <2>1, <2>4, <3>1, PortEnds DEF Canary!StartsWhatWasProved
    <2>5. \/ /\ run.i < 4 /\ run' \in PortRuns /\ run'.op = run.op /\ run'.phase = run.phase
             /\ run'.i = run.i + 1 /\ run'.at = run.at /\ run'.want = Canary!Built
          \/ run.i >= 4 /\ Canary!Reports(IF run.phase = "main" THEN "done" ELSE "undone")
        BY <1>1, <2>2, PortGoes
    <2> QED BY <2>1, <2>3, <2>4, <2>5
<1>6. CASE run.op = "start" /\ run.phase = "main"
    <2>1. HostTyped' /\ run.i \in 1..6 /\ RelayKept("legacy")' /\ BoxUp("legacy")'
        BY <1>6, StartGoesOn
    <2>2. Len(Canary!Program(run.op, run.phase)) = 6
        BY <1>6, StartCommands
    <2>3. CASE /\ run.i < 6 /\ run' \in PortRuns /\ run'.op = run.op /\ run'.phase = run.phase
               /\ run'.i = run.i + 1 /\ run'.at = run.at
        <3>1. PortWorks'
            BY <1>3, <1>6, <2>1, <2>3 DEF PortWorks
        <3> QED BY <1>4, <1>6, <2>1, <2>3, <3>1 DEF Canary!StartsWhatWasProved
    <2>4. CASE Canary!Reports("done")
        <3>1. PortShows("start", "done")'
            BY DEF PortShows
        <3> QED BY <1>1, <1>2, <1>6, <2>1, <2>4, <3>1, PortEnds DEF Canary!StartsWhatWasProved
    <2>5. \/ /\ run.i < 6 /\ run' \in PortRuns /\ run'.op = run.op /\ run'.phase = run.phase
             /\ run'.i = run.i + 1 /\ run'.at = run.at /\ run'.want = Canary!Built
          \/ run.i >= 6 /\ Canary!Reports(IF run.phase = "main" THEN "done" ELSE "undone")
        BY <1>1, <2>2, PortGoes
    <2> QED BY <1>6, <2>3, <2>4, <2>5
<1>7. CASE run.op = "start" /\ run.phase = "undo"
    <2>1. /\ HostTyped' /\ run.i \in 1..2 /\ (run.i = 1 => ~RelayOn("canary")')
          /\ run.i = 2 => ~BoxUp("canary")' /\ (s8 \/ ~RelayOn("canary")')
        BY <1>7, StartGoesOn
    <2>2. Len(Canary!Program(run.op, run.phase)) = 2
        BY <1>7, StartCommands
    <2>3. CASE /\ run.i < 2 /\ run' \in PortRuns /\ run'.op = run.op /\ run'.phase = run.phase
               /\ run'.i = run.i + 1 /\ run'.at = run.at
        <3>1. run'.i = 2 /\ ~RelayOn("canary")'
            BY <2>1, <2>3
        <3>2. PortWorks'
            BY <1>3, <1>7, <2>3, <3>1 DEF PortWorks
        <3> QED BY <1>4, <1>7, <2>1, <2>3, <3>2 DEF Canary!StartsWhatWasProved
    <2>4. CASE run.i >= 2 /\ Canary!Reports("undone")
        <3>1. ~BoxUp("canary")' /\ (s8' \/ ~RelayOn("canary")')
            BY <2>1, <2>4
        <3>2. s8' \/ PortShows("start", "undone")'
            BY <3>1 DEF PortShows
        <3> QED BY <1>1, <1>2, <1>7, <2>1, <2>4, <3>2, PortEnds DEF Canary!StartsWhatWasProved
    <2>5. \/ /\ run.i < 2 /\ run' \in PortRuns /\ run'.op = run.op /\ run'.phase = run.phase
             /\ run'.i = run.i + 1 /\ run'.at = run.at /\ run'.want = Canary!Built
          \/ run.i >= 2 /\ Canary!Reports(IF run.phase = "main" THEN "done" ELSE "undone")
        BY <1>1, <2>2, PortGoes
    <2> QED BY <1>7, <2>3, <2>4, <2>5
<1>8. CASE run.op = "promote" /\ run.phase = "main"
    <2>1. PICK j : j = run.i + 1
        OBVIOUS
    <2>2. /\ HostTyped' /\ Canary!StartsWhatWasProved
          /\ run.i < 17 /\ run'.at = run.at => PromoteAt(j)'
          /\ run.i = 17 => PortShows("promote", "done")'
        BY <1>8, <2>1, PromoteGoesOn
    <2>3. Len(Canary!Program(run.op, run.phase)) = 17 /\ run.i \in 1..17
        BY <1>1, <1>8, PromoteCommands DEF PortWorks, PromoteAt
    <2>4. CASE /\ run.i < 17 /\ run' \in PortRuns /\ run'.op = run.op /\ run'.phase = run.phase
               /\ run'.i = run.i + 1 /\ run'.at = run.at
        <3>1. PromoteAt(run.i)'
            BY <2>1, <2>2, <2>4 DEF PromoteAt
        <3>2. PortWorks'
            BY <1>3, <1>8, <2>4, <3>1 DEF PortWorks
        <3> QED BY <1>4, <1>8, <2>2, <2>4, <3>2
    <2>5. CASE run.i >= 17 /\ Canary!Reports("done")
        <3>1. PortShows("promote", "done")'
            BY <2>2, <2>3, <2>5
        <3> QED BY <1>1, <1>2, <1>8, <2>2, <2>5, <3>1, PortEnds
    <2>6. \/ /\ run.i < 17 /\ run' \in PortRuns /\ run'.op = run.op /\ run'.phase = run.phase
             /\ run'.i = run.i + 1 /\ run'.at = run.at /\ run'.want = Canary!Built
          \/ run.i >= 17 /\ Canary!Reports(IF run.phase = "main" THEN "done" ELSE "undone")
        BY <1>1, <2>3, PortGoes
    <2> QED BY <1>8, <2>4, <2>5, <2>6
<1>9. CASE \/ run.op = "promote" /\ run.phase = "undo"
           \/ run.op = "rollback" /\ run.phase = "main"
    <2>1. PICK j : j = run.i + 1
        OBVIOUS
    <2>2. /\ HostTyped' /\ Canary!StartsWhatWasProved
          /\ run.i < 10 => LegacyAt(j)'
          /\ run.i = 10 => Canary!ServedBy("legacy")' /\ Canary!RelayIs("stable", FALSE, FALSE)'
        BY <1>9, <2>1, LegacyGoesOn
    <2>3. Len(Canary!Program(run.op, run.phase)) = 10
        BY <1>9, LegacyCommands
    <2>4. run.i \in 1..10
        BY <1>1, <1>9 DEF PortWorks, LegacyAt
    <2>5. CASE /\ run.i < 10 /\ run' \in PortRuns /\ run'.op = run.op /\ run'.phase = run.phase
               /\ run'.i = run.i + 1 /\ run'.at = run.at
        <3>1. LegacyAt(run.i)'
            BY <2>1, <2>2, <2>5 DEF LegacyAt
        <3>2. PortWorks'
            BY <1>3, <1>9, <2>5, <3>1 DEF PortWorks
        <3> QED BY <1>4, <1>9, <2>2, <2>5, <3>2
    <2>6. CASE run.i >= 10 /\ Canary!Reports(IF run.phase = "main" THEN "done" ELSE "undone")
        <3>1. Canary!ServedBy("legacy")' /\ Canary!RelayIs("stable", FALSE, FALSE)'
            <4>1. run.i = 10
                BY <2>4, <2>6
            <4> QED BY <2>2, <4>1
        <3>2. CASE run.op = "promote" /\ run.phase = "undo"
            <4>1. PortShows("promote", "undone")' /\ Canary!Reports("undone")
                BY <2>6, <3>1, <3>2 DEF PortShows
            <4> QED BY <1>1, <1>2, <2>2, <3>2, <4>1, PortEnds
        <3>3. CASE run.op = "rollback" /\ run.phase = "main"
            <4>1. PortShows("rollback", "done")' /\ Canary!Reports("done")
                BY <2>6, <3>1, <3>3 DEF PortShows
            <4> QED BY <1>1, <1>2, <2>2, <3>3, <4>1, PortEnds
        <3> QED BY <1>9, <3>2, <3>3
    <2>7. \/ /\ run.i < 10 /\ run' \in PortRuns /\ run'.op = run.op /\ run'.phase = run.phase
             /\ run'.i = run.i + 1 /\ run'.at = run.at /\ run'.want = Canary!Built
          \/ run.i >= 10 /\ Canary!Reports(IF run.phase = "main" THEN "done" ELSE "undone")
        BY <1>1, <2>3, PortGoes
    <2> QED BY <2>5, <2>6, <2>7
<1>10. CASE run.op = "rollback" /\ run.phase = "undo"
    <2>1. PICK j : j = run.i + 1
        OBVIOUS
    <2>2. /\ HostTyped' /\ (run.i < 9 => StableAt(j)')
          /\ run.i = 9 /\ ~s8 => Canary!ServedBy("stable")' /\ Canary!RelayIs("legacy", FALSE, FALSE)'
        BY <1>10, <2>1, StableGoesOn
    <2>3. Len(Canary!Program(run.op, run.phase)) = 9 /\ run.i \in 1..9
        BY <1>1, <1>10, StableCommands DEF PortWorks, StableAt
    <2>4. CASE /\ run.i < 9 /\ run' \in PortRuns /\ run'.op = run.op /\ run'.phase = run.phase
               /\ run'.i = run.i + 1 /\ run'.at = run.at
        <3>1. StableAt(run.i)'
            BY <2>1, <2>2, <2>4 DEF StableAt
        <3>2. PortWorks'
            BY <1>3, <1>10, <2>4, <3>1 DEF PortWorks
        <3> QED BY <1>4, <1>10, <2>2, <2>4, <3>2 DEF Canary!StartsWhatWasProved
    <2>5. CASE run.i >= 9 /\ Canary!Reports("undone")
        <3>1. s8' \/ PortShows("rollback", "undone")'
            <4>1. run.i = 9
                BY <2>3, <2>5
            <4>2. s8 \/ (Canary!ServedBy("stable")' /\ Canary!RelayIs("legacy", FALSE, FALSE)')
                BY <2>2, <4>1
            <4> QED BY <4>2 DEF PortShows
        <3> QED BY <1>1, <1>2, <1>10, <2>2, <2>5, <3>1, PortEnds DEF Canary!StartsWhatWasProved
    <2>6. \/ /\ run.i < 9 /\ run' \in PortRuns /\ run'.op = run.op /\ run'.phase = run.phase
             /\ run'.i = run.i + 1 /\ run'.at = run.at /\ run'.want = Canary!Built
          \/ run.i >= 9 /\ Canary!Reports(IF run.phase = "main" THEN "done" ELSE "undone")
        BY <1>1, <2>3, PortGoes
    <2> QED BY <1>10, <2>4, <2>5, <2>6
<1> QED BY <1>1, <1>5, <1>6, <1>7, <1>8, <1>9, <1>10 DEF PortWorks

(* A command that fails leads back, is passed over, or ends the operation.    *)
LEMMA PortFailsBack ==
    ASSUME PortInv, run.op # "idle", Canary!Fails, HostTyped', ImageTyped', NoteHolds', s4' = s4
    PROVE  PortInv'
<1>1. PortTyped /\ PortWorks /\ s8 \in BOOLEAN /\ run.i \in Nat
    BY DEF PortInv, PortTyped, PortRuns
<1>2. ASSUME run'.at = run.at
      PROVE  run'.at \in ReleaseHeads /\ Past(run.at)'
    BY <1>1, <1>2 DEF PortWorks, Past
<1>3. ASSUME run' \in PortRuns, s8' \in BOOLEAN, run'.op # "idle", PortWorks'
      PROVE  PortInv'
    BY <1>3 DEF PortInv, PortTyped, Canary!ReportIsTrue, Canary!Busy
<1>4. CASE Canary!PassedOver /\ Canary!Goes /\ s8' = TRUE
    <2>1. CASE run.op = "start" /\ run.phase = "undo"
        <3>1. Len(Canary!Program(run.op, run.phase)) = 2 /\ run.i \in 1..2
            BY <1>1, <2>1, StartCommands DEF PortWorks
        <3>2. CASE /\ run.i < 2 /\ run' \in PortRuns /\ run'.op = run.op /\ run'.phase = run.phase
                   /\ run'.i = run.i + 1 /\ run'.at = run.at
            <4>1. PortWorks'
                BY <1>2, <1>4, <2>1, <3>1, <3>2 DEF PortWorks
            <4> QED BY <1>3, <1>4, <2>1, <3>2, <4>1
        <3>3. CASE Canary!Reports("undone")
            BY <1>4, <3>3, PortEnds
        <3>4. \/ /\ run.i < 2 /\ run' \in PortRuns /\ run'.op = run.op /\ run'.phase = run.phase
                 /\ run'.i = run.i + 1 /\ run'.at = run.at /\ run'.want = Canary!Built
              \/ run.i >= 2 /\ Canary!Reports(IF run.phase = "main" THEN "done" ELSE "undone")
            BY <1>1, <1>4, <3>1, PortGoes
        <3> QED BY <2>1, <3>2, <3>3, <3>4
    <2>2. CASE run.op = "rollback" /\ run.phase = "undo" /\ run.i <= 3
        <3>1. Len(Canary!Program(run.op, run.phase)) = 9 /\ run.i \in 1..3
            BY <1>1, <2>2, StableCommands DEF PortWorks, StableAt
        <3>2. /\ run' \in PortRuns /\ run'.op = run.op /\ run'.phase = run.phase
              /\ run'.i = run.i + 1 /\ run'.at = run.at
            <4>1. ~(run.i >= 9)
                BY <3>1
            <4> QED BY <1>1, <1>4, <3>1, <4>1, PortGoes
        <3>3. run'.i \in 2..4
            BY <3>1, <3>2
        <3>4. StableAt(run.i)'
            BY <1>4, <3>3 DEF StableAt
        <3>5. PortWorks'
            BY <1>2, <2>2, <3>2, <3>4 DEF PortWorks
        <3> QED BY <1>3, <1>4, <2>2, <3>2, <3>5
    <2> QED BY <1>4, <2>1, <2>2 DEF Canary!PassedOver
<1>5. CASE /\ s8' = s8 /\ run.phase = "main" /\ run.op # "prepare" /\ run' \in PortRuns /\ run'.op = run.op
           /\ run'.phase = "undo" /\ run'.i = 1 /\ run'.at = run.at
    <2>1. run.op \in {"start", "promote", "rollback"}
        BY <1>1, <1>5 DEF PortWorks
    <2>2. LegacyAt(run.i)' /\ StableAt(run.i)'
        BY <1>5 DEF LegacyAt, StableAt
    <2>3. PortWorks'
        BY <1>2, <1>5, <2>1, <2>2 DEF PortWorks
    <2> QED BY <1>1, <1>3, <1>5, <2>1, <2>3
<1>6. CASE s8' = s8 /\ Canary!Reports("lost")
    <2>1. PICK op : op = run.op
        OBVIOUS
    <2>2. PortShows(op, "lost")'
        BY DEF PortShows
    <2> QED BY <1>1, <1>6, <2>1, <2>2, PortEnds
<1> QED BY <1>1, <1>4, <1>5, <1>6, PortFails

(* An operation begins on a host its checks have seen.                       *)
LEMMA PortBegins ==
    ASSUME PortInv, Canary!Prepares \/ Canary!Operates
    PROVE  PortInv' /\ UNCHANGED s2
<1>1. PortTyped /\ NoteHolds
    BY DEF PortInv
<1>2. PICK op \in PortOps : Canary!Begins(op) /\ (op # "prepare" => Canary!Admits(op))
    BY DEF Canary!Prepares, Canary!Operates, PortOps
<1>3. /\ run' = [op |-> op, phase |-> "main", i |-> 1, want |-> s5, at |-> s4] /\ s8' = FALSE
      /\ UNCHANGED <<s1, s2, s3, s4, s5, s6, s9>>
    BY <1>2 DEF Canary!Begins, Canary!Idle, Canary!host, Canary!image
<1>4. run' \in PortRuns
    BY <1>1, <1>3 DEF PortRuns, PortTyped, ImageTyped
<1>5. HostTyped' /\ ImageTyped' /\ NoteHolds'
    BY <1>1, <1>3 DEF PortTyped, HostTyped, PortServed, RelayOn, BoxUp, ImageTyped, NoteHolds, Past, BuiltSince
<1>6. run'.at \in ReleaseHeads /\ Past(run.at)'
    BY <1>1, <1>3 DEF Past, PortTyped, ImageTyped, ReleaseHeads
<1>7. PortWorks'
    <2>1. CASE op = "prepare"
        BY <1>3, <1>6, <2>1 DEF PortWorks
    <2>2. CASE op = "start"
        <3>1. Canary!AdmitsStart
            BY <1>2, <2>2 DEF Canary!Admits
        <3>2. RelayKept("legacy")' /\ BoxUp("legacy")'
            BY <1>3, <3>1 DEF Canary!AdmitsStart, Canary!RelayIs, Canary!LegacyRuns, RelayKept, BoxUp
        <3> QED BY <1>3, <1>6, <2>2, <3>2 DEF PortWorks
    <2>3. CASE op = "promote"
        <3>1. Canary!AdmitsPromote /\ Canary!Prebuilt
            BY <1>2, <2>3 DEF Canary!Admits
        <3>2. RelayKept("legacy") /\ BoxUp("legacy")
            BY <3>1 DEF Canary!AdmitsPromote, Canary!RelayIs, Canary!LegacyRuns, RelayKept, BoxUp
        <3>3. s2["canary"].image = s5
            BY <3>1 DEF Canary!AdmitsPromote, Canary!Runs
        <3>4. s6 # None /\ s6 \in ImageNotes /\ s6.at.commit = s4.commit /\ s5 = s6.image
            BY <1>1, <3>1 DEF Canary!Prebuilt, Canary!HasNote, Canary!Attested, PortTyped, ImageTyped
        <3>5. s6.at.inputs = s4.inputs /\ s6.at.inputs <= s5[2] /\ s5[2] <= s4.inputs
            BY <1>1, <3>4 DEF NoteHolds, Past, BuiltSince
        <3>6. s5[2] = s4.inputs
            BY <1>1, <3>5 DEF PortTyped, ImageTyped, ReleaseHeads
        <3>7. PromoteAt(run.i)'
            <4>1. run'.i = 1 /\ run'.at = s4
                BY <1>3
            <4> QED BY <1>3, <3>2, <3>3, <3>6, <4>1 DEF PromoteAt, RelayKept, BoxUp
        <3> QED BY <1>3, <1>6, <2>3, <3>7 DEF PortWorks
    <2>4. CASE op = "rollback"
        <3>1. LegacyAt(run.i)'
            BY <1>3 DEF LegacyAt
        <3> QED BY <1>3, <1>6, <2>4, <3>1 DEF PortWorks
    <2> QED BY <2>1, <2>2, <2>3, <2>4 DEF PortOps
<1>8. run'.op # "idle"
    BY <1>2, <1>3 DEF PortOps
<1> QED BY <1>3, <1>4, <1>5, <1>7, <1>8 DEF PortInv, PortTyped, Canary!ReportIsTrue, Canary!Busy

(* What one command of any program leaves.                                   *)
LEMMA PortHost ==
    ASSUME PortInv, run.op # "idle", PortDoes
    PROVE  HostTyped' /\ Canary!StartsWhatWasProved
<1>1. PICK j : j = run.i + 1
    OBVIOUS
<1>2. CASE run.op = "prepare"
    BY <1>2, PrepareGoesOn DEF Canary!StartsWhatWasProved
<1>3. CASE run.op = "start"
    BY <1>3, StartGoesOn DEF Canary!StartsWhatWasProved
<1>4. CASE run.op = "promote" /\ run.phase = "main"
    BY <1>1, <1>4, PromoteGoesOn
<1>5. CASE \/ run.op = "promote" /\ run.phase = "undo"
           \/ run.op = "rollback" /\ run.phase = "main"
    BY <1>1, <1>5, LegacyGoesOn
<1>6. CASE run.op = "rollback" /\ run.phase = "undo"
    BY <1>1, <1>6, StableGoesOn DEF Canary!StartsWhatWasProved
<1> QED BY <1>2, <1>3, <1>4, <1>5, <1>6 DEF PortInv, PortWorks

LEMMA PortStep ==
    ASSUME PortInv, [Canary!Next]_(Canary!vars)
    PROVE  PortInv' /\ Canary!StartsWhatWasProved
<1>1. PortTyped /\ NoteHolds /\ s8 \in BOOLEAN
    BY DEF PortInv, PortTyped
<1>2. CASE Canary!Prepares \/ Canary!Operates
    BY <1>2, PortBegins DEF Canary!StartsWhatWasProved
<1>3. CASE Canary!Changes
    <2>1. run.op # "idle" /\ PortDoes /\ Canary!Goes /\ s8' = s8
        BY <1>3 DEF Canary!Changes, Canary!Busy, PortDoes
    <2> QED BY <2>1, PortGoesOn
<1>4. CASE Canary!Verifies
    <2>1. /\ run.op # "idle" /\ PortDoes /\ UNCHANGED <<s1, s2, s3, s4, s5, s6, s7, s9>>
          /\ (Canary!Goes /\ s8' = s8) \/ Canary!Fails
        BY <1>4 DEF Canary!Verifies, Canary!Busy, PortDoes, Canary!host, Canary!image
    <2>2. CASE Canary!Goes /\ s8' = s8
        BY <2>1, <2>2, PortGoesOn
    <2>3. CASE Canary!Fails
        <3>1. HostTyped'
            BY <1>1, <2>1 DEF PortTyped, HostTyped, PortServed, RelayOn, BoxUp
        <3> QED BY <2>1, <2>3, <3>1, PortImage, PortFailsBack DEF Canary!StartsWhatWasProved
    <2> QED BY <2>1, <2>2, <2>3
<1>5. CASE Canary!CommandFails
    <2>1. /\ run.op # "idle" /\ Canary!Fails
          /\ (Canary!Verb \notin Canary!Checks /\ Canary!Acts) \/ UNCHANGED <<s1, s2, s3, s4, s5, s6, s7, s9>>
        BY <1>5 DEF Canary!CommandFails, Canary!Busy, Canary!host, Canary!image
    <2>2. CASE PortDoes
        <3>1. HostTyped' /\ Canary!StartsWhatWasProved
            BY <2>1, <2>2, PortHost
        <3> QED BY <2>1, <2>2, <3>1, PortImage, PortFailsBack
    <2>3. CASE UNCHANGED <<s1, s2, s3, s4, s5, s6, s7, s9>>
        <3>1. HostTyped' /\ ImageTyped' /\ NoteHolds'
            BY <1>1, <2>3 DEF PortTyped, HostTyped, PortServed, RelayOn, BoxUp, ImageTyped, NoteHolds, Past, BuiltSince
        <3> QED BY <2>1, <2>3, <3>1, PortFailsBack DEF Canary!StartsWhatWasProved
    <2> QED BY <2>1, <2>2, <2>3 DEF PortDoes
<1>6. CASE Canary!Killed
    <2>1. Canary!Reports("cut") /\ UNCHANGED <<s1, s2, s3, s4, s5, s6, s8, s9>>
        BY <1>6 DEF Canary!Killed, Canary!host, Canary!image
    <2>2. HostTyped' /\ ImageTyped' /\ NoteHolds'
        BY <1>1, <2>1 DEF PortTyped, HostTyped, PortServed, RelayOn, BoxUp, ImageTyped, NoteHolds, Past, BuiltSince
    <2>3. PICK op : op = run.op
        OBVIOUS
    <2>4. PortShows(op, "cut")'
        BY DEF PortShows
    <2> QED BY <1>1, <2>1, <2>2, <2>3, <2>4, PortEnds DEF Canary!StartsWhatWasProved
<1>7. CASE Canary!Reboots
    <2> DEFINE units == [u \in Canary!Relays |-> [s1[u] EXCEPT !.active = s1[u].enabled]]
    <2>1. Canary!Reports("cut") /\ s6' = None /\ Canary!Becomes(units, s2) /\ UNCHANGED <<s4, s5, s8, s9>>
        BY <1>7 DEF Canary!Reboots
    <2>2. units \in RelayUnits
        BY <1>1 DEF PortTyped, HostTyped, RelayUnits
    <2> HIDE DEF units
    <2>3. s2' = s2 /\ HostTyped'
        BY <1>1, <2>1, <2>2, PortTakes DEF PortTyped, HostTyped, PortServed
    <2>4. ImageTyped' /\ NoteHolds'
        BY <1>1, <2>1 DEF PortTyped, ImageTyped, NoteHolds
    <2>5. PICK op : op = run.op
        OBVIOUS
    <2>6. PortShows(op, "cut")'
        BY DEF PortShows
    <2> QED BY <1>1, <2>1, <2>3, <2>4, <2>5, <2>6, PortEnds DEF Canary!StartsWhatWasProved
<1>8. CASE Canary!Commits
    <2>1. UNCHANGED <<s1, s2, s3, s5, s6, s8, s9, run, outcome>>
        BY <1>8 DEF Canary!Commits, Canary!host
    <2>2. PICK d \in {0, 1} : s4' = [commit |-> s4.commit + 1, inputs |-> s4.inputs + d]
        BY <1>8 DEF Canary!Commits
    <2>3. s4 \in ReleaseHeads /\ s4' \in ReleaseHeads /\ s4'.commit = s4.commit + 1 /\ s4.inputs <= s4'.inputs
        BY <1>1, <2>2 DEF PortTyped, ImageTyped, ReleaseHeads
    <2>4. ASSUME NEW h \in ReleaseHeads, Past(h)
          PROVE  h.commit <= s4'.commit /\ h.inputs <= s4'.inputs /\ h.commit # s4'.commit
        BY <2>3, <2>4 DEF Past, ReleaseHeads
    <2>5. ASSUME NEW img \in Nat \X Nat, NEW h \in ReleaseHeads, BuiltSince(img, h)
          PROVE  h.inputs <= img[2] /\ img[2] <= s4'.inputs
        BY <2>3, <2>5 DEF BuiltSince, ReleaseHeads
    <2>6. PortTyped'
        BY <1>1, <2>1, <2>3 DEF PortTyped, HostTyped, PortServed, RelayOn, BoxUp, ImageTyped
    <2>7. NoteHolds'
        <3>1. s6 # None => s6.at \in ReleaseHeads /\ s6.image \in Nat \X Nat
            BY <1>1 DEF PortTyped, ImageTyped, ImageNotes
        <3> QED BY <1>1, <2>1, <2>4, <2>5, <3>1 DEF NoteHolds, Past, BuiltSince
    <2>8. run.op # "idle" => PortWorks'
        <3> SUFFICES ASSUME PortWorks
                     PROVE  PortWorks'
            BY DEF PortInv
        <3>1. run.at \in ReleaseHeads /\ Past(run.at) /\ run.want \in Nat \X Nat
            BY <1>1 DEF PortWorks, PortTyped, PortRuns
        <3>2. Past(run.at)' /\ (BuiltSince(run.want, run.at) => BuiltSince(run.want, run.at)')
            BY <2>1, <2>4, <2>5, <3>1 DEF Past, BuiltSince
        <3>3. /\ PromoteAt(run.i) => PromoteAt(run.i)'
              /\ LegacyAt(run.i) => LegacyAt(run.i)'
              /\ StableAt(run.i) => StableAt(run.i)'
            BY <2>1 DEF PromoteAt, LegacyAt, StableAt, RelayOn, RelayKept, BoxUp
        <3> QED BY <2>1, <3>1, <3>2, <3>3 DEF PortWorks, RelayOn, RelayKept, BoxUp
    <2>9. Canary!ReportIsTrue'
        BY <2>1 DEF PortInv, Canary!ReportIsTrue, Canary!Busy, Canary!ServedBy, Canary!RelayIs
    <2> QED BY <2>1, <2>6, <2>7, <2>8, <2>9 DEF PortInv, Canary!StartsWhatWasProved
<1>9. CASE Canary!Reattests
    <2>1. /\ run.op = "idle" /\ s6 # None /\ s6.at.inputs = s4.inputs /\ s6' = [s6 EXCEPT !.at = s4]
          /\ UNCHANGED <<s1, s2, s3, s4, s5, s8, s9, run, outcome>>
        BY <1>9 DEF Canary!Reattests, Canary!HasNote, Canary!Busy, Canary!host
    <2>2. s6 \in ImageNotes /\ s4 \in ReleaseHeads
        BY <1>1, <2>1 DEF PortTyped, ImageTyped
    <2>3. s6' \in ImageNotes /\ s6'.at = s4 /\ s6'.image = s6.image
        BY <2>1, <2>2 DEF ImageNotes
    <2>4. PortTyped'
        BY <1>1, <2>1, <2>3 DEF PortTyped, HostTyped, PortServed, RelayOn, BoxUp, ImageTyped
    <2>5. NoteHolds'
        BY <1>1, <2>1, <2>2, <2>3 DEF NoteHolds, Past, BuiltSince, ReleaseHeads
    <2>6. Canary!ReportIsTrue'
        BY <2>1 DEF PortInv, Canary!ReportIsTrue, Canary!Busy, Canary!ServedBy, Canary!RelayIs
    <2> QED BY <2>1, <2>4, <2>5, <2>6 DEF PortInv, Canary!StartsWhatWasProved
<1>10. CASE Canary!Disturbed \/ UNCHANGED Canary!vars
    <2>1. UNCHANGED <<s1, s2, s3, s4, s5, s6, s8, s9, run, outcome>>
        BY <1>10 DEF Canary!Disturbed, Canary!vars, Canary!host, Canary!image
    <2>2. PortTyped' /\ NoteHolds'
        BY <1>1, <2>1 DEF PortTyped, HostTyped, PortServed, RelayOn, BoxUp, ImageTyped, NoteHolds, Past, BuiltSince
    <2>3. run.op # "idle" => PortWorks'
        BY <2>1 DEF PortInv, PortWorks, Past, BuiltSince, PromoteAt, LegacyAt, StableAt, RelayOn, RelayKept, BoxUp
    <2>4. Canary!ReportIsTrue'
        BY <2>1 DEF PortInv, Canary!ReportIsTrue, Canary!Busy, Canary!ServedBy, Canary!RelayIs
    <2> QED BY <2>1, <2>2, <2>3, <2>4 DEF PortInv, Canary!StartsWhatWasProved
<1> QED BY <1>2, <1>3, <1>4, <1>5, <1>6, <1>7, <1>8, <1>9, <1>10 DEF Canary!Next

LEMMA PortInit ==
    ASSUME Init, tool = "canary"
    PROVE  PortInv
<1>1. Canary!Init
    BY DEF Init
<1>2. s1 \in RelayUnits /\ s2 \in RelayBoxes
    BY <1>1 DEF Canary!Init, RelayUnits, RelayBoxes, Canary!NoImage
<1>3. PortServed
    BY <1>1 DEF Canary!Init, PortServed, RelayOn, BoxUp, Canary!Stable, Canary!Relays
<1>4. s4 \in ReleaseHeads /\ s5 \in Nat \X Nat /\ s6 = None /\ s9 \in Nat /\ s8 \in BOOLEAN
    BY <1>1 DEF Canary!Init, ReleaseHeads, Canary!NoImage
<1>5. run \in PortRuns /\ run.op = "idle" /\ outcome = [op |-> "none", end |-> "done"]
    BY <1>1 DEF Canary!Init, PortRuns, Canary!Idle, Canary!NoImage
<1>6. Canary!ReportIsTrue
    <2>1. \A o, e : outcome = [op |-> o, end |-> e] => o = "none"
        BY <1>5
    <2>2. /\ outcome \notin {[op |-> "promote", end |-> "done"], [op |-> "rollback", end |-> "undone"]}
          /\ outcome \notin {[op |-> "promote", end |-> "undone"], [op |-> "rollback", end |-> "done"]}
          /\ outcome # [op |-> "start", end |-> "undone"]
        BY <2>1
    <2> QED BY <2>2 DEF Canary!ReportIsTrue
<1> QED BY <1>2, <1>3, <1>4, <1>5, <1>6 DEF PortInv, PortTyped, HostTyped, ImageTyped, NoteHolds

LEMMA PortInvariance == Spec => [](tool = "canary" => PortInv)
<1>1. Init => (tool = "canary" => PortInv)
    BY PortInit
<1>2. (tool = "canary" => PortInv) /\ [Next]_vars => (tool = "canary" => PortInv)'
    BY OneTool, PortStep
<1> QED BY <1>1, <1>2, PTL DEF Spec

(* Whatever fails, is killed or rebooted, and whatever is committed meanwhile, *)
(* "promoted" means that the stable relay has port 3021 and will have it after *)
(* a reboot, and "restored" that the legacy one does (sync-canary.py, promote, *)
(* rollback and recover_legacy).                                             *)
THEOREM PortReportStaysTrue == Spec => []CanaryReportIsTrue
<1>1. (tool = "canary" => PortInv) => CanaryReportIsTrue
    BY DEF PortInv, CanaryReportIsTrue
<1> QED BY <1>1, PortInvariance, PTL

(* At every command of a start and of a promotion one relay of the port is     *)
(* enabled and has its container, so that a reboot there finds it             *)
(* (sync-canary.py, promote).                                                *)
THEOREM PortSurvivesReboot == Spec => []RebootServes
<1>1. (tool = "canary" => PortInv) => RebootServes
    <2> SUFFICES ASSUME PortInv, run.phase = "main", run.op \in {"start", "promote"}
                 PROVE  \E u \in Canary!Stable : Canary!WouldServe(u)
        BY DEF RebootServes, Canary!RebootServes
    <2>1. PortWorks
        BY DEF PortInv
    <2>2. CASE RelayKept("legacy") /\ BoxUp("legacy")
        BY <2>2 DEF Canary!Stable, Canary!WouldServe, RelayKept, BoxUp
    <2>3. CASE RelayKept("stable") /\ BoxUp("stable")
        BY <2>3 DEF Canary!Stable, Canary!WouldServe, RelayKept, BoxUp
    <2>4. CASE run.op = "promote"
        <3>1. PromoteAt(run.i)
            BY <2>1, <2>4 DEF PortWorks
        <3> QED BY <2>2, <2>3, <3>1 DEF PromoteAt
    <2>5. CASE run.op = "start"
        BY <2>1, <2>2, <2>5 DEF PortWorks
    <2> QED BY <2>4, <2>5
<1> QED BY <1>1, PortInvariance, PTL

(* The container behind the stable relay is started from the image the canary *)
(* was proved with, and that image from the inputs of the commit the          *)
(* promotion was admitted at, although commits, builds that were cut off and  *)
(* reboots may come between (sync-canary.py, require_prebuilt_sync_image).    *)
THEOREM PromotesWhatWasProved == Spec => PromotedWasProved
<1>1. (tool = "canary" => PortInv) /\ [Next]_vars => [tool = "canary" => Canary!StartsWhatWasProved]_vars
    BY OneTool, PortStep
<1> QED BY <1>1, PortInvariance, PTL DEF Spec, PromotedWasProved

-----------------------------------------------------------------------------
(* The hardening tools, together. *)

LEMMA RedisInvariance == Spec => [](tool = "redis" => RedisInv)
<1>1. Init => (tool = "redis" => RedisInv)
    BY RedisInit
<1>2. (tool = "redis" => RedisInv) /\ [Next]_vars => (tool = "redis" => RedisInv)'
    BY OneTool, RedisStep
<1> QED BY <1>1, <1>2, PTL DEF Spec

LEMMA RpcInvariance == Spec => [](tool = "rpcbind" => RpcInv)
<1>1. Init => (tool = "rpcbind" => RpcInv)
    BY RpcInit
<1>2. (tool = "rpcbind" => RpcInv) /\ [Next]_vars => (tool = "rpcbind" => RpcInv)'
    BY OneTool, RpcStep
<1> QED BY <1>1, <1>2, PTL DEF Spec

LEMMA UnitInvariance == Spec => [](tool = "unit" => UnitInv)
<1>1. Init => (tool = "unit" => UnitInv)
    BY UnitInit
<1>2. (tool = "unit" => UnitInv) /\ [Next]_vars => (tool = "unit" => UnitInv)'
    BY OneTool, UnitStep
<1> QED BY <1>1, <1>2, PTL DEF Spec

LEMMA RpcReportHolds ==
    ASSUME RpcInv
    PROVE  Rpcbind!RpcbindReportIsTrue
<1> SUFFICES ASSUME run.op = "idle", ~s2
             PROVE  /\ outcome \in {[op |-> "apply", end |-> "done"], [op |-> "restore", end |-> "undone"]} =>
                           Rpcbind!IsHardened /\ s4 # None
                    /\ outcome \in {[op |-> "apply", end |-> "undone"], [op |-> "restore", end |-> "done"]} =>
                           Rpcbind!AsBefore /\ s4 = None
    BY DEF Rpcbind!RpcbindReportIsTrue, Rpcbind!Busy
<1>1. RpcReported /\ RpcNoted
    BY DEF RpcInv
<1>2. RpcOff => Rpcbind!IsHardened
    BY DEF RpcOff, Rpcbind!IsHardened, Rpcbind!PortBound, Rpcbind!TARGET_UNITS
<1> QED BY <1>1, <1>2 DEF RpcReported, RpcNoted

(* Whatever fails, is killed, rebooted or changed under them, a hardening      *)
(* tool's last report is true of the files, the units and what runs           *)
(* (harden-legacy-redis.py, harden-rpcbind.py and                             *)
(* harden-legacy-sync-service.py, apply_hardening).                          *)
THEOREM HardeningNeverMisreports == Spec => []HardeningReportsAreTrue
<1>1. (tool = "redis" => RedisInv) /\ (tool = "rpcbind" => RpcInv) /\ (tool = "unit" => UnitInv)
          => HardeningReportsAreTrue
    BY RpcReportHolds DEF RedisInv, UnitInv, HardeningReportsAreTrue
<1> QED BY <1>1, RedisInvariance, RpcInvariance, UnitInvariance, PTL

(* The tools as changes that can be undone.                                  *)
LEMMA WayInit ==
    ASSUME Init
    PROVE  Way!Init
<1>1. CASE tool = "redis"
    <2>1. s1 = Redis!Original /\ s2 = {}
        BY <1>1 DEF Init, Redis!Init
    <2>2. Where = "before" /\ ~HasNote
        BY <1>1, <2>1 DEF Where, HasNote, Redis!Place, Redis!Noted, Redis!RECOVERY_FILES
    <2> QED BY <2>2 DEF Way!Init, HasNote
<1>2. CASE tool = "rpcbind"
    <2>1. s5 = s1 /\ s4 = None
        BY <1>2 DEF Init, Rpcbind!Init
    <2>2. Rpcbind!AsBefore
        BY <2>1 DEF Rpcbind!AsBefore
    <2>3. Where = "before" /\ ~HasNote
        BY <1>2, <2>1, <2>2 DEF Where, HasNote, Rpcbind!Place, Rpcbind!Recorded
    <2> QED BY <2>3 DEF Way!Init, HasNote
<1>3. CASE tool \notin {"redis", "rpcbind"}
    BY <1>3 DEF Where, HasNote, Way!Init
<1> QED BY <1>1, <1>2, <1>3

(* Every step of a tool is a note, a step of a noted change, or none.         *)
LEMMA WayStep ==
    ASSUME tool = "redis" => RedisInv, tool = "rpcbind" => RpcInv, [Next]_vars
    PROVE  [Way!Next]_(Way!vars)
<1>1. tool' = tool
    BY OneTool
<1>2. HasNote \in BOOLEAN /\ HasNote' \in BOOLEAN
    BY DEF HasNote
<1>3. CASE tool = "redis"
    <2>1. Where = Redis!Place /\ Where' = Redis!Place' /\ (HasNote <=> Redis!Noted) /\ (HasNote' <=> Redis!Noted')
        BY <1>1, <1>3 DEF Where, HasNote
    <2>2. RedisMoves
        BY <1>3, OneTool, RedisStep
    <2>3. CASE s1' = s1 /\ (Redis!Noted' <=> Redis!Noted)
        <3>1. Where' = Where
            BY <2>1, <2>3 DEF Redis!Place, Redis!Original, Redis!Hardened
        <3>2. HasNote' = HasNote
            BY <1>2, <2>1, <2>3
        <3> QED BY <3>1, <3>2 DEF Way!vars
    <2>4. CASE s1 = Redis!Original /\ s1' = Redis!Original /\ Redis!Noted'
        <3>1. Where = "before" /\ Where' = "before"
            BY <2>1, <2>4 DEF Redis!Place
        <3>2. HasNote' = TRUE
            BY <1>2, <2>1, <2>4
        <3> QED BY <3>1, <3>2 DEF Way!Next, Way!Note
    <2>5. CASE Redis!Noted /\ RedisSettled'
        <3>1. Where' \in Way!Places
            BY <2>1 DEF Redis!Place, Way!Places
        <3>2. Where' = "between" => HasNote'
            BY <2>1, <2>5 DEF Redis!Place, RedisSettled
        <3> QED BY <1>2, <2>1, <2>5, <3>1, <3>2 DEF Way!Next, Way!Change
    <2> QED BY <2>2, <2>3, <2>4, <2>5 DEF RedisMoves
<1>4. CASE tool = "rpcbind"
    <2>1. /\ Where = Rpcbind!Place /\ Where' = Rpcbind!Place'
          /\ (HasNote <=> Rpcbind!Recorded) /\ (HasNote' <=> Rpcbind!Recorded')
        BY <1>1, <1>4 DEF Where, HasNote
    <2>2. RpcNoted /\ RpcNoted' /\ (s4 = None /\ s4' # None => UNCHANGED <<s1, s5>>)
        BY <1>4, OneTool, RpcStep DEF RpcInv
    <2>3. /\ s4 # None => HasNote
          /\ s4 = None => Where = "before" /\ ~HasNote
          /\ s4' # None => HasNote'
          /\ s4' = None => Where' = "before" /\ ~HasNote'
        BY <2>1, <2>2 DEF RpcNoted, Rpcbind!Place, Rpcbind!Recorded
    <2>4. Where' \in Way!Places
        BY <2>1 DEF Rpcbind!Place, Way!Places
    <2>5. CASE s4 # None
        <3>1. Where' = "between" => HasNote'
            BY <2>3
        <3> QED BY <1>2, <2>3, <2>4, <2>5, <3>1 DEF Way!Next, Way!Change
    <2>6. CASE s4 = None /\ s4' = None
        <3>1. Where' = Where /\ HasNote' = HasNote
            BY <1>2, <2>3, <2>6
        <3> QED BY <3>1 DEF Way!vars
    <2>7. CASE s4 = None /\ s4' # None
        <3>1. Where' = Where
            BY <2>1, <2>2, <2>7 DEF Rpcbind!Place, Rpcbind!AsBefore
        <3>2. Where = "before" /\ HasNote' = TRUE
            BY <1>2, <2>3, <2>7
        <3> QED BY <3>1, <3>2 DEF Way!Next, Way!Note
    <2> QED BY <2>5, <2>6, <2>7
<1>5. CASE tool \notin {"redis", "rpcbind"}
    <2>1. Where' = Where
        BY <1>1, <1>5 DEF Where
    <2>2. HasNote' = HasNote
        BY <1>1, <1>5 DEF HasNote
    <2> QED BY <2>1, <2>2 DEF Way!vars
<1> QED BY <1>3, <1>4, <1>5

(* The hardening of Redis and of rpcbind are changes that are noted before    *)
(* they begin and whose note is given up only where the host is as it was or  *)
(* as it shall be: they implement ReversibleChange                            *)
(* (harden-legacy-redis.py, _write_recovery; harden-rpcbind.py,          *)
(* write_state).                                                             *)
THEOREM ToolsGoBack == Spec => GoesBack
<1>1. Init => Way!Init
    BY WayInit
<1>2. (tool = "redis" => RedisInv) /\ (tool = "rpcbind" => RpcInv) /\ [Next]_vars => [Way!Next]_(Way!vars)
    BY WayStep
<1> QED BY <1>1, <1>2, RedisInvariance, RpcInvariance, PTL DEF Spec, GoesBack, Way!Spec

(* No step of a change gives up the note and stops half-way.                 *)
LEMMA StepKeepsWayBack ==
    ASSUME Way!TypeOK, Way!WayBack, [Way!Next]_(Way!vars)
    PROVE  (Way!TypeOK /\ Way!WayBack)'
<1>1. CASE Way!Note
    BY <1>1 DEF Way!Note, Way!TypeOK, Way!WayBack, Way!Places
<1>2. CASE Way!Change
    BY <1>2 DEF Way!Change, Way!TypeOK, Way!WayBack
<1>3. CASE UNCHANGED Way!vars
    BY <1>3 DEF Way!vars, Way!TypeOK, Way!WayBack
<1> QED BY <1>1, <1>2, <1>3 DEF Way!Next

(* In every state of every tool's life, a host between the two configurations *)
(* has the complete record of how it was (harden-legacy-redis.py and           *)
(* harden-rpcbind.py).                                                       *)
THEOREM AlwaysAWayBack == Spec => []Way!WayBack
<1>1. Way!Init => Way!TypeOK /\ Way!WayBack
    BY DEF Way!Init, Way!TypeOK, Way!WayBack, Way!Places
<1>2. GoesBack => []Way!WayBack
    BY <1>1, StepKeepsWayBack, PTL DEF GoesBack, Way!Spec
<1> QED BY <1>2, ToolsGoBack, PTL

-----------------------------------------------------------------------------
(* The shape of every tool's state.                                          *)

(* HardenRedis: the source files are one version or the other.               *)
RedisParts ==
    \E c, e, a, r, k, p :
        s1 = Host(c, e, a, r, k, p) /\ c \in {"soft", "hard"} /\ e \in {"old", "new"}

RedisShape == RedisParts /\ s3 \subseteq Redis!Contracts

(* A command of the change, of the clean-up or of the way back.               *)
LEMMA RedisPartsKept ==
    ASSUME RedisInv, RedisParts, run.op # "idle", Redis!Acts, Redis!Verb \notin Redis!Checks
    PROVE  RedisParts'
<1>1. PICK c, e, a, r, k, p : s1 = Host(c, e, a, r, k, p) /\ c \in {"soft", "hard"} /\ e \in {"old", "new"}
    BY DEF RedisParts
<1>2. PICK i : i = run.i /\ (RedisChanging(i) \/ RedisClearing(i) \/ RedisReading(i) \/ RedisBacking(i) \/ RedisEnding(i))
    BY DEF RedisInv, RedisTyped, RedisRuns, RedisWorks
<1>3. /\ run.phase = "main" => i \in 1..24
      /\ run.phase = "clear" => i \in 1..3
      /\ run.phase = "undo" => i \in 1..15
      /\ run.phase \in {"main", "clear", "undo"}
    BY <1>2 DEF RedisChanging, RedisClearing, RedisReading, RedisBacking, RedisEnding
<1>4. \/ Redis!Verb \in {"note", "forget", "own"}
      \/ Redis!Verb = "halt" /\ Redis!Command[2] \subseteq {"app", "redis"}
      \/ Redis!Verb = "up" /\ Redis!Command[2] \in {"app", "redis"}
      \/ Redis!Verb = "set" /\ \/ Redis!Command[2] = "compose" /\ Redis!Command[3] \in {"soft", "hard"}
                               \/ Redis!Command[2] = "env" /\ Redis!Command[3] \in {"old", "new"}
                               \/ Redis!Command[2] \in {"acl", "residue"}
    <2>1. CASE run.phase = "main"
        BY <1>2, <1>3, <2>1, RedisCommands DEF Redis!Checks
    <2>2. CASE run.phase = "clear"
        BY <1>2, <1>3, <2>2, RedisCommands DEF Redis!Checks
    <2>3. CASE run.phase = "undo"
        BY <1>2, <1>3, <2>3, RedisCommands DEF Redis!Checks
    <2> QED BY <1>3, <2>1, <2>2, <2>3
<1>5. CASE Redis!Verb \in {"note", "forget", "own"}
    BY <1>5, RedisActs DEF RedisParts
<1>6. CASE Redis!Verb = "halt" /\ Redis!Command[2] \subseteq {"app", "redis"}
    <2>1. DOMAIN s1 = {"compose", "env", "acl", "residue", "redis", "app"} /\ s1["compose"] = c /\ s1["env"] = e
        BY <1>1 DEF Host
    <2>2. /\ s1' = [x \in DOMAIN s1' |-> s1'[x]]
          /\ DOMAIN s1' = {"compose", "env", "acl", "residue", "redis", "app"}
          /\ s1'["compose"] = c /\ s1'["env"] = e
        BY <1>6, <2>1, RedisActs
    <2>3. s1' = Host(c, e, s1'["acl"], s1'["residue"], s1'["redis"], s1'["app"])
        BY <2>2, HostMade
    <2> QED BY <1>1, <2>3 DEF RedisParts
<1>7. CASE Redis!Verb = "up" /\ Redis!Command[2] \in {"app", "redis"}
    <2>1. PICK v : s1' = [s1 EXCEPT ![Redis!Command[2]] = v]
        BY <1>7, RedisActs
    <2>2. s1' = Host(c, e, a, r, v, p) \/ s1' = Host(c, e, a, r, k, v)
        BY <1>1, <1>7, <2>1, HostChanges
    <2> QED BY <1>1, <2>2 DEF RedisParts
<1>8. CASE Redis!Verb = "set"
    <2>1. PICK v : v = Redis!Command[3]
        OBVIOUS
    <2>2. CASE Redis!Command[2] = "compose" /\ v \in {"soft", "hard"}
        <3>1. s1' = [s1 EXCEPT !["compose"] = v]
            BY <1>8, <2>1, <2>2, RedisActs
        <3>2. s1' = Host(v, e, a, r, k, p)
            BY <1>1, <3>1, HostChanges
        <3> QED BY <1>1, <2>2, <3>2 DEF RedisParts
    <2>3. CASE Redis!Command[2] = "env" /\ v \in {"old", "new"}
        <3>1. s1' = [s1 EXCEPT !["env"] = v]
            BY <1>8, <2>1, <2>3, RedisActs
        <3>2. s1' = Host(c, v, a, r, k, p)
            BY <1>1, <3>1, HostChanges
        <3> QED BY <1>1, <2>3, <3>2 DEF RedisParts
    <2>4. CASE Redis!Command[2] \in {"acl", "residue"}
        <3>1. \/ s1' = [s1 EXCEPT !["acl"] = v]
              \/ s1' = [s1 EXCEPT !["residue"] = v]
            BY <1>8, <2>1, <2>4, RedisActs
        <3>2. s1' = Host(c, e, v, r, k, p) \/ s1' = Host(c, e, a, v, k, p)
            BY <1>1, <3>1, HostChanges
        <3> QED BY <1>1, <3>2 DEF RedisParts
    <2> QED BY <1>4, <1>8, <2>1, <2>2, <2>3, <2>4
<1> QED BY <1>4, <1>5, <1>6, <1>7, <1>8

LEMMA RedisShapeStep ==
    ASSUME RedisInv, RedisShape, [Redis!Next]_(Redis!vars)
    PROVE  RedisShape'
<1>1. s1' = s1 => RedisParts'
    BY DEF RedisShape, RedisParts
<1>2. \/ s1' = s1
      \/ run.op # "idle" /\ Redis!Acts /\ Redis!Verb \notin Redis!Checks
    BY DEF Redis!Next, Redis!vars, Redis!Applies, Redis!Changes, Redis!Verifies, Redis!CommandFails, Redis!Killed,
           Redis!Disturbed, Redis!Busy
<1>3. s3' \subseteq Redis!Contracts
    BY DEF RedisShape, Redis!Next, Redis!vars, Redis!Applies, Redis!Changes, Redis!Verifies, Redis!CommandFails,
           Redis!Killed, Redis!Disturbed
<1> QED BY <1>1, <1>2, <1>3, RedisPartsKept DEF RedisShape

LEMMA RedisTypes ==
    ASSUME RedisInv, RedisShape
    PROVE  Redis!TypeOK
<1>1. s1.compose \in {"soft", "hard"} /\ s1.env \in {"old", "new"}
    BY HostChanges DEF RedisShape, RedisParts
<1>2. ASSUME run.op # "idle"
      PROVE  run.i \in 1..Len(Redis!Program)
    <2>1. PICK i : i = run.i /\ (RedisChanging(i) \/ RedisClearing(i) \/ RedisReading(i) \/ RedisBacking(i) \/ RedisEnding(i))
        BY <1>2 DEF RedisInv, RedisTyped, RedisRuns, RedisWorks
    <2>2. \/ run.phase = "main" /\ i \in 1..24
          \/ run.phase = "clear" /\ i \in 1..3
          \/ run.phase = "undo" /\ i \in 1..15
        BY <2>1 DEF RedisChanging, RedisClearing, RedisReading, RedisBacking, RedisEnding
    <2> QED BY <2>1, <2>2, RedisCommands
<1> QED BY <1>1, <1>2 DEF Redis!TypeOK, Redis!Busy, RedisInv, RedisTyped, RedisShape

LEMMA RpcTypes ==
    ASSUME RpcInv
    PROVE  Rpcbind!TypeOK
<1>1. ASSUME run.op # "idle"
      PROVE  run.i \in 1..Len(Rpcbind!Program)
    BY <1>1, RpcCommands DEF RpcInv, RpcWorks
<1> QED BY <1>1 DEF Rpcbind!TypeOK, Rpcbind!Busy, RpcInv, RpcTyped, RpcUnits, RpcRuns

LEMMA UnitTypes ==
    ASSUME UnitInv
    PROVE  SyncUnit!TypeOK
<1>1. ASSUME run.op # "idle"
      PROVE  run.i \in 1..Len(SyncUnit!Program)
    <2>1. UnitWorks
        BY <1>1 DEF UnitInv, UnitTyped, UnitRuns
    <2>2. CASE run.phase = "main"
        BY <2>1, <2>2, UnitCommands DEF UnitWorks
    <2>3. CASE run.phase = "recheck"
        <3>1. run.i = 1
            BY <2>1, <2>3 DEF UnitWorks
        <3>2. Len(SyncUnit!Program) = 1
            BY <2>3, UnitCommands
        <3> QED BY <3>1, <3>2
    <2>4. CASE run.phase = "undo"
        BY <2>1, <2>4, UnitCommands DEF UnitWorks
    <2> QED BY <2>1, <2>2, <2>3, <2>4 DEF UnitWorks
<1> QED BY <1>1 DEF SyncUnit!TypeOK, SyncUnit!Busy, UnitInv, UnitTyped

(* NginxDirect *)
LEMMA DirectTypes ==
    ASSUME DirectInv, s3 \subseteq Direct!Contracts
    PROVE  Direct!TypeOK
<1>1. ASSUME run.op # "idle"
      PROVE  run.i \in 1..Len(Direct!Program)
    <2>1. DirectWorks
        BY <1>1 DEF DirectInv, DirectTyped, DirectRuns
    <2>2. CASE run.phase = "main"
        BY <2>1, <2>2, DirectCommands DEF DirectWorks
    <2>3. CASE run.phase = "undo"
        BY <2>1, <2>3, DirectCommands DEF DirectWorks
    <2> QED BY <2>1, <2>2, <2>3 DEF DirectWorks
<1> QED BY <1>1 DEF Direct!TypeOK, Direct!Busy, DirectInv, DirectTyped, DirectFiles

LEMMA DirectContracts ==
    ASSUME s3 \subseteq Direct!Contracts, [Direct!Next]_(Direct!vars)
    PROVE  s3' \subseteq Direct!Contracts
BY DEF Direct!Next, Direct!vars, Direct!Applies, Direct!Changes, Direct!CommandFails, Direct!Killed,
       Direct!Reboots, Direct!Disturbed, Direct!OthersReload

(* SyncCanary *)
LEMMA PortTypes ==
    ASSUME PortInv, s7 \subseteq Canary!Contracts
    PROVE  Canary!TypeOK
<1>1. ASSUME run.op # "idle"
      PROVE  run.i \in 1..Len(Canary!Program(run.op, run.phase))
    <2>1. PortWorks
        BY <1>1 DEF PortInv
    <2>2. CASE run.op = "prepare"
        BY <2>1, <2>2, PrepareCommands DEF PortWorks
    <2>3. CASE run.op = "start"
        BY <2>1, <2>3, StartCommands DEF PortWorks
    <2>4. CASE run.op = "promote" /\ run.phase = "main"
        BY <2>1, <2>4, PromoteCommands DEF PortWorks, PromoteAt
    <2>5. CASE \/ run.op = "promote" /\ run.phase = "undo"
               \/ run.op = "rollback" /\ run.phase = "main"
        BY <2>1, <2>5, LegacyCommands DEF PortWorks, LegacyAt
    <2>6. CASE run.op = "rollback" /\ run.phase = "undo"
        BY <2>1, <2>6, StableCommands DEF PortWorks, StableAt
    <2> QED BY <2>1, <2>2, <2>3, <2>4, <2>5, <2>6 DEF PortWorks
<1>2. \A u \in Canary!Relays : s2[u].state \in {"absent", "up", "stopped"}
    BY DEF PortInv, PortTyped, HostTyped, RelayBoxes
<1> QED BY <1>1, <1>2 DEF Canary!TypeOK, Canary!Busy, PortInv, PortTyped, HostTyped, RelayUnits, PortServed

LEMMA PortContracts ==
    ASSUME s7 \subseteq Canary!Contracts, [Canary!Next]_(Canary!vars)
    PROVE  s7' \subseteq Canary!Contracts
BY DEF Canary!Next, Canary!vars, Canary!Prepares, Canary!Operates, Canary!Begins, Canary!Reattests, Canary!Changes,
       Canary!Verifies, Canary!CommandFails, Canary!Killed, Canary!Reboots, Canary!Disturbed, Canary!Commits,
       Canary!Acts

(* MaintenanceCutover: a container that is ready is there, and the controller *)
(* knows of the nonce container only with the targets.                       *)
CutHostTyped ==
    /\ s3 \in [Cut!Names -> BOOLEAN]
    /\ \A n \in Cut!Names : s3[n] => s2[n] # 0

CutShape ==
    /\ CutHostTyped
    /\ s4 \in {"empty", "fresh", "partial", "copied"}
    /\ run.nonce => run.targets

LEMMA CutHostTypedStep ==
    ASSUME CutTyped, CutHostTyped, Cut!Next
    PROVE  CutHostTyped'
<1>1. UNCHANGED <<s2, s3>> => CutHostTyped'
    BY DEF CutHostTyped
<1>2. ASSUME NEW S \in SUBSET Cut!Names, Cut!Created(S)
      PROVE  CutHostTyped'
    <2>1. s3' = [n \in Cut!Names |-> s3[n] \/ (n \in S /\ s2[n] = 0)]
        BY <1>2 DEF Cut!Created
    <2>2. s3' \in [Cut!Names -> BOOLEAN]
        BY <2>1 DEF CutHostTyped
    <2> QED BY <1>2, <2>1, <2>2, CutCreates DEF CutHostTyped
<1>3. ASSUME NEW S \in SUBSET Cut!Names, Cut!Removed(S)
      PROVE  CutHostTyped'
    <2>1. s3' = [n \in Cut!Names |-> s3[n] /\ n \notin S]
        BY <1>3 DEF Cut!Removed
    <2>2. s3' \in [Cut!Names -> BOOLEAN]
        BY <2>1 DEF CutHostTyped
    <2> QED BY <1>3, <2>1, <2>2, CutRemoves DEF CutHostTyped
<1>4. ASSUME s2' = s2, NEW m \in Cut!Names, s3' = [s3 EXCEPT ![m] = FALSE]
      PROVE  CutHostTyped'
    BY <1>4 DEF CutHostTyped
<1>5. {"pg"} \in SUBSET Cut!Names /\ {"nonce"} \in SUBSET Cut!Names /\ Cut!Pinned \in SUBSET Cut!Names /\ "pg" \in Cut!Names
    BY DEF Cut!Names, Cut!Pinned
<1>6. CASE Cut!StartsTargets
    <2>1. Cut!Starting \in SUBSET Cut!Names
        BY <1>6 DEF Cut!StartsTargets, Cut!Starting, Cut!Names, Cut!Pinned
    <2> QED BY <1>2, <1>6, <2>1 DEF Cut!StartsTargets
<1>7. CASE Cut!DropsPostgres \/ Cut!DropsNonce \/ Cut!TakesDown \/ Cut!TakesNonceDown
    BY <1>1, <1>3, <1>5, <1>7 DEF Cut!DropsPostgres, Cut!DropsNonce, Cut!TakesDown, Cut!TakesNonceDown
<1>8. CASE Cut!FailsHalfway
    <2>1. \A n \in {"pg", "redis"} : {n} \in SUBSET Cut!Names
        BY DEF Cut!Names, Cut!Pinned
    <2> QED BY <1>1, <1>2, <1>3, <1>4, <1>5, <1>8, <2>1 DEF Cut!FailsHalfway, Cut!target
<1>9. CASE Cut!UndoingFails
    <2>1. \A S \in SUBSET Cut!Pinned : S \in SUBSET Cut!Names
        BY DEF Cut!Names
    <2>2. \A S \in SUBSET {"nonce"} : S \in SUBSET Cut!Names
        BY DEF Cut!Names
    <2> QED BY <1>1, <1>3, <1>9, <2>1, <2>2 DEF Cut!UndoingFails, Cut!target
<1>10. CASE Cut!FallsOver
    BY <1>1, <1>4, <1>10 DEF Cut!FallsOver
<1>11. CASE \/ Cut!Applies \/ Cut!Recovers \/ Cut!ChecksHost \/ Cut!Marks \/ Cut!Persists \/ Cut!PinsTarget
            \/ Cut!InstallsAcl \/ Cut!ChecksRollback \/ Cut!StopsWriter \/ Cut!ChecksStopped \/ Cut!Copies
            \/ Cut!Switches \/ Cut!Reloads \/ Cut!Canaries \/ Cut!Completes \/ Cut!Catches \/ Cut!StartsLegacy
            \/ Cut!WritesStable \/ Cut!ServesStable \/ Cut!Identifies \/ Cut!ResetsData \/ Cut!Finishes
            \/ Cut!Interrupted \/ Cut!FinishFails \/ Cut!DeadlinePasses \/ Cut!Killed
    <2>1. UNCHANGED <<s2, s3>>
        BY <1>11 DEF Cut!Applies, Cut!Recovers, Cut!ChecksHost, Cut!Marks, Cut!Persists, Cut!PinsTarget,
            Cut!InstallsAcl, Cut!ChecksRollback, Cut!StopsWriter, Cut!ChecksStopped, Cut!Copies, Cut!Switches,
            Cut!Reloads, Cut!Canaries, Cut!Completes, Cut!Catches, Cut!StartsLegacy, Cut!WritesStable,
            Cut!ServesStable, Cut!Identifies, Cut!ResetsData, Cut!Finishes, Cut!Interrupted, Cut!FinishFails,
            Cut!DeadlinePasses, Cut!Killed, Cut!target
    <2> QED BY <1>1, <2>1
<1> QED BY <1>6, <1>7, <1>8, <1>9, <1>10, <1>11 DEF Cut!Next, Cut!Works, Cut!GoesWrong

LEMMA CutDataStep ==
    ASSUME s4 \in {"empty", "fresh", "partial", "copied"}, Cut!Next
    PROVE  s4' \in {"empty", "fresh", "partial", "copied"}
BY DEF Cut!Next, Cut!Works, Cut!GoesWrong, Cut!StartsTargets, Cut!DropsPostgres, Cut!DropsNonce, Cut!TakesDown,
       Cut!TakesNonceDown, Cut!FailsHalfway, Cut!UndoingFails, Cut!FallsOver, Cut!Applies, Cut!Recovers,
       Cut!ChecksHost, Cut!Marks, Cut!Persists, Cut!PinsTarget, Cut!InstallsAcl, Cut!ChecksRollback,
       Cut!StopsWriter, Cut!ChecksStopped, Cut!Copies, Cut!Switches, Cut!Reloads, Cut!Canaries, Cut!Completes,
       Cut!Catches, Cut!StartsLegacy, Cut!WritesStable, Cut!ServesStable, Cut!Identifies, Cut!ResetsData,
       Cut!Finishes, Cut!Interrupted, Cut!FinishFails, Cut!DeadlinePasses, Cut!Killed, Cut!target

(* What the controller remembers of containers changes only when they are     *)
(* marked, with a run, and with a record that is read.                       *)
CutMemory(r) ==
    /\ DOMAIN r = {"pc", "targets", "nonce", "pins", "errors"}
    /\ r.targets = run.targets /\ r.nonce = run.nonce

LEMMA CutRemembers ==
    ASSUME run \in CutRuns
    PROVE  /\ CutMemory(run) /\ CutMemory(Cut!Onward) /\ CutMemory(Cut!Caught) /\ CutMemory(Cut!Undone)
           /\ \A e : CutMemory(Cut!Failing(e)) /\ CutMemory(Cut!GivenUp(e))
           /\ \A r, v : CutMemory(r) => CutMemory([r EXCEPT !.pc = v]) /\ CutMemory([r EXCEPT !.pins = v])
<1>1. \A v, e : CutMemory(run) /\ CutMemory([run EXCEPT !.pc = v]) /\ CutMemory([run EXCEPT !.pc = v, !.errors = e])
    BY DEF CutRuns, CutMemory
<1>2. \A r, v : CutMemory(r) => CutMemory([r EXCEPT !.pc = v]) /\ CutMemory([r EXCEPT !.pins = v])
    BY DEF CutMemory
<1>3. CutMemory(Cut!Onward) /\ CutMemory(Cut!Caught) /\ CutMemory(Cut!Undone)
    BY <1>1 DEF Cut!Onward, Cut!Caught, Cut!Undone
<1>4. \A e : CutMemory(Cut!Failing(e)) /\ CutMemory(Cut!GivenUp(e))
    BY <1>1 DEF Cut!Failing, Cut!GivenUp
<1> QED BY <1>1, <1>2, <1>3, <1>4

LEMMA CutKnowsStep ==
    ASSUME CutInv, run.nonce => run.targets, Cut!Next
    PROVE  run'.nonce => run'.targets
<1>1. run \in CutRuns
    BY DEF CutInv, CutTyped
<1>2. CutMemory(run') => (run'.nonce => run'.targets)
    BY DEF CutMemory
<1>3. ~Cut!Idle.nonce
    BY DEF Cut!Idle
<1>4. Cut!At("mark") \/ Cut!At("marknonce") => /\ Cut!Marked.nonce => Cut!Marked.targets
                                           /\ {"nonce", "targets"} \subseteq DOMAIN Cut!Marked
    <2>1. CutMemory(Cut!Onward)
        BY <1>1, CutRemembers
    <2>2. CASE Cut!At("mark")
        <3>1. Cut!Marked = [Cut!Onward EXCEPT !.targets = TRUE]
            BY <2>2 DEF Cut!Marked
        <3> QED BY <2>1, <3>1 DEF CutMemory
    <2>3. CASE Cut!At("marknonce")
        <3>1. Cut!Marked = [Cut!Onward EXCEPT !.nonce = TRUE]
            BY <2>3 DEF Cut!Marked, Cut!At
        <3>2. run.targets
            BY <2>3, StepNames, StepHolds DEF Cut!At, ExecuteAt
        <3> QED BY <2>1, <3>1, <3>2 DEF CutMemory
    <2> QED BY <2>2, <2>3
<1>5. CASE Cut!Applies
    <2>1. run' = [Cut!Idle EXCEPT !.pc = "check"]
        BY <1>5 DEF Cut!Applies
    <2> QED BY <2>1 DEF Cut!Idle
<1>6. CASE Cut!Recovers
    <2>1. s8 \in Cut!Documents /\ s8.targets /\ run' = [Cut!Remembered EXCEPT !.pc = Cut!Undoing[1]]
        BY <1>6 DEF Cut!Recovers, CutInv, CutTyped
    <2>2. run' = [pc |-> Cut!Undoing[1], targets |-> s8.targets, nonce |-> s8.nonce, pins |-> s8.pins, errors |-> {}]
        BY <2>1 DEF Cut!Remembered, Cut!Idle
    <2> QED BY <2>1, <2>2
<1>7. CASE Cut!Marks
    BY <1>4, <1>7 DEF Cut!Marks, Cut!At
<1>8. CASE Cut!PinsTarget
    <2>1. PICK w \in BOOLEAN : \E p : run' = [IF w THEN Cut!Onward ELSE Cut!Caught EXCEPT !.pins = p]
        BY <1>8 DEF Cut!PinsTarget
    <2>2. PICK p : run' = [IF w THEN Cut!Onward ELSE Cut!Caught EXCEPT !.pins = p]
        BY <2>1
    <2>3. CASE w = TRUE
        BY <1>1, <1>2, <2>2, <2>3, CutRemembers
    <2>4. CASE w = FALSE
        BY <1>1, <1>2, <2>2, <2>4, CutRemembers
    <2> QED BY <2>3, <2>4
<1>9. CASE Cut!DropsPostgres
    <2>1. CASE run' = Cut!Caught
        BY <1>1, <1>2, <2>1, CutRemembers
    <2>2. CASE run' # Cut!Caught
        <3>1. PICK p : run' = [Cut!Onward EXCEPT !.pins = p]
            BY <1>9, <2>2 DEF Cut!DropsPostgres
        <3> QED BY <1>1, <1>2, <3>1, CutRemembers
    <2> QED BY <2>1, <2>2
<1>10. CASE Cut!Catches
    <2>1. run' = Cut!Idle \/ run' = [run EXCEPT !.pc = Cut!Undoing[1], !.errors = {}]
        BY <1>10 DEF Cut!Catches
    <2> QED BY <1>1, <1>3, <2>1 DEF CutRuns
<1>11. CASE Cut!FailsHalfway
    <2>1. \/ (Cut!At("mark") \/ Cut!At("marknonce")) /\ run' = [Cut!Marked EXCEPT !.pc = "caught"]
          \/ run' = Cut!Caught
        BY <1>11 DEF Cut!FailsHalfway, Cut!At
    <2>2. CASE run' = Cut!Caught
        BY <1>1, <1>2, <2>2, CutRemembers
    <2>3. CASE (Cut!At("mark") \/ Cut!At("marknonce")) /\ run' = [Cut!Marked EXCEPT !.pc = "caught"]
        <3>1. run'.nonce = Cut!Marked.nonce /\ run'.targets = Cut!Marked.targets
            BY <1>4, <2>3
        <3> QED BY <1>4, <2>3, <3>1
    <2> QED BY <2>1, <2>2, <2>3
<1>12. CASE \/ Cut!ChecksHost \/ Cut!Persists \/ Cut!StartsTargets \/ Cut!InstallsAcl \/ Cut!ChecksRollback
            \/ Cut!StopsWriter \/ Cut!ChecksStopped \/ Cut!Copies \/ Cut!DropsNonce \/ Cut!Switches
            \/ Cut!Reloads \/ Cut!Canaries \/ Cut!Interrupted
    <2>1. run' \in {Cut!Onward, Cut!Caught}
        BY <1>12 DEF Cut!ChecksHost, Cut!Persists, Cut!StartsTargets, Cut!InstallsAcl, Cut!ChecksRollback,
            Cut!StopsWriter, Cut!ChecksStopped, Cut!Copies, Cut!DropsNonce, Cut!Switches, Cut!Reloads,
            Cut!Canaries, Cut!Interrupted, Cut!Proceeds
    <2> QED BY <1>1, <1>2, <2>1, CutRemembers
<1>13. CASE \/ Cut!StartsLegacy \/ Cut!WritesStable \/ Cut!ServesStable \/ Cut!Identifies \/ Cut!TakesDown
            \/ Cut!TakesNonceDown \/ Cut!ResetsData \/ Cut!UndoingFails
    <2>1. run' = Cut!Undone \/ \E e : run' \in {Cut!Failing(e), Cut!GivenUp(e)}
        BY <1>13 DEF Cut!StartsLegacy, Cut!WritesStable, Cut!ServesStable, Cut!Identifies, Cut!TakesDown,
            Cut!TakesNonceDown, Cut!ResetsData, Cut!UndoingFails
    <2> QED BY <1>1, <1>2, <2>1, CutRemembers
<1>14. CASE Cut!Completes \/ Cut!Finishes \/ Cut!FinishFails \/ Cut!Killed
    BY <1>3, <1>14 DEF Cut!Completes, Cut!Finishes, Cut!FinishFails, Cut!Killed
<1>15. CASE Cut!DeadlinePasses \/ Cut!FallsOver
    BY <1>15 DEF Cut!DeadlinePasses, Cut!FallsOver
<1> QED BY <1>5, <1>6, <1>7, <1>8, <1>9, <1>10, <1>11, <1>12, <1>13, <1>14, <1>15
        DEF Cut!Next, Cut!Works, Cut!GoesWrong

LEMMA CutTypes ==
    ASSUME CutInv, CutShape
    PROVE  Cut!TypeOK
<1>1. run.pc \in {"idle", "caught"} \cup Cut!Forward \cup Cut!Back
    <2>1. Cut!Forward = {Cut!Steps[k] : k \in 1..28}
        <3>1. Cut!ToSet(Cut!Steps) = {Cut!Steps[k] : k \in DOMAIN Cut!Steps}
            BY DEF Cut!ToSet
        <3> QED BY <3>1, StepOrder DEF Cut!Forward
    <2>2. Cut!Back = {Cut!Undoing[k] : k \in 1..11}
        <3>1. Cut!ToSet(Cut!Undoing) = {Cut!Undoing[k] : k \in DOMAIN Cut!Undoing}
            BY DEF Cut!ToSet
        <3> QED BY <3>1, UndoOrder DEF Cut!Back
    <2> QED BY <2>1, <2>2 DEF CutInv, CutTyped, CutRuns, CutPlaces
<1>2. run.pins \in [Cut!Pinned -> Cut!Ids \cup {0}]
    BY DEF CutInv, CutTyped, CutRuns
<1> QED BY <1>1, <1>2 DEF Cut!TypeOK, CutInv, CutTyped, CutShape, CutHostTyped

(* What the tools' invariants do not say of the shape of their state.         *)
ToolShape ==
    /\ tool \in {"redis", "rpcbind", "unit", "direct", "aop", "retire", "canary", "cutover"}
    /\ tool = "redis" => RedisInv /\ RedisShape
    /\ tool = "direct" => s3 \subseteq Direct!Contracts
    /\ tool = "canary" => s7 \subseteq Canary!Contracts
    /\ tool = "cutover" => CutInv /\ CutShape

LEMMA ToolShapeInit ==
    ASSUME Init
    PROVE  ToolShape
<1>1. ASSUME tool = "redis"
      PROVE  RedisInv /\ RedisShape
    <2>1. Redis!Init
        BY <1>1 DEF Init
    <2> QED BY <1>1, <2>1, HostEnds, RedisInit DEF Redis!Init, RedisShape, RedisParts
<1>2. ASSUME tool = "direct"
      PROVE  s3 \subseteq Direct!Contracts
    BY <1>2 DEF Init, Direct!Init
<1>3. ASSUME tool = "canary"
      PROVE  s7 \subseteq Canary!Contracts
    BY <1>3 DEF Init, Canary!Init
<1>4. ASSUME tool = "cutover"
      PROVE  CutInv /\ CutShape
    <2>1. Cut!Init
        BY <1>4 DEF Init
    <2>2. CutShape
        BY <2>1 DEF Cut!Init, Cut!Idle, CutShape, CutHostTyped
    <2> QED BY <2>1, <2>2, CutInit
<1>5. tool \in {"redis", "rpcbind", "unit", "direct", "aop", "retire", "canary", "cutover"}
    BY DEF Init
<1> QED BY <1>1, <1>2, <1>3, <1>4, <1>5 DEF ToolShape

LEMMA CutShapeStep ==
    ASSUME CutInv, CutShape, [Cut!Next]_(Cut!vars)
    PROVE  CutShape'
<1>1. CASE Cut!Next
    <2>1. CutHostTyped'
        BY <1>1, CutHostTypedStep DEF CutInv, CutShape
    <2>2. s4' \in {"empty", "fresh", "partial", "copied"}
        BY <1>1, CutDataStep DEF CutShape
    <2>3. run'.nonce => run'.targets
        BY <1>1, CutKnowsStep DEF CutShape
    <2> QED BY <2>1, <2>2, <2>3 DEF CutShape
<1>2. CASE UNCHANGED Cut!vars
    BY <1>2 DEF Cut!vars, Cut!target, CutShape, CutHostTyped
<1> QED BY <1>1, <1>2

LEMMA ToolShapeStep ==
    ASSUME ToolShape, [Next]_vars
    PROVE  ToolShape'
<1>1. tool' = tool
    BY OneTool
<1>2. ASSUME tool = "redis"
      PROVE  (RedisInv /\ RedisShape)'
    BY <1>2, OneTool, RedisStep, RedisShapeStep DEF ToolShape
<1>3. ASSUME tool = "direct"
      PROVE  s3' \subseteq Direct!Contracts
    BY <1>3, OneTool, DirectContracts DEF ToolShape
<1>4. ASSUME tool = "canary"
      PROVE  s7' \subseteq Canary!Contracts
    BY <1>4, OneTool, PortContracts DEF ToolShape
<1>5. ASSUME tool = "cutover"
      PROVE  (CutInv /\ CutShape)'
    BY <1>5, CutoverSteps, CutStep, CutShapeStep DEF ToolShape
<1> QED BY <1>1, <1>2, <1>3, <1>4, <1>5 DEF ToolShape

(* Each tool keeps the shape of its host and of its program, for any bounds: a *)
(* command that runs is one of its program, the contracts it checks are those  *)
(* it knows, and a target container that is ready is there                     *)
(* (harden-legacy-redis.py to maintenance-cutover.py, their apply).            *)
THEOREM ToolsKeepShape == Spec => []TypeOK
<1>1. /\ ToolShape /\ (tool = "rpcbind" => RpcInv) /\ (tool = "unit" => UnitInv)
      /\ (tool = "direct" => DirectInv) /\ (tool = "aop" => AopInv) /\ (tool = "retire" => RetireInv)
      /\ (tool = "canary" => PortInv)
      => TypeOK
    <2> SUFFICES ASSUME ToolShape, tool = "rpcbind" => RpcInv, tool = "unit" => UnitInv,
                        tool = "direct" => DirectInv, tool = "aop" => AopInv, tool = "retire" => RetireInv,
                        tool = "canary" => PortInv
                 PROVE  TypeOK
        OBVIOUS
    <2>1. tool = "redis" => Redis!TypeOK
        BY RedisTypes DEF ToolShape
    <2>2. (tool = "rpcbind" => Rpcbind!TypeOK) /\ (tool = "unit" => SyncUnit!TypeOK)
        BY RpcTypes, UnitTypes
    <2>3. (tool = "direct" => Direct!TypeOK) /\ (tool = "canary" => Canary!TypeOK)
        BY DirectTypes, PortTypes DEF ToolShape
    <2>4. (tool = "aop" => Aop!TypeOK) /\ (tool = "retire" => Retire!TypeOK)
        BY DEF AopInv, RetireInv
    <2>5. tool = "cutover" => Cut!TypeOK
        BY CutTypes DEF ToolShape
    <2>6. tool \in {"redis", "rpcbind", "unit", "direct", "aop", "retire", "canary", "cutover"}
        BY DEF ToolShape
    <2> QED BY <2>1, <2>2, <2>3, <2>4, <2>5, <2>6 DEF TypeOK
<1>2. Spec => []ToolShape
    BY ToolShapeInit, ToolShapeStep, PTL DEF Spec
<1> QED BY <1>1, <1>2, RpcInvariance, UnitInvariance, DirectInvariance, AopInvariance, RetireInvariance,
           PortInvariance, PTL

=============================================================================
