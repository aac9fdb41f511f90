------------------------ MODULE LegacyCleanupProofs ------------------------
(***************************************************************************)
(* Theorems about the cleanup of the legacy KV keys, for any keys, number  *)
(* of requests, delays, number of inspections and bounds on trouble.       *)
(***************************************************************************)
EXTENDS LegacyCleanup, TLAPS

RunStates == [pc : {"idle", "asked", "clean", "schedule", "done"}, todo : SUBSET Keys]

HandlerStates ==
    [pc : {"idle", "inspect", "retry", "recheck"}, todo : SUBSET Keys,
     residual : BOOLEAN, age : Nat, gap : Nat]

(* Shape of the object, of KV, of the requests and of the handler.           *)
Typed ==
    /\ state \in {"pending", "verifying", "complete"}
    /\ versioned \in BOOLEAN /\ arming \in BOOLEAN /\ cut \in BOOLEAN
    /\ rechecks \in 0 .. Rechecks
    /\ lease \in Nat /\ sinceClean \in Nat
    /\ alarm \in Nat \cup {NoAlarm}
    /\ kv \in SUBSET Keys /\ old \in SUBSET Keys
    /\ run \in [Runs -> RunStates]
    /\ handler \in HandlerStates
    /\ trouble \in Nat /\ restarts \in Nat

(* A status call that is about to arm has set the alarm, and no event takes   *)
(* it away in between.                                                       *)
ArmingIsScheduled == arming => alarm # NoAlarm

(* What was there all the time is in KV, and the handler has seen it or is    *)
(* going to.                                                                 *)
NothingMissed ==
    /\ old \subseteq kv
    /\ handler.pc = "inspect" => handler.residual \/ old \subseteq handler.todo

(* Every alarm is due RecheckDelay or more after the beginning of the last    *)
(* inspection that counted, or of the one that goes on; so each began as late *)
(* as was meant.                                                             *)
Begun == IF handler.pc = "inspect" THEN handler.age ELSE sinceClean

Spaced ==
    ~cut =>
        /\ alarm # NoAlarm => alarm + Begun >= RecheckDelay
        /\ handler.pc \in {"inspect", "retry"} => sinceClean >= RecheckDelay
        /\ handler.pc = "inspect" => handler.gap >= RecheckDelay

IInv == Typed /\ ArmingIsScheduled /\ VerifyingHasDriver /\ NothingMissed /\ Spaced

-----------------------------------------------------------------------------
(* A step is one of these; the events wait until storage has answered.       *)
Step ==
    \/ \E r \in Runs : Asks(r) \/ Claims(r) \/ CleaningFails(r) \/ CleaningEnds(r) \/ Schedules(r)
    \/ \E r \in Runs, k \in Keys : CleansKey(r, k)
    \/ ArmingSchedules \/ Arms
    \/ Open /\ AlarmFires
    \/ \E k \in Keys : InspectsKey(k)
    \/ InspectionFails \/ InspectionFindsResidue \/ InspectionIsClean \/ HandlerSchedules
    \/ \E k \in Keys : LateWrite(k)
    \/ Restarts
    \/ Tick
    \/ UNCHANGED vars

LEMMA StepCases == [Next]_vars => Step
    BY DEF Next, Event, RunEvent, HandlerEvent, StorageReturns, Step

(* An alarm that is moved is set, and no later than the delay asked for.      *)
LEMMA SoonerIsSet ==
    ASSUME alarm \in Nat \cup {NoAlarm}, NEW delay \in Nat
    PROVE  /\ Sooner(delay) \in Nat /\ Sooner(delay) # NoAlarm
           /\ Sooner(delay) = delay \/ (alarm # NoAlarm /\ Sooner(delay) = alarm)
    BY AlarmAssumption DEF Sooner

(* A countdown stays a countdown, and an alarm stays set.                     *)
LEMMA LessTyped ==
    ASSUME NEW d \in Nat \cup {NoAlarm}
    PROVE  /\ Less(d) \in Nat \cup {NoAlarm}
           /\ d # NoAlarm => Less(d) \in Nat /\ Less(d) # NoAlarm /\ d <= Less(d) + 1
           /\ d = NoAlarm => Less(d) = NoAlarm
    BY AlarmAssumption DEF Less

(* The clocks of the history stop at RecheckDelay.                           *)
LEMMA MoreTyped ==
    ASSUME NEW d \in Nat
    PROVE  /\ More(d) \in Nat
           /\ d >= RecheckDelay => More(d) >= RecheckDelay
           /\ d < RecheckDelay => More(d) = d + 1
    BY DelayAssumption DEF More

LEMMA BeginVerificationTyped ==
    ASSUME BeginVerification
    PROVE  /\ state' \in {"pending", "verifying", "complete"}
           /\ versioned' \in BOOLEAN /\ rechecks' \in 0 .. Rechecks
           /\ lease' \in Nat /\ sinceClean' \in Nat
    BY DelayAssumption, CountAssumption DEF BeginVerification

LEMMA TypedInductive == Typed /\ [Next]_vars => Typed'
<1> SUFFICES ASSUME Typed, Step PROVE Typed'
    BY StepCases
<1> USE DEF schedule, history
<1>1. ASSUME NEW r \in Runs, Asks(r) PROVE Typed'
    BY <1>1 DEF Asks, Typed, RunStates
<1>2. ASSUME NEW r \in Runs, Claims(r) PROVE Typed'
    BY <1>2, DelayAssumption DEF Claims, Typed, RunStates
<1>3. ASSUME NEW r \in Runs, CleaningFails(r) PROVE Typed'
    BY <1>3 DEF CleaningFails, Typed, RunStates
<1>4. ASSUME NEW r \in Runs, CleaningEnds(r) PROVE Typed'
    BY <1>4, BeginVerificationTyped DEF CleaningEnds, Typed, RunStates
<1>5. ASSUME NEW r \in Runs, Schedules(r) PROVE Typed'
    BY <1>5, SoonerIsSet, DelayAssumption DEF Schedules, Typed, RunStates
<1>6. ASSUME NEW r \in Runs, NEW k \in Keys, CleansKey(r, k) PROVE Typed'
    BY <1>6 DEF CleansKey, Typed, RunStates
<1>7. CASE ArmingSchedules
    BY <1>7, SoonerIsSet, DelayAssumption DEF ArmingSchedules, Typed
<1>8. CASE Arms
  <2>1. state' \in {"pending", "verifying", "complete"} /\ versioned' \in BOOLEAN
    BY <1>8 DEF Arms, Typed
  <2>2. rechecks' \in 0 .. Rechecks
    BY <1>8, CountAssumption DEF Arms, Typed
  <2> QED BY <1>8, <2>1, <2>2 DEF Arms, Typed
<1>9. CASE AlarmFires
    BY <1>9 DEF AlarmFires, Asleep, Typed, HandlerStates
<1>10. ASSUME NEW k \in Keys, InspectsKey(k) PROVE Typed'
  <2>1. Residual(k) \in BOOLEAN
    BY DEF Residual, Typed, HandlerStates
  <2> QED BY <1>10, <2>1 DEF InspectsKey, Typed, HandlerStates
<1>11. CASE InspectionFails
    BY <1>11, BeginVerificationTyped DEF InspectionFails, Typed, HandlerStates
<1>12. CASE InspectionFindsResidue
    BY <1>12, BeginVerificationTyped DEF InspectionFindsResidue, Typed, HandlerStates
<1>13. CASE InspectionIsClean
    BY <1>13, CountAssumption DEF InspectionIsClean, AfterClean, Asleep, Typed, HandlerStates
<1>14. CASE HandlerSchedules
    BY <1>14, SoonerIsSet, DelayAssumption
    DEF HandlerSchedules, NextDelay, Asleep, Typed, HandlerStates
<1>15. ASSUME NEW k \in Keys, LateWrite(k) PROVE Typed'
    BY <1>15 DEF LateWrite, Typed
<1>16. CASE Restarts
  <2>1. cut' \in BOOLEAN
    BY <1>16 DEF Restarts, Typed
  <2>2. run' \in [Runs -> RunStates]
    BY <1>16 DEF Restarts, Typed, RunStates
  <2>3. alarm' \in Nat \cup {NoAlarm} /\ handler' \in HandlerStates /\ restarts' \in Nat
    BY <1>16 DEF Restarts, Asleep, Typed, HandlerStates
  <2> QED BY <1>16, <2>1, <2>2, <2>3 DEF Restarts, Typed
<1>17. CASE Tick
    BY <1>17, LessTyped, MoreTyped, AlarmAssumption DEF Tick, Typed, HandlerStates
<1>18. CASE UNCHANGED vars
    BY <1>18 DEF vars, Typed
<1> QED
    BY <1>1, <1>2, <1>3, <1>4, <1>5, <1>6, <1>7, <1>8, <1>9, <1>10, <1>11, <1>12, <1>13,
       <1>14, <1>15, <1>16, <1>17, <1>18 DEF Step

LEMMA ArmingInductive ==
    Typed /\ ArmingIsScheduled /\ [Next]_vars => ArmingIsScheduled'
<1> SUFFICES ASSUME Typed, ArmingIsScheduled, Step PROVE ArmingIsScheduled'
    BY StepCases
<1>1. CASE ArmingSchedules
    BY <1>1, SoonerIsSet, DelayAssumption DEF ArmingSchedules, Typed, ArmingIsScheduled
<1>2. CASE \E r \in Runs : Schedules(r)
    BY <1>2, SoonerIsSet, DelayAssumption DEF Schedules, Typed, ArmingIsScheduled
<1>3. CASE HandlerSchedules
    BY <1>3, SoonerIsSet, DelayAssumption DEF HandlerSchedules, NextDelay, Typed, ArmingIsScheduled
<1>4. CASE Open /\ AlarmFires
    BY <1>4 DEF Open, AlarmFires, ArmingIsScheduled
<1>5. CASE Arms \/ Restarts
    BY <1>5 DEF Arms, Restarts, ArmingIsScheduled
<1>6. CASE Tick
    BY <1>6, LessTyped DEF Tick, Typed, ArmingIsScheduled
<1>7. CASE UNCHANGED <<arming, alarm>>
    BY <1>7 DEF ArmingIsScheduled
<1> QED
    BY <1>1, <1>2, <1>3, <1>4, <1>5, <1>6, <1>7
    DEF Step, Asks, Claims, CleaningFails, CleaningEnds, CleansKey, InspectsKey, InspectionFails,
        InspectionFindsResidue, InspectionIsClean, LateWrite, vars

(* Whoever starts a verification is the one that sets the alarm next, and     *)
(* only the handler takes the alarm.                                         *)
LEMMA DriverInductive ==
    IInv /\ [Next]_vars => VerifyingHasDriver'
<1> SUFFICES ASSUME IInv, Step PROVE VerifyingHasDriver'
    BY StepCases
<1> USE DEF IInv, schedule, history
<1>1. CASE \E r \in Runs : Asks(r) \/ Claims(r) \/ CleaningFails(r)
    BY <1>1 DEF Asks, Claims, CleaningFails, VerifyingHasDriver, Typed, RunStates
<1>2. ASSUME NEW r \in Runs, NEW k \in Keys, CleansKey(r, k) PROVE VerifyingHasDriver'
    BY <1>2 DEF CleansKey, VerifyingHasDriver, Typed, RunStates
<1>3. ASSUME NEW r \in Runs, CleaningEnds(r) PROVE VerifyingHasDriver'
  <2>1. run'[r].pc = "schedule"
    BY <1>3 DEF CleaningEnds, Typed, RunStates
  <2> QED BY <2>1 DEF VerifyingHasDriver
<1>4. CASE ArmingSchedules \/ \E r \in Runs : Schedules(r)
    BY <1>4, SoonerIsSet, DelayAssumption
    DEF ArmingSchedules, Schedules, VerifyingHasDriver, Typed
<1>5. CASE Arms
    BY <1>5 DEF Arms, ArmingIsScheduled, VerifyingHasDriver
<1>6. CASE AlarmFires
    BY <1>6 DEF AlarmFires, VerifyingHasDriver
<1>7. CASE \E k \in Keys : InspectsKey(k)
    BY <1>7 DEF InspectsKey, VerifyingHasDriver, Typed, HandlerStates
<1>8. CASE InspectionFails \/ InspectionFindsResidue
    BY <1>8 DEF InspectionFails, InspectionFindsResidue, VerifyingHasDriver, Typed, HandlerStates
<1>9. CASE InspectionIsClean
    BY <1>9 DEF InspectionIsClean, AfterClean, VerifyingHasDriver, Typed, HandlerStates
<1>10. CASE HandlerSchedules
    BY <1>10, SoonerIsSet, DelayAssumption
    DEF HandlerSchedules, NextDelay, VerifyingHasDriver, Typed
<1>11. CASE \E k \in Keys : LateWrite(k)
    BY <1>11 DEF LateWrite, VerifyingHasDriver
<1>12. CASE Restarts
  <2>1. CASE cut'
    BY <2>1 DEF VerifyingHasDriver
  <2>2. CASE ~cut'
    <3>1. ~cut /\ handler.pc # "recheck" /\ \A r \in Runs : run[r].pc # "schedule"
      BY <1>12, <2>2 DEF Restarts, Typed
    <3>2. state = "verifying" => alarm # NoAlarm \/ handler.pc # "idle"
      BY <3>1 DEF VerifyingHasDriver
    <3> QED BY <1>12, <3>2, AlarmAssumption DEF Restarts, VerifyingHasDriver
  <2> QED BY <2>1, <2>2
<1>13. CASE Tick
    BY <1>13, LessTyped DEF Tick, VerifyingHasDriver, Typed, HandlerStates
<1>14. CASE UNCHANGED vars
    BY <1>14 DEF vars, VerifyingHasDriver
<1> QED
    BY <1>1, <1>2, <1>3, <1>4, <1>5, <1>6, <1>7, <1>8, <1>9, <1>10, <1>11, <1>12, <1>13, <1>14
    DEF Step

(* A key leaves KV and the history together; a key that is passed over is    *)
(* either not there or leaves a residue.                                     *)
LEMMA NothingMissedInductive ==
    Typed /\ NothingMissed /\ [Next]_vars => NothingMissed'
<1> SUFFICES ASSUME Typed, NothingMissed, Step PROVE NothingMissed'
    BY StepCases
<1> USE DEF schedule, history
<1>1. ASSUME NEW r \in Runs, NEW k \in Keys, CleansKey(r, k) PROVE NothingMissed'
    BY <1>1 DEF CleansKey, NothingMissed
<1>2. CASE AlarmFires
    BY <1>2 DEF AlarmFires, Asleep, NothingMissed, Typed
<1>3. ASSUME NEW k \in Keys, InspectsKey(k) PROVE NothingMissed'
    BY <1>3 DEF InspectsKey, Residual, NothingMissed, Typed, HandlerStates
<1>4. CASE InspectionFails \/ InspectionFindsResidue
    BY <1>4 DEF InspectionFails, InspectionFindsResidue, NothingMissed, Typed, HandlerStates
<1>5. CASE InspectionIsClean
    BY <1>5 DEF InspectionIsClean, AfterClean, Asleep, NothingMissed, Typed, HandlerStates
<1>6. CASE HandlerSchedules \/ Restarts
    BY <1>6 DEF HandlerSchedules, Restarts, Asleep, NothingMissed
<1>7. CASE \E k \in Keys : LateWrite(k)
    BY <1>7 DEF LateWrite, NothingMissed
<1>8. CASE Tick
    BY <1>8 DEF Tick, NothingMissed, Typed, HandlerStates
<1>9. CASE UNCHANGED <<old, kv, handler>>
    BY <1>9 DEF NothingMissed
<1> QED
    BY <1>1, <1>2, <1>3, <1>4, <1>5, <1>6, <1>7, <1>8, <1>9
    DEF Step, Asks, Claims, CleaningFails, CleaningEnds, Schedules, ArmingSchedules, Arms, vars

(* Whoever sets the alarm while an inspection goes on sets it RecheckDelay    *)
(* ahead; an alarm after RetryDelay follows a reset, which counts anew.      *)
LEMMA SpacedInductive ==
    Typed /\ Spaced /\ [Next]_vars => Spaced'
<1> SUFFICES ASSUME Typed, Spaced, Step PROVE Spaced'
    BY StepCases
<1> USE DEF schedule, history
<1>1. ASSUME NEW r \in Runs, CleaningEnds(r) PROVE Spaced'
    BY <1>1, DelayAssumption, AlarmAssumption
    DEF CleaningEnds, BeginVerification, Spaced, Begun, Typed, HandlerStates
<1>2. CASE ArmingSchedules \/ \E r \in Runs : Schedules(r)
    BY <1>2, SoonerIsSet, DelayAssumption
    DEF ArmingSchedules, Schedules, Spaced, Begun, Typed, HandlerStates
<1>3. CASE AlarmFires
    BY <1>3, AlarmAssumption, DelayAssumption
    DEF AlarmFires, Asleep, Spaced, Begun, Typed, HandlerStates
<1>4. CASE \E k \in Keys : InspectsKey(k)
    BY <1>4 DEF InspectsKey, Spaced, Begun, Typed, HandlerStates
<1>5. CASE InspectionFails \/ InspectionFindsResidue
    BY <1>5, DelayAssumption
    DEF InspectionFails, InspectionFindsResidue, BeginVerification, Spaced, Begun, Typed,
        HandlerStates
<1>6. CASE InspectionIsClean
    BY <1>6, DelayAssumption
    DEF InspectionIsClean, AfterClean, Asleep, Spaced, Begun, Typed, HandlerStates
<1>7. CASE HandlerSchedules
    BY <1>7, SoonerIsSet, DelayAssumption
    DEF HandlerSchedules, NextDelay, Asleep, Spaced, Begun, Typed, HandlerStates
<1>8. CASE Restarts
  <2>1. CASE cut'
    BY <2>1 DEF Spaced
  <2>2. CASE ~cut'
    <3>1. ~cut /\ handler.pc # "recheck"
      BY <1>8, <2>2 DEF Restarts, Typed
    <3>2. handler.pc # "idle" => sinceClean >= RecheckDelay
      BY <3>1 DEF Spaced, Typed, HandlerStates
    <3>3. handler.pc = "idle" /\ alarm # NoAlarm => alarm + sinceClean >= RecheckDelay
      BY <3>1 DEF Spaced, Begun
    <3> QED BY <1>8, <3>2, <3>3, DelayAssumption DEF Restarts, Asleep, Spaced, Begun, Typed
  <2> QED BY <2>1, <2>2
<1>9. CASE Tick
    BY <1>9, LessTyped, MoreTyped, DelayAssumption
    DEF Tick, Spaced, Begun, Typed, HandlerStates
<1>10. CASE UNCHANGED <<alarm, handler, sinceClean, cut>>
    BY <1>10 DEF Spaced, Begun
<1> QED
    BY <1>1, <1>2, <1>3, <1>4, <1>5, <1>6, <1>7, <1>8, <1>9, <1>10
    DEF Step, Asks, Claims, CleaningFails, CleansKey, Arms, LateWrite, vars

-----------------------------------------------------------------------------
LEMMA Invariance == Spec => []IInv
<1>1. Init => IInv
  <2> SUFFICES ASSUME Init PROVE IInv
    OBVIOUS
  <2>1. Typed
    <3>1. kv \in SUBSET Keys
      BY DEF Init
    <3>2. run \in [Runs -> RunStates]
      BY DEF Init, RunStates
    <3>3. handler \in HandlerStates
      BY DEF Init, Asleep, HandlerStates
    <3>4. rechecks \in 0 .. Rechecks /\ sinceClean \in Nat
      BY DelayAssumption, CountAssumption DEF Init
    <3>5. versioned \in BOOLEAN /\ arming \in BOOLEAN /\ cut \in BOOLEAN
      BY DEF Init
    <3> QED BY <3>1, <3>2, <3>3, <3>4, <3>5 DEF Init, Typed
  <2> QED
    BY <2>1, DelayAssumption
    DEF Init, Asleep, IInv, ArmingIsScheduled, VerifyingHasDriver, NothingMissed, Spaced, Begun
<1>2. IInv /\ [Next]_vars => IInv'
    BY TypedInductive, ArmingInductive, DriverInductive, NothingMissedInductive, SpacedInductive
    DEF IInv
<1> QED BY <1>1, <1>2, PTL DEF Spec

(* A verification always has someone to go on with it, unless a restart fell  *)
(* exactly between a reset and its alarm (worker-entry.js, runLegacyCleanup   *)
(* and alarm).                                                               *)
THEOREM VerificationIsDriven == Spec => []VerifyingHasDriver
<1>1. IInv => VerifyingHasDriver
    BY DEF IInv
<1> QED BY Invariance, <1>1, PTL

(* Only a clean inspection lowers the count or completes the cleanup.         *)
LEMMA OnlyCleanInspectionCounts ==
    ASSUME Typed, [Next]_vars, rechecks' < rechecks \/ (state = "verifying" /\ state' = "complete")
    PROVE  InspectionIsClean
<1> SUFFICES ASSUME Step PROVE InspectionIsClean
    BY StepCases
<1> USE DEF schedule, history
<1>1. rechecks \in 0 .. Rechecks /\ Rechecks \in Nat
    BY CountAssumption DEF Typed
<1>2. ~ BeginVerification
    BY <1>1 DEF BeginVerification
<1>3. ~ Arms
    BY <1>1 DEF Arms
<1>4. ~ UNCHANGED <<state, rechecks>>
    BY <1>1
<1> QED
    BY <1>2, <1>3, <1>4
    DEF Step, Asks, Claims, CleansKey, CleaningFails, CleaningEnds, Schedules, ArmingSchedules,
        AlarmFires, InspectsKey, InspectionFails, InspectionFindsResidue, HandlerSchedules,
        LateWrite, Restarts, Tick, vars

(* The cleanup is complete only after an inspection that no key outlived, and *)
(* inspections count only RecheckDelay apart, whatever requests, status calls,*)
(* late writes and failures overlap (worker-entry.js, alarm; auth-state.js,   *)
(* authStateConsumeLegacyCleanupRecheck).                                    *)
THEOREM CompletionAlwaysEarned == Spec => CompletionIsEarned
<1>1. IInv /\ [Next]_vars => [(state = "verifying" /\ state' = "complete") => old = {}]_vars
    BY OnlyCleanInspectionCounts DEF IInv, NothingMissed, InspectionIsClean
<1>2. IInv /\ [Next]_vars =>
        [(rechecks' < rechecks /\ rechecks < Rechecks /\ ~cut) => handler.gap >= RecheckDelay]_vars
    BY OnlyCleanInspectionCounts DEF IInv, Spaced, InspectionIsClean
<1> QED BY Invariance, <1>1, <1>2, PTL DEF Spec, CompletionIsEarned, CompletesClean, InspectionsSpaced
=============================================================================
