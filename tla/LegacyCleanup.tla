--------------------------- MODULE LegacyCleanup ---------------------------
(***************************************************************************)
(* The cleanup of the legacy Workers KV keys, driven by the AuthState      *)
(* Durable Object (runLegacyCleanup and alarm in worker-entry.js, the      *)
(* legacy cleanup operations of auth-state.js).                            *)
(*                                                                         *)
(* An explicit request deletes the keys and starts a verification: the     *)
(* alarm inspects KV every RecheckDelay, and the cleanup is complete after *)
(* Rechecks inspections in a row that found nothing.  A residue or a       *)
(* failed inspection starts the count again.                               *)
(*                                                                         *)
(* KV calls are awaits at which other events of the object run, so the     *)
(* deletions of a request, those of another request and the steps of the   *)
(* alarm handler interleave; only one alarm handler runs at a time.  While *)
(* the object awaits its own storage (the alarm) it receives no events.    *)
(* It may restart anywhere: requests are lost, an interrupted alarm is     *)
(* delivered again.  Lease and alarm are the time left until they are due. *)
(***************************************************************************)
EXTENDS Naturals, FiniteSets

CONSTANTS
    Keys,           \* the legacy keys: `invites`, `trash`, one per session
    Runs,           \* the explicit cleanup requests of this instance
    Rechecks,       \* LEGACY_CLEANUP_RECHECKS
    LeaseTime,      \* LEGACY_CLEANUP_LEASE_MS
    RecheckDelay,   \* LEGACY_CLEANUP_RECHECK_DELAY_MS
    RetryDelay,     \* LEGACY_CLEANUP_RETRY_DELAY_MS
    MaxTrouble,     \* bound on failed KV calls and on late KV writes
    MaxRestarts,    \* bound on restarts of the object
    NoAlarm

ASSUME DelayAssumption ==
    /\ LeaseTime \in Nat \ {0}
    /\ RetryDelay \in Nat \ {0}
    /\ RecheckDelay \in Nat
    /\ RetryDelay <= RecheckDelay
ASSUME CountAssumption == Rechecks \in Nat \ {0} /\ MaxTrouble \in Nat /\ MaxRestarts \in Nat
ASSUME AlarmAssumption == NoAlarm \notin Nat

VARIABLES
    state,          \* auth_meta legacy_cleanup_state
    versioned,      \* legacy_cleanup_scheduler_version is the current one
    rechecks,       \* legacy_cleanup_rechecks_remaining
    lease,          \* legacy_cleanup_lease_until - now, 0 when it is over
    alarm,          \* the alarm's time - now, or NoAlarm
    kv,             \* the keys now in KV
    run,            \* explicit requests: where they are, what is left to delete
    arming,         \* a status call between setting the alarm and arming
    handler,        \* the alarm handler: where it is, what is left to inspect
    trouble, restarts,
    old,            \* history: keys in KV ever since the inspection began
    sinceClean,     \* history: time since the last inspection that counted began
    cut             \* history: a restart fell between a reset and its setAlarm

schedule == <<versioned, rechecks, lease>>
history  == <<old, sinceClean, cut>>
vars == <<state, schedule, alarm, kv, run, arming, handler, trouble, restarts, history>>

-----------------------------------------------------------------------------
(* `age` and `gap` are history: the time since the inspection began, and the  *)
(* time from the last one that counted to it.                                *)
Asleep == [pc |-> "idle", todo |-> {}, residual |-> FALSE, age |-> 0, gap |-> 0]

(* #scheduleLegacyCleanupAt: an alarm that is already due earlier stays.      *)
Sooner(delay) == IF alarm = NoAlarm \/ delay < alarm THEN delay ELSE alarm

(* authStateBeginLegacyCleanupVerification. *)
BeginVerification ==
    /\ state' = "verifying"
    /\ versioned' = TRUE
    /\ rechecks' = Rechecks
    /\ lease' = 0
    /\ sinceClean' = RecheckDelay

-----------------------------------------------------------------------------
(* Explicit requests.  finalizeLegacyAuthStateCleanup looks at the status     *)
(* first; runLegacyCleanup itself does not.                                  *)
Asks(r) ==
    /\ run[r].pc = "idle"
    /\ state # "complete"
    /\ run' = [run EXCEPT ![r].pc = "asked"]
    /\ UNCHANGED <<state, schedule, alarm, kv, arming, handler, trouble, restarts, history>>

(* authStateClaimLegacyCleanup: a request that finds the lease taken ends.    *)
Claims(r) ==
    /\ run[r].pc = "asked"
    /\ IF lease = 0
       THEN lease' = LeaseTime /\ run' = [run EXCEPT ![r] = [pc |-> "clean", todo |-> Keys]]
       ELSE lease' = lease /\ run' = [run EXCEPT ![r].pc = "done"]
    /\ UNCHANGED <<state, versioned, rechecks, alarm, kv, arming, handler, trouble, restarts, history>>

CleansKey(r, k) ==
    /\ run[r].pc = "clean"
    /\ k \in run[r].todo
    /\ kv' = kv \ {k}
    /\ old' = old \ {k}
    /\ run' = [run EXCEPT ![r].todo = @ \ {k}]
    /\ UNCHANGED <<state, schedule, alarm, arming, handler, trouble, restarts, sinceClean, cut>>

CleaningFails(r) ==
    /\ run[r].pc = "clean"
    /\ trouble < MaxTrouble
    /\ trouble' = trouble + 1
    /\ lease' = 0
    /\ run' = [run EXCEPT ![r] = [pc |-> "done", todo |-> {}]]
    /\ UNCHANGED <<state, versioned, rechecks, alarm, kv, arming, handler, restarts, history>>

CleaningEnds(r) ==
    /\ run[r].pc = "clean"
    /\ run[r].todo = {}
    /\ BeginVerification
    /\ run' = [run EXCEPT ![r].pc = "schedule"]
    /\ UNCHANGED <<alarm, kv, arming, handler, trouble, restarts, old, cut>>

Schedules(r) ==
    /\ run[r].pc = "schedule"
    /\ alarm' = Sooner(RecheckDelay)
    /\ run' = [run EXCEPT ![r].pc = "done"]
    /\ UNCHANGED <<state, schedule, kv, arming, handler, trouble, restarts, history>>

(* status, of a cleanup completed before the rechecks existed: set the alarm, *)
(* then authStateArmLegacyCleanupRechecks.                                   *)
ArmingSchedules ==
    /\ state = "complete" /\ ~versioned
    /\ ~arming
    /\ alarm' = Sooner(RecheckDelay)
    /\ arming' = TRUE
    /\ UNCHANGED <<state, schedule, kv, run, handler, trouble, restarts, history>>

Arms ==
    /\ arming
    /\ arming' = FALSE
    /\ IF state = "complete" /\ ~versioned
       THEN state' = "verifying" /\ versioned' = TRUE /\ rechecks' = Rechecks
       ELSE UNCHANGED <<state, versioned, rechecks>>
    /\ UNCHANGED <<lease, alarm, kv, run, handler, trouble, restarts, history>>

-----------------------------------------------------------------------------
(* The alarm handler. *)
AlarmFires ==
    /\ alarm = 0
    /\ handler.pc = "idle"
    /\ alarm' = NoAlarm
    /\ handler' = IF state = "verifying"
                  THEN [pc |-> "inspect", todo |-> Keys, residual |-> FALSE, age |-> 0,
                        gap |-> sinceClean]
                  ELSE Asleep
    /\ old' = IF state = "verifying" THEN kv ELSE old
    /\ UNCHANGED <<state, schedule, kv, run, arming, trouble, restarts, sinceClean, cut>>

MutantLastKeyDecides(k) == k \in kv

Residual(k) == handler.residual \/ k \in kv

InspectsKey(k) ==
    /\ handler.pc = "inspect"
    /\ k \in handler.todo
    /\ handler' = [handler EXCEPT !.todo = @ \ {k}, !.residual = Residual(k)]
    /\ UNCHANGED <<state, schedule, alarm, kv, run, arming, trouble, restarts, history>>

(* A KV call failed: count again, soon.                                      *)
InspectionFails ==
    /\ handler.pc = "inspect"
    /\ trouble < MaxTrouble
    /\ trouble' = trouble + 1
    /\ BeginVerification
    /\ handler' = [handler EXCEPT !.pc = "retry"]
    /\ UNCHANGED <<alarm, kv, run, arming, restarts, old, cut>>

InspectionFindsResidue ==
    /\ handler.pc = "inspect"
    /\ handler.todo = {}
    /\ handler.residual
    /\ BeginVerification
    /\ handler' = [handler EXCEPT !.pc = "retry"]
    /\ UNCHANGED <<alarm, kv, run, arming, trouble, restarts, old, cut>>

(* authStateConsumeLegacyCleanupRecheck. *)
MutantForgetsRecheck == Asleep

AfterClean == IF rechecks = 1 THEN Asleep ELSE [handler EXCEPT !.pc = "recheck"]

InspectionIsClean ==
    /\ handler.pc = "inspect"
    /\ handler.todo = {}
    /\ ~handler.residual
    /\ state = "verifying" /\ versioned /\ rechecks >= 1
    /\ rechecks' = rechecks - 1
    /\ state' = IF rechecks = 1 THEN "complete" ELSE state
    /\ handler' = AfterClean
    /\ sinceClean' = handler.age
    /\ UNCHANGED <<versioned, lease, alarm, kv, run, arming, trouble, restarts, old, cut>>

NextDelay == IF handler.pc = "retry" THEN RetryDelay ELSE RecheckDelay

HandlerSchedules ==
    /\ handler.pc \in {"retry", "recheck"}
    /\ alarm' = Sooner(NextDelay)
    /\ handler' = Asleep
    /\ UNCHANGED <<state, schedule, kv, run, arming, trouble, restarts, history>>

-----------------------------------------------------------------------------
(* The environment.  A Worker of the previous release, or a write that KV     *)
(* shows late, brings a key back.                                            *)
LateWrite(k) ==
    /\ trouble < MaxTrouble
    /\ trouble' = trouble + 1
    /\ k \notin kv
    /\ kv' = kv \cup {k}
    /\ UNCHANGED <<state, schedule, alarm, run, arming, handler, restarts, history>>

(* The object restarts: its requests fail, an alarm whose handler had not     *)
(* ended is delivered again.                                                 *)
Restarts ==
    /\ restarts < MaxRestarts
    /\ restarts' = restarts + 1
    /\ cut' = (cut \/ handler.pc = "recheck" \/ \E r \in Runs : run[r].pc = "schedule")
    /\ run' = [r \in Runs |-> IF run[r].pc = "idle" THEN run[r] ELSE [pc |-> "done", todo |-> {}]]
    /\ arming' = FALSE
    /\ alarm' = IF handler.pc = "idle" THEN alarm ELSE 0
    /\ handler' = Asleep
    /\ UNCHANGED <<state, schedule, kv, trouble, old, sinceClean>>

Less(d) == IF d = NoAlarm \/ d = 0 THEN d ELSE d - 1
More(d) == IF d < RecheckDelay THEN d + 1 ELSE d

Tick ==
    /\ alarm \in Nat \ {0} \/ lease > 0 \/ sinceClean < RecheckDelay
    /\ alarm' = Less(alarm)
    /\ lease' = Less(lease)
    /\ sinceClean' = More(sinceClean)
    /\ handler' = [handler EXCEPT !.age = IF handler.pc = "idle" THEN 0 ELSE More(@)]
    /\ UNCHANGED <<state, versioned, rechecks, kv, run, arming, trouble, restarts, old, cut>>

-----------------------------------------------------------------------------
(* authStateImportLegacy leaves the cleanup pending; an object of a release   *)
(* before the rechecks may have it complete already.                         *)
Init ==
    /\ state \in {"pending", "complete"}
    /\ versioned = FALSE
    /\ rechecks = 0
    /\ lease = 0
    /\ alarm = NoAlarm
    /\ kv = IF state = "pending" THEN Keys ELSE {}
    /\ run = [r \in Runs |-> [pc |-> "idle", todo |-> {}]]
    /\ arming = FALSE
    /\ handler = Asleep
    /\ trouble = 0
    /\ restarts = 0
    /\ old = {}
    /\ sinceClean = RecheckDelay
    /\ cut = FALSE

RunEvent(r) ==
    \/ Claims(r)
    \/ \E k \in Keys : CleansKey(r, k)
    \/ CleaningEnds(r)

HandlerEvent ==
    \/ AlarmFires
    \/ \E k \in Keys : InspectsKey(k)
    \/ InspectionFindsResidue
    \/ InspectionIsClean

StorageReturns == Arms \/ HandlerSchedules \/ \E r \in Runs : Schedules(r)

(* Events reach the object only while it does not wait for its own storage.   *)
Open == ~arming /\ handler.pc \notin {"retry", "recheck"} /\ \A r \in Runs : run[r].pc # "schedule"

Event ==
    \/ \E r \in Runs : RunEvent(r)
    \/ \E r \in Runs : Asks(r)
    \/ \E r \in Runs : CleaningFails(r)
    \/ HandlerEvent
    \/ InspectionFails
    \/ ArmingSchedules
    \/ Tick

Next ==
    \/ Open /\ Event
    \/ StorageReturns
    \/ \E k \in Keys : LateWrite(k)
    \/ Restarts

(* The runtime delivers due alarms, runs what it delivered, and time passes;  *)
(* nothing obliges anyone to ask for a cleanup or to call status, nor a KV    *)
(* call to fail.                                                             *)
Fairness ==
    /\ WF_vars(Open /\ Tick)
    /\ WF_vars(Open /\ HandlerEvent)
    /\ \A r \in Runs : WF_vars(Open /\ RunEvent(r))
    /\ WF_vars(StorageReturns)

Spec == Init /\ [][Next]_vars /\ Fairness

-----------------------------------------------------------------------------
(* A verification never lacks a driver: an alarm is set, a handler runs, or   *)
(* the request that started it is about to set one, unless a restart fell     *)
(* exactly there.                                                            *)
VerifyingHasDriver ==
    (state = "verifying" /\ ~cut) =>
        \/ alarm # NoAlarm
        \/ handler.pc # "idle"
        \/ \E r \in Runs : run[r].pc = "schedule"

(* The cleanup completes only when no key was there throughout the last       *)
(* inspection, however requests, late writes and the handler overlap.        *)
CompletesClean ==
    [][(state = "verifying" /\ state' = "complete") => old = {}]_vars

(* The inspections that count for one verification begin at least             *)
(* RecheckDelay apart, although requests and status calls set the same alarm, *)
(* unless a restart made the runtime deliver one again.                      *)
InspectionsSpaced ==
    [][(rechecks' < rechecks /\ rechecks < Rechecks /\ ~cut)
         => handler.gap >= RecheckDelay]_vars

(* Completion is earned: by clean inspections, as far apart as was meant.     *)
CompletionIsEarned == CompletesClean /\ InspectionsSpaced

(* Once no one asks any more, a verification comes to its end: only a key     *)
(* that is still in KV, or a restart between a reset and its alarm, keeps the *)
(* cleanup verifying.                                                        *)
VerificationEnds ==
    []<>(state # "verifying" \/ kv # {} \/ cut)
=============================================================================
