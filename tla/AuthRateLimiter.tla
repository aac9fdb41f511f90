-------------------------- MODULE AuthRateLimiter --------------------------
(***************************************************************************)
(* One AuthRateLimiter Durable Object (worker-allow-ip/src/                *)
(* auth-rate-limiter.js, worker-entry.js) and the sign-in requests that    *)
(* use it (admin.js handleAdminLogin and handleAdminTotpLogin, index.js    *)
(* handleSubmit): consume an attempt, check the credential, reset the      *)
(* bucket on success.                                                      *)
(*                                                                         *)
(* An object is one bucket: it is addressed by the HMAC of the client, so  *)
(* different clients never share one.  Its methods run one at a time; the  *)
(* platform delivers its alarm at least once, and possibly late.           *)
(***************************************************************************)
EXTENDS Integers, FiniteSets

CONSTANTS
    Requests,   \* concurrent sign-in requests of one client
    Limit,      \* POLICIES[scope].limit
    Window,     \* POLICIES[scope].windowSeconds, in ticks
    MaxTime,    \* the bound on the clock
    NoBucket,   \* storage.get("bucket") === undefined
    NoAlarm     \* no alarm is scheduled

ASSUME LimitAssumption  == Limit \in Nat \ {0}
ASSUME WindowAssumption == Window \in Nat \ {0}
ASSUME TimeAssumption   == MaxTime \in Nat
ASSUME NullAssumption   == /\ NoBucket \notin [count : Nat, resetAt : Nat]
                           /\ NoAlarm \notin Nat

VARIABLES
    now,        \* Date.now()
    bucket,     \* the persisted bucket
    alarm,      \* when the scheduled alarm is due
    delivery,   \* an alarm delivery is in flight
    pc,         \* where each sign-in request is
    grants      \* history: when attempts were allowed since the last reset

vars == <<now, bucket, alarm, delivery, pc, grants>>

Buckets == [count : 0..Limit, resetAt : Nat]

TypeOK ==
    /\ now \in Nat
    /\ bucket \in Buckets \cup {NoBucket}
    /\ alarm \in Nat \cup {NoAlarm}
    /\ delivery \in BOOLEAN
    /\ pc \in [Requests -> {"idle", "checking", "resetting"}]
    /\ grants \in SUBSET (Nat \X Nat \X Nat)

Init ==
    /\ now = 0
    /\ bucket = NoBucket
    /\ alarm = NoAlarm
    /\ delivery = FALSE
    /\ pc = [r \in Requests |-> "idle"]
    /\ grants = {}

(***************************************************************************)
(* The bucket an attempt is charged to.                                    *)
(***************************************************************************)
FreshBucket == [count |-> 0, resetAt |-> now + Window]

MutantWindowOneTickShort ==
    bucket = NoBucket \/ bucket.resetAt - 1 <= now

WindowOver == bucket = NoBucket \/ bucket.resetAt <= now

Current == IF WindowOver THEN FreshBucket ELSE bucket

AttemptsLeft == Current.count < Limit

(* The alarm that an allowed attempt leaves scheduled. *)
MutantAlarmOnFirstAttemptOnly ==
    IF bucket = NoBucket THEN Current.resetAt ELSE alarm

MutantNoAlarmSet == alarm

AlarmAfterConsume == Current.resetAt

(***************************************************************************)
(* consumeRateLimitAttempt: one storage transaction.  A denied attempt     *)
(* writes nothing.  A grant is recorded as <<window, number, time>>.       *)
(***************************************************************************)
ConsumeAllowed(r) ==
    /\ pc[r] = "idle"
    /\ AttemptsLeft
    /\ bucket' = [Current EXCEPT !.count = @ + 1]
    /\ alarm' = AlarmAfterConsume
    /\ pc' = [pc EXCEPT ![r] = "checking"]
    /\ grants' = grants \cup {<<Current.resetAt, Current.count + 1, now>>}
    /\ UNCHANGED <<now, delivery>>

ConsumeDenied(r) ==
    /\ pc[r] = "idle"
    /\ ~AttemptsLeft
    /\ UNCHANGED vars

(* The credential is wrong: the request ends and the attempt stays counted. *)
CheckFails(r) ==
    /\ pc[r] = "checking"
    /\ pc' = [pc EXCEPT ![r] = "idle"]
    /\ UNCHANGED <<now, bucket, alarm, delivery, grants>>

CheckSucceeds(r) ==
    /\ pc[r] = "checking"
    /\ pc' = [pc EXCEPT ![r] = "resetting"]
    /\ UNCHANGED <<now, bucket, alarm, delivery, grants>>

(***************************************************************************)
(* clearRateLimitStorage: deleteAll, then deleteAlarm, whose failure is    *)
(* swallowed.                                                              *)
(***************************************************************************)
Reset(r) ==
    /\ pc[r] = "resetting"
    /\ bucket' = NoBucket
    /\ alarm' \in {alarm, NoAlarm}
    /\ pc' = [pc EXCEPT ![r] = "idle"]
    /\ grants' = {}
    /\ UNCHANGED <<now, delivery>>

(* The platform takes a due alarm off the schedule and starts delivering it. *)
AlarmFires ==
    /\ alarm # NoAlarm
    /\ alarm <= now
    /\ alarm' = NoAlarm
    /\ delivery' = TRUE
    /\ UNCHANGED <<now, bucket, pc, grants>>

(***************************************************************************)
(* handleRateLimitAlarm: one storage transaction.  The same delivery may   *)
(* be repeated, so it may stay in flight.                                  *)
(***************************************************************************)
HandleAlarmEmpty ==
    /\ bucket = NoBucket
    /\ UNCHANGED <<bucket, alarm>>

HandleAlarmRescheduled ==
    /\ bucket # NoBucket
    /\ bucket.resetAt > now
    /\ alarm' = bucket.resetAt
    /\ UNCHANGED bucket

MutantDeleteWithoutExpiryCheck ==
    /\ bucket # NoBucket
    /\ bucket' = NoBucket
    /\ UNCHANGED alarm

HandleAlarmDeleted ==
    /\ bucket # NoBucket
    /\ bucket.resetAt <= now
    /\ bucket' = NoBucket
    /\ UNCHANGED alarm

HandleAlarm ==
    /\ delivery
    /\ \/ HandleAlarmEmpty
       \/ HandleAlarmRescheduled
       \/ HandleAlarmDeleted
    /\ delivery' \in BOOLEAN
    /\ UNCHANGED <<now, pc, grants>>

Tick ==
    /\ now < MaxTime
    /\ now' = now + 1
    /\ UNCHANGED <<bucket, alarm, delivery, pc, grants>>

Next ==
    \/ \E r \in Requests : \/ ConsumeAllowed(r)
                           \/ ConsumeDenied(r)
                           \/ CheckFails(r)
                           \/ CheckSucceeds(r)
                           \/ Reset(r)
    \/ AlarmFires
    \/ HandleAlarm
    \/ Tick

Spec == Init /\ [][Next]_vars

(***************************************************************************)
(* Fairness: the platform delivers a due alarm, and the object's handler   *)
(* runs.  Nothing is assumed of the clients or of the clock.               *)
(***************************************************************************)
FairSpec == Spec /\ WF_vars(AlarmFires) /\ WF_vars(HandleAlarm)

-----------------------------------------------------------------------------
(* The attempts that consumeRateLimitAttempt allowed from time t on, for one *)
(* window's length, forgetting those before the last successful sign-in.     *)
GrantsWithin(t) == {g \in grants : t <= g[3] /\ g[3] < t + Window}

(* Any stretch of time as long as the window sees fewer than two windows'    *)
(* worth of allowed attempts: the fixed window of consumeRateLimitAttempt    *)
(* never lets a client burst beyond 2 * limit - 1, whatever alarms, denied   *)
(* attempts and bucket renewals happen in between.                           *)
SlidingWindowBound ==
    \A g \in grants : Cardinality(GrantsWithin(g[3])) <= 2 * Limit - 1

(* A stored bucket is always going to be collected: an alarm for its expiry   *)
(* is scheduled, or a delivery that will see it is in flight, even when       *)
(* clearRateLimitStorage could not cancel the alarm of an earlier bucket.     *)
BucketHasAlarm ==
    bucket # NoBucket => (alarm = bucket.resetAt \/ delivery)

(* The attempts already charged are forgotten only by a successful sign-in    *)
(* or when their window is over: no late or repeated alarm of an older        *)
(* bucket reopens a window (handleRateLimitAlarm's "rescheduled" branch).     *)
Forgets == bucket # NoBucket /\ (bucket' = NoBucket \/ bucket'.resetAt # bucket.resetAt)

OnlyExpiryOrSuccessForgets ==
    [][Forgets => \/ bucket.resetAt <= now
                  \/ \E r \in Requests : pc[r] = "resetting" /\ pc'[r] = "idle"]_vars

(* An expired bucket does not stay in storage: the alarm deletes it, or a new *)
(* attempt replaces it.                                                       *)
ExpiredBucketCollected ==
    (bucket # NoBucket /\ bucket.resetAt <= now)
        ~> (bucket = NoBucket \/ bucket.resetAt > now)
=============================================================================
