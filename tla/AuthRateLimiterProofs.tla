----------------------- MODULE AuthRateLimiterProofs -----------------------
(* Theorems about the sign-in limiter, for every limit, window and number   *)
(* of concurrent requests.                                                  *)
EXTENDS AuthRateLimiter, FiniteSetTheorems, TLAPS

(* The charged bucket is a bucket whenever attempts are left. *)
LEMMA CurrentTyped ==
    ASSUME TypeOK
    PROVE  Current \in Buckets
<1> USE LimitAssumption, WindowAssumption
<1>1. CASE WindowOver
    BY <1>1 DEF TypeOK, Current, FreshBucket, Buckets
<1>2. CASE ~WindowOver
    BY <1>2 DEF TypeOK, Current, WindowOver, Buckets
<1> QED BY <1>1, <1>2

(* The persisted bucket, the schedule and the requests keep their types: no  *)
(* step of the limiter stores a count above the policy's limit.              *)
THEOREM TypeCorrect == Spec => []TypeOK
<1> USE LimitAssumption, WindowAssumption
<1>1. Init => TypeOK
  <2> SUFFICES ASSUME Init PROVE TypeOK
    OBVIOUS
  <2>1. now \in Nat /\ delivery \in BOOLEAN /\ bucket = NoBucket /\ alarm = NoAlarm
    BY DEF Init
  <2>2. pc \in [Requests -> {"idle", "checking", "resetting"}]
    BY DEF Init
  <2>3. grants \in SUBSET (Nat \X Nat \X Nat)
    BY DEF Init
  <2> QED BY <2>1, <2>2, <2>3 DEF TypeOK
<1>2. TypeOK /\ [Next]_vars => TypeOK'
  <2> SUFFICES ASSUME TypeOK, [Next]_vars PROVE TypeOK'
    OBVIOUS
  <2>1. ASSUME NEW r \in Requests, ConsumeAllowed(r) PROVE TypeOK'
    <3>1. Current \in Buckets
      BY CurrentTyped
    <3>2. bucket' \in Buckets
      BY <2>1, <3>1 DEF ConsumeAllowed, AttemptsLeft, Buckets
    <3>3. alarm' \in Nat
      BY <2>1, <3>1 DEF ConsumeAllowed, AlarmAfterConsume, Buckets
    <3>4. grants' \in SUBSET (Nat \X Nat \X Nat)
      BY <2>1, <3>1 DEF ConsumeAllowed, TypeOK, Buckets
    <3> QED BY <2>1, <3>2, <3>3, <3>4 DEF ConsumeAllowed, TypeOK
  <2>2. ASSUME NEW r \in Requests, ConsumeDenied(r) PROVE TypeOK'
    BY <2>2 DEF ConsumeDenied, vars, TypeOK
  <2>3. ASSUME NEW r \in Requests, CheckFails(r) PROVE TypeOK'
    BY <2>3 DEF CheckFails, TypeOK
  <2>4. ASSUME NEW r \in Requests, CheckSucceeds(r) PROVE TypeOK'
    BY <2>4 DEF CheckSucceeds, TypeOK
  <2>5. ASSUME NEW r \in Requests, Reset(r) PROVE TypeOK'
    BY <2>5 DEF Reset, TypeOK
  <2>6. CASE AlarmFires
    BY <2>6 DEF AlarmFires, TypeOK
  <2>7. CASE HandleAlarm
    BY <2>7 DEF HandleAlarm, HandleAlarmEmpty, HandleAlarmRescheduled,
                HandleAlarmDeleted, TypeOK, Buckets
  <2>8. CASE Tick
    BY <2>8 DEF Tick, TypeOK
  <2>9. CASE UNCHANGED vars
    BY <2>9 DEF vars, TypeOK
  <2> QED BY <2>1, <2>2, <2>3, <2>4, <2>5, <2>6, <2>7, <2>8, <2>9 DEF Next
<1> QED BY <1>1, <1>2, PTL DEF Spec

(* A stored bucket is always going to be collected: whatever the order of    *)
(* attempts, resets whose deleteAlarm failed and late alarm deliveries, an   *)
(* alarm for its expiry is scheduled or a delivery is in flight.             *)
THEOREM BucketAlwaysHasAlarm == Spec => []BucketHasAlarm
<1>1. Init => BucketHasAlarm
    BY DEF Init, BucketHasAlarm
<1>2. BucketHasAlarm /\ [Next]_vars => BucketHasAlarm'
  <2> SUFFICES ASSUME BucketHasAlarm, [Next]_vars PROVE BucketHasAlarm'
    OBVIOUS
  <2>1. ASSUME NEW r \in Requests, ConsumeAllowed(r) PROVE BucketHasAlarm'
    <3>1. bucket'.resetAt = Current.resetAt
      BY <2>1 DEF ConsumeAllowed
    <3> QED BY <2>1, <3>1 DEF ConsumeAllowed, AlarmAfterConsume, BucketHasAlarm
  <2>2. ASSUME NEW r \in Requests, ConsumeDenied(r) PROVE BucketHasAlarm'
    BY <2>2 DEF ConsumeDenied, vars, BucketHasAlarm
  <2>3. ASSUME NEW r \in Requests, CheckFails(r) PROVE BucketHasAlarm'
    BY <2>3 DEF CheckFails, BucketHasAlarm
  <2>4. ASSUME NEW r \in Requests, CheckSucceeds(r) PROVE BucketHasAlarm'
    BY <2>4 DEF CheckSucceeds, BucketHasAlarm
  <2>5. ASSUME NEW r \in Requests, Reset(r) PROVE BucketHasAlarm'
    BY <2>5 DEF Reset, BucketHasAlarm
  <2>6. CASE AlarmFires
    BY <2>6 DEF AlarmFires, BucketHasAlarm
  <2>7. CASE HandleAlarm
    BY <2>7 DEF HandleAlarm, HandleAlarmEmpty, HandleAlarmRescheduled,
                HandleAlarmDeleted, BucketHasAlarm
  <2>8. CASE Tick
    BY <2>8 DEF Tick, BucketHasAlarm
  <2>9. CASE UNCHANGED vars
    BY <2>9 DEF vars, BucketHasAlarm
  <2> QED BY <2>1, <2>2, <2>3, <2>4, <2>5, <2>6, <2>7, <2>8, <2>9 DEF Next
<1> QED BY <1>1, <1>2, PTL DEF Spec

-----------------------------------------------------------------------------
(* What the history of grants looks like.  A grant falls into its window, the *)
(* first one opens it, and windows do not overlap.                           *)
GrantsFit ==
    /\ \A g \in grants :
        /\ g[2] \in 1 .. Limit
        /\ g[1] - Window <= g[3] /\ g[3] < g[1]
        /\ g[2] = 1 => g[3] = g[1] - Window
    /\ \A g, h \in grants :
        /\ g[1] = h[1] /\ g[2] = h[2] => g = h
        /\ g[1] < h[1] => g[1] <= h[1] - Window

(* The bucket counts the grants of the last window, or that window is over.   *)
BucketCovers ==
    IF bucket = NoBucket
    THEN \A g \in grants : g[1] <= now
    ELSE /\ bucket.count >= 1
         /\ bucket.resetAt <= now + Window
         /\ \A g \in grants :
              \/ g[1] <= bucket.resetAt - Window
              \/ g[1] = bucket.resetAt /\ g[2] <= bucket.count

CountInv == TypeOK /\ GrantsFit /\ BucketCovers

(* An allowed attempt joins the last window, or opens one after it.           *)
LEMMA ConsumeKeepsCount ==
    ASSUME CountInv, NEW r \in Requests, ConsumeAllowed(r)
    PROVE  (GrantsFit /\ BucketCovers)'
<1> USE LimitAssumption, WindowAssumption
<1> DEFINE new == <<Current.resetAt, Current.count + 1, now>>
<1>1. Current \in Buckets /\ now \in Nat
    BY CurrentTyped DEF CountInv, TypeOK
<1>2. grants' = grants \cup {new} /\ now' = now
    BY DEF ConsumeAllowed
<1>3. /\ bucket' # NoBucket
      /\ bucket'.count = Current.count + 1 /\ bucket'.resetAt = Current.resetAt
    BY <1>1, NullAssumption DEF ConsumeAllowed, Buckets, AttemptsLeft
<1>4. Current.count + 1 \in 1 .. Limit
    BY <1>1 DEF ConsumeAllowed, AttemptsLeft, Buckets
<1>5. \A g \in grants : g \in Nat \X Nat \X Nat
    BY DEF CountInv, TypeOK
<1>6. /\ now < Current.resetAt /\ Current.resetAt <= now + Window
      /\ Current.count = 0 => Current.resetAt = now + Window
  <2>1. CASE WindowOver
    BY <2>1, <1>1 DEF Current, FreshBucket
  <2>2. CASE ~WindowOver
    BY <2>2, <1>1 DEF Current, WindowOver, CountInv, BucketCovers, Buckets
  <2> QED BY <2>1, <2>2
<1>7. \A g \in grants :
        \/ g[1] <= Current.resetAt - Window
        \/ g[1] = Current.resetAt /\ g[2] <= Current.count
  <2>1. CASE WindowOver
    BY <2>1, <1>1, <1>5 DEF Current, FreshBucket, WindowOver, CountInv, BucketCovers, TypeOK, Buckets
  <2>2. CASE ~WindowOver
    BY <2>2 DEF Current, WindowOver, CountInv, BucketCovers
  <2> QED BY <2>1, <2>2
<1>8. new[1] = Current.resetAt /\ new[2] = Current.count + 1 /\ new[3] = now
    OBVIOUS
<1> HIDE DEF new
<1>9. GrantsFit'
  <2>1. \A g \in grants' :
            /\ g[2] \in 1 .. Limit
            /\ g[1] - Window <= g[3] /\ g[3] < g[1]
            /\ g[2] = 1 => g[3] = g[1] - Window
    BY <1>1, <1>2, <1>4, <1>6, <1>8 DEF CountInv, GrantsFit, Buckets
  <2>2. ASSUME NEW g \in grants', NEW h \in grants'
        PROVE  /\ g[1] = h[1] /\ g[2] = h[2] => g = h
               /\ g[1] < h[1] => g[1] <= h[1] - Window
    <3>1. CASE g \in grants /\ h \in grants
      BY <3>1 DEF CountInv, GrantsFit
    <3>2. CASE g = new \/ h = new
      BY <3>2, <1>1, <1>2, <1>5, <1>7, <1>8 DEF Buckets
    <3> QED BY <3>1, <3>2, <1>2
  <2> QED BY <2>1, <2>2 DEF GrantsFit
<1>10. BucketCovers'
    BY <1>1, <1>2, <1>3, <1>4, <1>5, <1>6, <1>7, <1>8 DEF BucketCovers, Buckets
<1> QED BY <1>9, <1>10

LEMMA CountInductive == CountInv /\ [Next]_vars => (GrantsFit /\ BucketCovers)'
<1> SUFFICES ASSUME CountInv, [Next]_vars PROVE (GrantsFit /\ BucketCovers)'
    OBVIOUS
<1> USE LimitAssumption, WindowAssumption
<1>1. ASSUME NEW r \in Requests, ConsumeAllowed(r) PROVE (GrantsFit /\ BucketCovers)'
    BY <1>1, ConsumeKeepsCount
<1>2. ASSUME NEW r \in Requests, Reset(r) PROVE (GrantsFit /\ BucketCovers)'
    BY <1>2 DEF Reset, GrantsFit, BucketCovers
<1>3. CASE HandleAlarm
  <2>1. GrantsFit'
    BY <1>3 DEF HandleAlarm, CountInv, GrantsFit
  <2>2. ASSUME HandleAlarmDeleted PROVE BucketCovers'
    <3>1. \A g \in grants : g[1] <= bucket.resetAt /\ g[1] \in Nat
      BY <2>2 DEF HandleAlarmDeleted, CountInv, BucketCovers, TypeOK, Buckets
    <3>2. bucket' = NoBucket /\ bucket.resetAt \in Nat /\ bucket.resetAt <= now /\ now \in Nat
      BY <2>2 DEF HandleAlarmDeleted, CountInv, TypeOK, Buckets
    <3> QED BY <1>3, <3>1, <3>2 DEF HandleAlarm, BucketCovers
  <2>3. ASSUME HandleAlarmEmpty \/ HandleAlarmRescheduled PROVE BucketCovers'
    BY <1>3, <2>3 DEF HandleAlarm, HandleAlarmEmpty, HandleAlarmRescheduled, CountInv, BucketCovers
  <2> QED BY <1>3, <2>1, <2>2, <2>3 DEF HandleAlarm
<1>4. CASE Tick
    BY <1>4 DEF Tick, CountInv, GrantsFit, BucketCovers, TypeOK, Buckets
<1>5. CASE UNCHANGED <<now, bucket, grants>>
    BY <1>5 DEF CountInv, GrantsFit, BucketCovers
<1> QED
    BY <1>1, <1>2, <1>3, <1>4, <1>5
    DEF Next, ConsumeDenied, CheckFails, CheckSucceeds, AlarmFires, vars

(* Numbered through, the grants of one window's length are fewer than two     *)
(* windows have: where the next window is touched, this one's first grant is  *)
(* out of reach.                                                             *)
LEMMA FitMeansBound == CountInv => SlidingWindowBound
<1> SUFFICES ASSUME CountInv, NEW g \in grants
             PROVE  Cardinality(GrantsWithin(g[3])) <= 2 * Limit - 1
    BY DEF SlidingWindowBound
<1> USE LimitAssumption, WindowAssumption
<1> DEFINE S == GrantsWithin(g[3])
           number(h) == IF h[1] = g[1] THEN h[2] - 1 ELSE Limit - 1 + h[2]
<1>1. \A h \in grants : h \in Nat \X Nat \X Nat
    BY DEF CountInv, TypeOK
<1>2. S \subseteq grants /\ \A h \in S : g[3] <= h[3] /\ h[3] < g[3] + Window
    BY DEF GrantsWithin
<1> HIDE DEF S
<1>3. \A h \in S : g[1] <= h[1] /\ h[2] \in 1 .. Limit
    BY <1>1, <1>2 DEF CountInv, GrantsFit
<1>4. \A h, k \in S : h[1] # g[1] /\ k[1] # g[1] => h[1] = k[1]
    BY <1>1, <1>2, <1>3 DEF CountInv, GrantsFit
<1>5. \A h, k \in S : h[1] = k[1] /\ h[2] = k[2] => h = k
    BY <1>2 DEF CountInv, GrantsFit
<1>6. CASE \A h \in S : h[1] = g[1]
  <2> DEFINE f == [h \in S |-> h[2]]
  <2>1. f \in Injection(S, 1 .. Limit)
    BY <1>3, <1>5, <1>6 DEF Injection, IsInjective
  <2>2. Cardinality(S) <= Cardinality(1 .. Limit)
    BY <2>1, FS_Injection, FS_Interval
  <2>3. Cardinality(1 .. Limit) = Limit /\ Cardinality(S) \in Nat
    BY <2>1, FS_Interval, FS_Injection, FS_CardinalityType
  <2> QED BY <2>2, <2>3 DEF S
<1>7. CASE \E h \in S : h[1] # g[1]
  <2> DEFINE f == [h \in S |-> number(h)]
  <2>1. \A h \in S : h[1] = g[1] => h[2] # 1
    BY <1>1, <1>2, <1>3, <1>7 DEF CountInv, GrantsFit
  <2>2. \A h \in S : number(h) \in 1 .. 2 * Limit - 1
    BY <1>3, <2>1
  <2>3. \A h, k \in S : number(h) = number(k) => h = k
    BY <1>3, <1>4, <1>5, <2>1
  <2>4. f \in Injection(S, 1 .. 2 * Limit - 1)
    BY <2>2, <2>3 DEF Injection, IsInjective
  <2>5. Cardinality(S) <= Cardinality(1 .. 2 * Limit - 1)
    BY <2>4, FS_Injection, FS_Interval
  <2>6. Cardinality(1 .. 2 * Limit - 1) = 2 * Limit - 1
    BY FS_Interval
  <2> QED BY <2>5, <2>6 DEF S
<1> QED BY <1>6, <1>7

(* No stretch of a window's length sees two full windows of allowed attempts: *)
(* never more than 2 * limit - 1, for every limit and window and any number   *)
(* of concurrent sign-ins (auth-rate-limiter.js, consumeRateLimitAttempt).    *)
THEOREM BurstIsBounded == Spec => []SlidingWindowBound
<1>1. Init => GrantsFit /\ BucketCovers
    BY DEF Init, GrantsFit, BucketCovers
<1>2. TypeOK /\ (GrantsFit /\ BucketCovers) /\ [Next]_vars => (GrantsFit /\ BucketCovers)'
    BY CountInductive DEF CountInv
<1>3. TypeOK /\ (GrantsFit /\ BucketCovers) => SlidingWindowBound
    BY FitMeansBound DEF CountInv
<1> QED BY <1>1, <1>2, <1>3, TypeCorrect, PTL DEF Spec

(* Charged attempts are forgotten only by a successful sign-in or when their  *)
(* window is over, however late or often an older bucket's alarm is delivered *)
(* (auth-rate-limiter.js, handleRateLimitAlarm).                             *)
THEOREM AttemptsStayCharged == Spec => OnlyExpiryOrSuccessForgets
<1>1. TypeOK /\ [Next]_vars =>
        [Forgets => \/ bucket.resetAt <= now
                    \/ \E r \in Requests : pc[r] = "resetting" /\ pc'[r] = "idle"]_vars
  <2> SUFFICES ASSUME TypeOK, Next, Forgets
               PROVE  \/ bucket.resetAt <= now
                      \/ \E r \in Requests : pc[r] = "resetting" /\ pc'[r] = "idle"
    OBVIOUS
  <2>1. ASSUME NEW r \in Requests, ConsumeAllowed(r) PROVE bucket.resetAt <= now
    <3>1. bucket' # NoBucket /\ bucket'.resetAt = Current.resetAt
      BY <2>1, CurrentTyped, LimitAssumption, NullAssumption DEF ConsumeAllowed, AttemptsLeft, Buckets
    <3>2. Current.resetAt # bucket.resetAt
      BY <3>1 DEF Forgets
    <3> QED BY <3>2 DEF Current, WindowOver, Forgets
  <2>2. ASSUME NEW r \in Requests, Reset(r) PROVE pc[r] = "resetting" /\ pc'[r] = "idle"
    BY <2>2 DEF Reset, TypeOK
  <2>3. CASE HandleAlarm
    BY <2>3 DEF HandleAlarm, HandleAlarmEmpty, HandleAlarmRescheduled, HandleAlarmDeleted, Forgets
  <2>4. ~ UNCHANGED bucket
    BY DEF Forgets
  <2> QED
    BY <2>1, <2>2, <2>3, <2>4
    DEF Next, ConsumeDenied, CheckFails, CheckSucceeds, AlarmFires, Tick, vars
<1> QED BY <1>1, TypeCorrect, PTL DEF Spec, OnlyExpiryOrSuccessForgets
=============================================================================
