-------------------------- MODULE AttemptClockProofs --------------------------
(***************************************************************************)
(* The attempts of a PodMove and the time they take, for every interval,   *)
(* number of attempts, delay and difference of the clocks.                 *)
(***************************************************************************)
EXTENDS AttemptClock, TLAPS

\* Deadlines are integers, one interval apart.
LEMMA DeadlinesApart ==
  ASSUME NEW n \in Nat
  PROVE  /\ n * Interval \in Nat
         /\ (n + 1) * Interval = n * Interval + Interval
         /\ nextDeadline(n) = (n + 1) * Interval
<1>1. Interval \in Nat
  BY ClockAssumption
<1>2. n * Interval \in Nat /\ (n + 1) * Interval = n * Interval + Interval
  BY <1>1
<1> QED
  BY <1>2 DEF nextDeadline

LEMMA DeadlinesGrow ==
  ASSUME NEW n \in Nat, NEW m \in Nat, n <= m
  PROVE  n * Interval <= m * Interval
  BY ClockAssumption

\* Every attempt that was counted lasted until its deadline on the clock of the
\* condition; the deadlines wait for the reconciler, or the queue knows of them.
ClockInv == /\ ClockTypeOK
            /\ attempts * Interval <= now - since \/ attempts = 0
            /\ end = "failed" => attempts >= MaxAttempts
            /\ end = "no" => attempts < MaxAttempts + faults
            /\ AlwaysAwaited

LEMMA ClockInvInit == Init => ClockInv
<1> SUFFICES ASSUME Init PROVE ClockInv
  OBVIOUS
<1>1. ClockTypeOK
  BY ClockAssumption DEF Init, ClockTypeOK
<1>2. AlwaysAwaited
  BY DEF Init, AlwaysAwaited
<1> QED
  BY <1>1, <1>2, ClockAssumption DEF Init, ClockInv

LEMMA ClockInvStep == ClockInv /\ [Next]_vars => ClockInv'
<1> SUFFICES ASSUME ClockInv, [Next]_vars
             PROVE  ClockInv'
  OBVIOUS
<1> USE ClockAssumption
<1> DEFINE d == attempts * Interval
<1>1. /\ now \in Nat /\ since \in Int /\ attempts \in Nat /\ cached \in Nat
      /\ wake \in Int /\ faults \in 0..MaxFaults /\ counted \in 0..now
      /\ Skew \in Nat /\ Interval \in Nat /\ MaxFaults \in Nat
      /\ since \in -Skew..Skew
  BY DEF ClockInv, ClockTypeOK
<1>2. /\ d \in Nat
      /\ (attempts + 1) * Interval = d + Interval
      /\ nextDeadline(attempts) = d + Interval
  BY <1>1, DeadlinesApart
<1>3. CASE waitForNextAttempt
  <2>1. wake' = since + (attempts + 1) * Interval
    <3> HIDE DEF d
    <3> QED
      BY <1>1, <1>2, <1>3
      DEF waitForNextAttempt, requeue, requeueAfter, timeSinceCondition
  <2>2. UNCHANGED <<now, since, attempts, cached, end, faults, counted>>
    BY <1>3 DEF waitForNextAttempt
  <2>3. wake' \in Int
    <3> HIDE DEF d
    <3> QED
      BY <1>1, <1>2, <2>1
  <2>4. AlwaysAwaited'
    <3>1. wake' <= since' + (attempts' + 1) * Interval
      <4> HIDE DEF d
      <4> QED
        BY <1>1, <1>2, <2>1, <2>2
    <3> QED
      BY <3>1 DEF AlwaysAwaited
  <2> QED
    BY <2>2, <2>3, <2>4 DEF ClockInv, ClockTypeOK
<1>4. CASE recordFailedAttempt \/ exhaustAttempts
  <2>1. /\ reconcile /\ timeSinceCondition >= nextDeadline(attempts)
        /\ attempts' = attempts + 1 /\ counted' = now
        /\ UNCHANGED <<now, since, cached>>
    BY <1>4 DEF recordFailedAttempt, exhaustAttempts
  <2>2. ClockTypeOK' /\ (end' = "no" => attempts' < MaxAttempts + faults')
    <3>1. wake' \in Int
      BY <1>1, <1>4 DEF recordFailedAttempt, exhaustAttempts, requeue
    <3>2. end' \in {"no", "failed", "achieved"} /\ faults' \in 0..MaxFaults
      BY <1>1, <1>4 DEF recordFailedAttempt, exhaustAttempts, ClockInv, ClockTypeOK
    <3>3. attempts < MaxAttempts + faults
      BY <2>1 DEF ClockInv, reconcile
    <3>4. /\ attempts' \in 0..(MaxAttempts + faults')
          /\ end' = "no" => attempts' < MaxAttempts + faults'
      BY <1>1, <1>4, <2>1, <3>3 DEF recordFailedAttempt, exhaustAttempts, exhausted
    <3>5. /\ now' \in Nat /\ since' \in -Skew..Skew
          /\ cached' \in Nat /\ counted' \in 0..now'
      BY <1>1, <2>1
    <3> QED
      BY <3>1, <3>2, <3>4, <3>5 DEF ClockTypeOK
  <2>3. attempts' * Interval <= now' - since'
    <3>1. attempts' * Interval = d + Interval
      BY <1>2, <2>1
    <3> HIDE DEF d
    <3> QED
      BY <1>1, <1>2, <2>1, <3>1 DEF timeSinceCondition
  <2>4. end' = "failed" => attempts' >= MaxAttempts
    BY <1>1, <1>4, <2>1 DEF recordFailedAttempt, exhaustAttempts, exhausted, reconcile
  <2>5. AlwaysAwaited'
    BY <1>1, <2>1 DEF AlwaysAwaited, reconcile
  <2> QED
    BY <2>2, <2>3, <2>4, <2>5 DEF ClockInv
<1>5. CASE Achieved
  BY <1>5 DEF Achieved, reconcile, ClockInv, ClockTypeOK, AlwaysAwaited
<1>6. CASE SyncCache \/ Restart
  <2>1. wake' = now' /\ cached' = attempts'
        /\ UNCHANGED <<now, since, attempts, end, faults, counted>>
    BY <1>6 DEF SyncCache, Restart
  <2>2. AlwaysAwaited'
    BY <1>1, <2>1 DEF AlwaysAwaited
  <2> QED
    BY <1>1, <2>1, <2>2 DEF ClockInv, ClockTypeOK
<1>7. CASE Tick
  <2>1. now' = now + 1 /\ UNCHANGED <<since, attempts, cached, wake, end, faults, counted>>
    BY <1>7 DEF Tick
  <2>2. ClockTypeOK'
    BY <1>1, <2>1 DEF ClockInv, ClockTypeOK
  <2>3. attempts' * Interval <= now' - since' \/ attempts' = 0
    <3>1. attempts' * Interval = d
      BY <2>1
    <3>2. d <= now - since \/ attempts = 0
      BY DEF ClockInv
    <3> HIDE DEF d
    <3> QED
      BY <1>1, <1>2, <2>1, <3>1, <3>2
  <2>4. AlwaysAwaited'
    <3>1. CASE end # "no" \/ cached # attempts
      BY <2>1, <3>1 DEF AlwaysAwaited
    <3>2. CASE wake <= since + (attempts + 1) * Interval
      BY <2>1, <3>2 DEF AlwaysAwaited
    <3>3. CASE wake <= now
      BY <1>1, <2>1, <3>3 DEF AlwaysAwaited
    <3> QED
      BY <3>1, <3>2, <3>3 DEF ClockInv, AlwaysAwaited
  <2> QED
    BY <2>1, <2>2, <2>3, <2>4 DEF ClockInv
<1>8. CASE UNCHANGED vars
  BY <1>8 DEF vars, ClockInv, ClockTypeOK, AlwaysAwaited
<1> QED
  BY <1>3, <1>4, <1>5, <1>6, <1>7, <1>8 DEF Next, Reconcile

LEMMA ClockInvNotEarly == ClockInv => NeverTooEarly
<1> SUFFICES ASSUME ClockInv PROVE NeverTooEarly
  OBVIOUS
<1> DEFINE d == attempts * Interval
           e == MaxAttempts * Interval
<1>1. /\ now \in Nat /\ since \in -Skew..Skew /\ Skew \in Nat
      /\ attempts \in Nat /\ MaxAttempts \in Nat \ {0}
  BY ClockAssumption DEF ClockInv, ClockTypeOK
<1>2. d \in Nat /\ e \in Nat
  BY <1>1, DeadlinesApart
<1>3. attempts = 0 => d = 0
  BY ClockAssumption
<1>4. d <= now - since \/ attempts = 0
  BY DEF ClockInv
<1>5. end = "failed" => e <= d
  BY <1>1, DeadlinesGrow DEF ClockInv
<1> HIDE DEF d, e
<1>6. d <= now + Skew
  BY <1>1, <1>2, <1>3, <1>4
<1>7. end = "failed" => now + Skew >= e
  BY <1>1, <1>2, <1>5, <1>6
<1> QED
  BY <1>6, <1>7 DEF NeverTooEarly, d, e

LEMMA ClockInvAlways == Spec => []ClockInv
  BY ClockInvInit, ClockInvStep, PTL DEF Spec

\* Attempts, clock and queue keep their types; of the attempts there is one more
\* than the limit for each write that failed, and no more.
THEOREM ClockTypes == Spec => []ClockTypeOK
<1>1. ClockInv => ClockTypeOK
  BY DEF ClockInv
<1> QED
  BY <1>1, ClockInvAlways, PTL

\* No attempt is counted, and no PodMove is failed, before its time is over
\* (waitForNextAttempt).
THEOREM AttemptsTakeTheirTime == Spec => []NeverTooEarly
  BY ClockInvAlways, ClockInvNotEarly, PTL

\* A PodMove is in the queue for the time at which the attempt under way is over
\* or earlier, whatever RequeueAfter a reconcile returned and however late it was.
THEOREM NeverForgotten == Spec => []AlwaysAwaited
<1>1. ClockInv => AlwaysAwaited
  BY DEF ClockInv
<1> QED
  BY <1>1, ClockInvAlways, PTL
=============================================================================
