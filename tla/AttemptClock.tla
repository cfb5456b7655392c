----------------------------- MODULE AttemptClock -----------------------------
(***************************************************************************)
(* The clock behind the attempts of a PodMove                              *)
(* (src/src/evictor/internal/controller/podmove_status.go,                 *)
(* podmove_eviction.go and podmove_replacement.go).  Evictions that fail,  *)
(* replacements that do not persist and replacements that do not run are   *)
(* counted in the same way: an attempt is over when (attempts + 1) times   *)
(* the interval has passed since the LastTransitionTime of a condition,    *)
(* and after the last one the PodMove is marked Failed.                    *)
(*                                                                         *)
(* Evictor leaves open when an attempt is due; this module is about that.  *)
(* A reconcile may be late by any amount.  The condition may have been     *)
(* stamped by another machine (ReplacementClaimed is set by a webhook),    *)
(* whose clock differs by up to Skew.                                      *)
(***************************************************************************)
EXTENDS Integers

CONSTANTS MaxAttempts,
          Interval,   \* evictionRetryInterval, persistPollInterval, runningPollInterval
          Delays,     \* the RequeueAfter of a counted attempt: SuggestsClientDelay
          Skew,       \* difference of the clocks
          MaxFaults,  \* bound: status writes that fail after the attempt was written
          MaxTime     \* bound: when the clock stops

ASSUME ClockAssumption == /\ MaxAttempts \in Nat \ {0} /\ Interval \in Nat \ {0}
                          /\ Delays \subseteq Nat \ {0} /\ Delays # {}
                          /\ Skew \in Nat /\ MaxFaults \in Nat /\ MaxTime \in Nat

VARIABLES now,       \* the evictor's clock; the condition was set at time 0
          since,     \* its LastTransitionTime
          attempts,  \* the counter in the status,
          cached,    \*   and in the informer cache
          wake,      \* when the work queue hands out the PodMove next
          end,       \* whether and how this stage of the PodMove ended
          faults,
          counted    \* history: when the last attempt was counted

vars == <<now, since, attempts, cached, wake, end, faults, counted>>

\* The condition has just been set, and the event of this update is under way.
Init == /\ now = 0 /\ since \in -Skew..Skew
        /\ attempts = 0 /\ cached = 0
        /\ wake = 0
        /\ end = "no"
        /\ faults = 0 /\ counted = 0

-----------------------------------------------------------------------------
timeSinceCondition == now - since

\* Variant: the number of attempts is not increased first.
nextDeadlineOfLast(n) == n * Interval

nextDeadline(n) == (n + 1) * Interval

\* Variant: a whole interval is waited.
requeueAfterWhole(waited, n) == Interval

requeueAfter(waited, n) == nextDeadline(n) - waited

\* Variant: a reconcile that is not due returns the empty result.
requeueEmpty(delay) == MaxTime + 1

\* AddAfter: the queue hands the PodMove out again.
requeue(delay) == now + delay

\* Variant: one attempt too many.
exhaustedLater(n) == n + 1 > MaxAttempts

\* attempt >= MaxEvictionAttempts, and likewise for the other two
exhausted(n) == n + 1 >= MaxAttempts

-----------------------------------------------------------------------------
\* A reconcile that finds the eviction refused, or the replacement not there or
\* not running.  One that read an old copy changes nothing: its status update is
\* a conflict, which brings it back at once.  So does an update that fails.
reconcile == end = "no" /\ wake <= now /\ cached = attempts

waitForNextAttempt ==
  /\ reconcile
  /\ timeSinceCondition < nextDeadline(attempts)
  /\ wake' = requeue(requeueAfter(timeSinceCondition, attempts))
  /\ UNCHANGED <<now, since, attempts, cached, end, faults, counted>>

recordFailedAttempt ==
  /\ reconcile
  /\ timeSinceCondition >= nextDeadline(attempts)
  /\ ~exhausted(attempts)
  /\ attempts' = attempts + 1
  /\ \E delay \in Delays : wake' = requeue(delay)
  /\ counted' = now
  /\ UNCHANGED <<now, since, cached, end, faults>>

\* The last attempt is written, and then Failed; the second write may fail.
exhaustAttempts ==
  /\ reconcile
  /\ timeSinceCondition >= nextDeadline(attempts)
  /\ exhausted(attempts)
  /\ attempts' = attempts + 1
  /\ \/ end' = "failed" /\ UNCHANGED faults
     \/ faults < MaxFaults /\ faults' = faults + 1 /\ UNCHANGED end
  /\ counted' = now
  /\ UNCHANGED <<now, since, cached, wake>>

\* The event of the reconciler's own status update brings the PodMove back, ...
SyncCache ==
  /\ cached # attempts
  /\ cached' = attempts
  /\ wake' = now
  /\ UNCHANGED <<now, since, attempts, end, faults, counted>>

\* ... and so does a restart, which lists all PodMoves.
Restart ==
  /\ end = "no"
  /\ cached' = attempts
  /\ wake' = now
  /\ UNCHANGED <<now, since, attempts, end, faults, counted>>

\* The pod was evicted, or the replacement was found.
Achieved ==
  /\ reconcile
  /\ end' = "achieved"
  /\ UNCHANGED <<now, since, attempts, cached, wake, faults, counted>>

Tick ==
  /\ now < MaxTime
  /\ now' = now + 1
  /\ UNCHANGED <<since, attempts, cached, wake, end, faults, counted>>

Reconcile == waitForNextAttempt \/ recordFailedAttempt \/ exhaustAttempts \/ Achieved

Next == Reconcile \/ SyncCache \/ Restart \/ Tick

Spec == Init /\ [][Next]_vars

\* Time passes, the informer delivers, and the worker takes what the queue has.
FairSpec == Spec /\ WF_vars(Tick) /\ WF_vars(SyncCache) /\ WF_vars(Reconcile)

-----------------------------------------------------------------------------
\* A fault between the last attempt and Failed lets one more attempt be counted.
ClockTypeOK == /\ now \in Nat /\ since \in -Skew..Skew
               /\ attempts \in 0..(MaxAttempts + faults) /\ cached \in Nat
               /\ wake \in Int
               /\ end \in {"no", "failed", "achieved"}
               /\ faults \in 0..MaxFaults
               /\ counted \in 0..now

\* "did not reach Running within ... after ... attempts" (recordFailedRunningAttempt,
\* and likewise for evictions and persistence) is true: as many intervals have
\* passed as attempts were counted, but for the difference of the clocks.
NeverTooEarly ==
  /\ attempts * Interval <= now + Skew
  /\ end = "failed" => now + Skew >= MaxAttempts * Interval

\* A PodMove is never forgotten, and it is looked at when the attempt under way
\* is over, whatever delay a reconcile returned and however late it was.
AlwaysAwaited ==
  end = "no" => \/ cached # attempts
                \/ wake <= since + (attempts + 1) * Interval
                \/ wake <= now

\* This stage of a PodMove ends.
AttemptsEnd == <>(end # "no")

(***************************************************************************)
(* What a comment says and the code does not do                            *)
(***************************************************************************)
\* "Each unsuccessful poll lasting runningPollInterval counts as a running
\* attempt" (podmove_replacement.go).
AttemptsLastAnInterval ==
  [][attempts' > attempts => now - counted >= Interval - 2 * Skew]_vars
=============================================================================
