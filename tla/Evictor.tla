------------------------------- MODULE Evictor -------------------------------
(***************************************************************************)
(* The PodMove reconciler of src/src/evictor/internal/controller: one      *)
(* worker takes a PodMove from the work queue, reads it from the informer  *)
(* cache, and evicts its source pod, waits for the webhook's claim or      *)
(* follows the replacement, writing the status as it goes.                 *)
(*                                                                         *)
(* A step of this module is a read of the caches followed by what is       *)
(* computed from them, or one call to the API server.  Whether enough time *)
(* has passed since a condition was set is the parameter due of the step   *)
(* that looks at the clock: the waits of a PodMove are never compared with *)
(* each other, so each may be over, or not, whatever the others were.      *)
(***************************************************************************)
EXTENDS Cluster

CONSTANTS MaxEvictionAttempts, MaxPersistAttempts, MaxRunningAttempts,
          MaxFaults  \* bound: failed status writes and restarts in a behaviour

ASSUME EvictorAssumption == /\ MaxEvictionAttempts \in Nat \ {0}
                            /\ MaxPersistAttempts \in Nat \ {0}
                            /\ MaxRunningAttempts \in Nat \ {0}
                            /\ MaxFaults \in Nat

VARIABLES cached,      \* the informer cache of PodMoves,
          cachedLive,  \*   and those of them that exist in it
          podCache,    \* the informer cache of pods
          queue,       \* the work queue, RequeueAfter and backoff included
          rec,         \* the reconcile under way
          faults       \* failed status writes and restarts so far

evictorVars == <<cached, cachedLive, podCache, queue, rec, faults>>

\* pc is what comes next: a status write, the call of the eviction API, or the
\* deferred function of Reconcile.  pm is the copy in memory, base the status
\* its resourceVersion stands for.  then is what follows the write: the
\* eviction, the end, or markFailed with a reason.  result is what Reconcile
\* returns when the write succeeds; RequeueAfter and an error both bring the
\* PodMove back.
RecState == [pc     : {"idle", "write", "evict", "finish"},
             move   : Moves \cup {None},
             base   : PodMoveStatus,
             pm     : PodMoveStatus,
             then   : {"evict", "finish"} \cup Reasons,
             result : {"done", "requeue", "error"}]

Idle == [pc |-> "idle", move |-> None, base |-> NewPodMove, pm |-> NewPodMove,
         then |-> "finish", result |-> "done"]

EvictorTypeOK == /\ cached \in [Moves -> PodMoveStatus]
                 /\ cachedLive \subseteq Moves
                 /\ podCache \in [Pods -> PodState]
                 /\ queue \subseteq Moves
                 /\ rec \in RecState
                 /\ rec.pc # "idle" => rec.move \in Moves
                 /\ faults \in 0..MaxFaults

EvictorInit == /\ cached = status /\ cachedLive = live /\ podCache = pods
               /\ queue = live
               /\ rec = Idle
               /\ faults = 0

-----------------------------------------------------------------------------
\* How a reconcile r goes on: with setCondition or updateStatus on pm and then
\* the rest, or with the deferred function.
writing(r, pm, then) == [r EXCEPT !.pc = "write", !.pm = pm, !.then = then]
finishing(r, result) == [r EXCEPT !.pc = "finish", !.result = result]

\* The copy pm has one more attempt in it.  The last one is written before the
\* PodMove is marked Failed; the others wait for the next poll.
countAttempt(r, pm, attempt, max, reason) ==
  IF attempt >= max THEN writing(r, pm, reason)
                    ELSE [writing(r, pm, "finish") EXCEPT !.result = "requeue"]

\* Variant: a missing source pod fails the PodMove, claimed or not.
sourcePodGoneAlwaysFails(r) == writing(r, markFailed(r.pm, "PodNotFound"), "finish")

sourcePodGoneDuringEviction(r) ==
  IF "ReplacementClaimed" \in r.pm.conds
  THEN writing(r, setCondition(r.pm, "SourceEvicted"), "finish")
  ELSE writing(r, markFailed(r.pm, "PodNotFound"), "finish")

requeueEviction(r, due, reason) ==
  IF due
  THEN LET attempt == r.pm.evictionAttempts + 1
       IN  countAttempt(r, [r.pm EXCEPT !.evictionAttempts = attempt],
                        attempt, MaxEvictionAttempts, reason)
  ELSE finishing(r, "requeue")

recordFailedPersistAttempt(r) ==
  LET attempt == r.pm.persistAttempts + 1
  IN  countAttempt(r, [r.pm EXCEPT !.persistAttempts = attempt],
                   attempt, MaxPersistAttempts, "ReplacementNotPersisted")

reconcileReplacementNotFound(r, due) ==
  IF due THEN recordFailedPersistAttempt(r) ELSE finishing(r, "requeue")

recordFailedRunningAttempt(r, due) ==
  IF due
  THEN LET attempt == r.pm.runningAttempts + 1
       IN  countAttempt(r, [r.pm EXCEPT !.runningAttempts = attempt],
                        attempt, MaxRunningAttempts, "ReplacementNotRunning")
  ELSE finishing(r, "requeue")

\* The pods that the List by label finds, the original and those that are
\* being deleted left out.
findReplacementPod(m) ==
  {p \in Pods \ {Source[m]} : podCache[p].label = m /\ podCache[p].st = "live"}

replacementOnTarget(m) ==
  {p \in findReplacementPod(m) : podCache[p].node = TargetNode[m]}

\* Variant: the replacement need only exist.
replacementStartedPending(p) == podCache[p].phase \in {"Pending", "Running", "Failed"}

\* The phases that count as success.
replacementStarted(p) == podCache[p].phase \in {"Running", "Failed"}

-----------------------------------------------------------------------------
\* The worker takes m from the queue and finds it in the cache.
get(m) == /\ rec.pc = "idle"
          /\ m \in queue \cap cachedLive
          /\ queue' = queue \ {m}
          /\ UNCHANGED <<cached, cachedLive, podCache, faults, status, live, pods>>

Copy(m) == [Idle EXCEPT !.pc = "finish", !.move = m, !.base = cached[m], !.pm = cached[m]]

Has(m, c) == c \in cached[m].conds

\* The PodMove is not in the cache any more.
ReconcileDeleted(m) ==
  /\ rec.pc = "idle"
  /\ m \in queue \ cachedLive
  /\ queue' = queue \ {m}
  /\ UNCHANGED <<cached, cachedLive, podCache, rec, faults, status, live, pods>>

\* A PodMove that has ended: only the deferred update is left.
ReconcileTerminal(m) ==
  /\ get(m)
  /\ Has(m, "Failed") \/ (Has(m, "SourceEvicted") /\ Has(m, "ReplacementSucceeded"))
  /\ rec' = Copy(m)

\* Up to the look-up of the source pod.
evictSourcePod(m) ==
  /\ get(m)
  /\ ~Has(m, "Failed") /\ ~Has(m, "SourceEvicted")
  /\ rec' = IF Has(m, "SourceEvicting")
            THEN [Copy(m) EXCEPT !.pc = "evict"]
            ELSE writing(Copy(m), setCondition(cached[m], "SourceEvicting"), "evict")

AwaitsReplacement(m) ==
  /\ ~Has(m, "Failed") /\ Has(m, "SourceEvicted") /\ ~Has(m, "ReplacementSucceeded")

waitForClaim(m, due) ==
  /\ get(m)
  /\ AwaitsReplacement(m)
  /\ ~Has(m, "ReplacementBound") /\ ~Has(m, "ReplacementClaimed")
  /\ rec' = IF due THEN writing(Copy(m), markFailed(cached[m], "ReplacementNotClaimed"), "finish")
                   ELSE finishing(Copy(m), "requeue")

reconcileClaimedReplacement(m, due) ==
  /\ get(m)
  /\ AwaitsReplacement(m)
  /\ ~Has(m, "ReplacementBound") /\ Has(m, "ReplacementClaimed")
  /\ rec' = IF replacementOnTarget(m) # {}
            THEN writing(Copy(m), setCondition(cached[m], "ReplacementBound"), "finish")
            ELSE reconcileReplacementNotFound(Copy(m), due)

\* A replacement on the target node is preferred, any other comes next.
reconcileVerifiedReplacement(m, due) ==
  LET found == IF replacementOnTarget(m) # {} THEN replacementOnTarget(m)
                                              ELSE findReplacementPod(m)
  IN  /\ get(m)
      /\ AwaitsReplacement(m)
      /\ Has(m, "ReplacementBound")
      /\ \/ /\ found = {}
            /\ rec' = writing(Copy(m), markFailed(cached[m], "ReplacementNotFound"), "finish")
         \/ \E p \in found :
              rec' = IF replacementStarted(p)
                     THEN writing(Copy(m), setCondition(cached[m], "ReplacementSucceeded"), "finish")
                     ELSE recordFailedRunningAttempt(Copy(m), due)

-----------------------------------------------------------------------------
\* The eviction API answers for the pod that bears the name now; the request
\* names no UID.  A pod that is already terminating is accepted again.
createEviction(name, due) ==
  \/ /\ Named(pods, name) = {}
     /\ rec' = sourcePodGoneDuringEviction(rec)
     /\ UNCHANGED pods
  \/ \E p \in Named(pods, name) :
       \/ \* Accepted.
          /\ pods' = [pods EXCEPT ![p].st = "terminating"]
          /\ rec' = writing(rec, setCondition(rec.pm, "SourceEvicted"), "finish")
       \/ \* Forbidden, invalid or a bad request.
          /\ rec' = writing(rec, markFailed(rec.pm, "EvictionFailed"), "finish")
          /\ UNCHANGED pods
       \/ \* A PodDisruptionBudget blocks it.
          /\ pods[p].st = "live"
          /\ rec' = requeueEviction(rec, due, "BlockedByPDB")
          /\ UNCHANGED pods
       \/ \* Another error; the answer may have been lost after the eviction.
          /\ rec' = requeueEviction(rec, due, "EvictionFailed")
          /\ pods' \in {pods, [pods EXCEPT ![p].st = "terminating"]}

\* The rest of evictSourcePod: getSourcePod, and the call if the cached pod of
\* that name is the source.
EvictPod(due) ==
  /\ rec.pc = "evict"
  /\ LET name == Source[rec.move]
         seen == Named(podCache, name)
     IN  \/ /\ seen = {}
            /\ rec' = sourcePodGoneDuringEviction(rec)
            /\ UNCHANGED pods
         \/ \* The UID is another one: an error, no attempt is counted.
            /\ seen # {} /\ name \notin seen
            /\ rec' = finishing(rec, "error")
            /\ UNCHANGED pods
         \/ /\ name \in seen
            /\ createEviction(name, due)
  /\ UNCHANGED <<cached, cachedLive, podCache, queue, faults, status, live>>

-----------------------------------------------------------------------------
\* Variant: an update is accepted whatever its resourceVersion is.
updateAcceptedBlindly == rec.move \in live

\* The API server accepts an update made from the current version.
updateAccepted == rec.move \in live /\ rec.base = status[rec.move]

\* What follows a successful write.
written(r) ==
  LET new == SyncPhase(r.pm)
      s   == [r EXCEPT !.base = new, !.pm = new]
  IN  IF r.then \in Reasons THEN writing(s, markFailed(new, r.then), "finish")
                            ELSE [s EXCEPT !.pc = r.then, !.then = "finish"]

\* A conflict or another error: Reconcile returns it, and the deferred function
\* tries once more with what the copy holds by then.
writeFailed(r) == [finishing(r, "error") EXCEPT !.pm = SyncPhase(r.pm), !.then = "finish"]

\* updateStatus.
writeStatus ==
  /\ rec.pc = "write"
  /\ \/ /\ updateAccepted
        /\ status' = [status EXCEPT ![rec.move] = SyncPhase(rec.pm)]
        /\ rec' = written(rec)
     \/ /\ rec.move \in live /\ ~updateAccepted
        /\ rec' = writeFailed(rec)
        /\ UNCHANGED status
     \/ \* errPodMoveNotFound ends the reconcile.
        /\ rec.move \notin live
        /\ rec' = Idle
        /\ UNCHANGED status
  /\ UNCHANGED <<cached, cachedLive, podCache, queue, faults, live, pods>>

\* A write that fails for another reason, before or after it took effect.
writeStatusFault ==
  /\ rec.pc = "write"
  /\ faults < MaxFaults /\ faults' = faults + 1
  /\ rec' = writeFailed(rec)
  /\ \/ UNCHANGED status
     \/ /\ updateAccepted
        /\ status' = [status EXCEPT ![rec.move] = SyncPhase(rec.pm)]
  /\ UNCHANGED <<cached, cachedLive, podCache, queue, live, pods>>

\* Variant: only an error brings the PodMove back to the queue.
requeuedDroppingPolls(failed) ==
  IF rec.result = "error" \/ failed THEN queue \cup {rec.move} ELSE queue

\* The queue after the reconcile: an error or RequeueAfter brings m back.
requeued(failed) ==
  IF rec.result \in {"requeue", "error"} \/ failed THEN queue \cup {rec.move} ELSE queue

\* The deferred function of Reconcile.  An update that does not find the
\* PodMove ends the reconcile, unless it failed before.
finishReconcile ==
  /\ rec.pc = "finish"
  /\ rec' = Idle
  /\ \/ /\ updateAccepted
        /\ status' = [status EXCEPT ![rec.move] = SyncPhase(rec.pm)]
        /\ queue' = requeued(FALSE)
     \/ /\ rec.move \in live /\ ~updateAccepted
        /\ queue' = requeued(TRUE)
        /\ UNCHANGED status
     \/ /\ rec.move \notin live
        /\ queue' = IF rec.result = "error" THEN queue \cup {rec.move} ELSE queue
        /\ UNCHANGED status
  /\ UNCHANGED <<cached, cachedLive, podCache, faults, live, pods>>

finishReconcileFault ==
  /\ rec.pc = "finish"
  /\ faults < MaxFaults /\ faults' = faults + 1
  /\ rec' = Idle
  /\ queue' = queue \cup {rec.move}
  /\ \/ UNCHANGED status
     \/ /\ updateAccepted
        /\ status' = [status EXCEPT ![rec.move] = SyncPhase(rec.pm)]
  /\ UNCHANGED <<cached, cachedLive, podCache, live, pods>>

-----------------------------------------------------------------------------
\* The informers catch up.  The controller watches PodMoves only: a change of
\* a pod puts nothing in the queue.
SyncMoves ==
  /\ <<cached, cachedLive>> # <<status, live>>
  /\ queue' = queue \cup {m \in Moves : cached[m] # status[m]
                                        \/ (m \in cachedLive) # (m \in live)}
  /\ cached' = status /\ cachedLive' = live
  /\ UNCHANGED <<podCache, rec, faults, status, live, pods>>

SyncPods ==
  /\ podCache # pods
  /\ podCache' = pods
  /\ UNCHANGED <<cached, cachedLive, queue, rec, faults, status, live, pods>>

\* The evictor restarts: the caches are filled from the API server and every
\* PodMove is queued.
Crash ==
  /\ faults < MaxFaults /\ faults' = faults + 1
  /\ rec' = Idle
  /\ cached' = status /\ cachedLive' = live /\ podCache' = pods
  /\ queue' = live
  /\ UNCHANGED <<status, live, pods>>

Reconcile(m, due) == \/ ReconcileDeleted(m)
                     \/ ReconcileTerminal(m)
                     \/ evictSourcePod(m)
                     \/ waitForClaim(m, due)
                     \/ reconcileClaimedReplacement(m, due)
                     \/ reconcileVerifiedReplacement(m, due)

EvictorNext == \/ \E m \in Moves, due \in BOOLEAN : Reconcile(m, due)
               \/ \E due \in BOOLEAN : EvictPod(due)
               \/ writeStatus \/ writeStatusFault
               \/ finishReconcile \/ finishReconcileFault
               \/ SyncMoves \/ SyncPods \/ Crash
=============================================================================
