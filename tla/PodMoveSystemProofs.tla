------------------------- MODULE PodMoveSystemProofs -------------------------
(***************************************************************************)
(* Theorems about PodMoveSystem, for any number of PodMoves, pods, owners, *)
(* requests, attempts and faults.                                          *)
(***************************************************************************)
EXTENDS PodMoveSystem, TLAPS

-----------------------------------------------------------------------------
(***************************************************************************)
(* Types of the operators                                                  *)
(***************************************************************************)
\* The operations on the status keep its type.
LEMMA StatusOps ==
  ASSUME NEW s \in PodMoveStatus
  PROVE  /\ SyncPhase(s) \in PodMoveStatus
         /\ \A c \in Conditions : setCondition(s, c) \in PodMoveStatus
         /\ \A r \in Reasons : markFailed(s, r) \in PodMoveStatus
         /\ s.evictionAttempts + 1 \in Nat
         /\ s.persistAttempts + 1 \in Nat
         /\ s.runningAttempts + 1 \in Nat
<1>1. DerivePhase(s.conds) \in PodMovePhases
  BY DEF DerivePhase, PodMovePhases
<1>2. SyncPhase(s) \in PodMoveStatus
  BY <1>1 DEF SyncPhase, PodMoveStatus
<1>3. \A c \in Conditions : setCondition(s, c) \in PodMoveStatus
  BY DEF setCondition, PodMoveStatus
<1>4. \A r \in Reasons : markFailed(s, r) \in PodMoveStatus
  BY DEF markFailed, PodMoveStatus, Conditions
<1> QED BY <1>2, <1>3, <1>4 DEF PodMoveStatus

LEMMA NewPodMoveType == NewPodMove \in PodMoveStatus
  BY DEF NewPodMove, PodMoveStatus

\* A reconcile under way is about a PodMove, and the operations on it keep that.
Work == {r \in RecState : r.move \in Moves}

LEMMA WritingType ==
  ASSUME NEW r \in Work, NEW pm \in PodMoveStatus,
         NEW then \in {"evict", "finish"} \cup Reasons
  PROVE  writing(r, pm, then) \in Work
  BY DEF writing, RecState, Work

LEMMA FinishingType ==
  ASSUME NEW r \in Work, NEW result \in {"done", "requeue", "error"}
  PROVE  finishing(r, result) \in Work
  BY DEF finishing, RecState, Work

LEMMA CountAttemptType ==
  ASSUME NEW r \in Work, NEW pm \in PodMoveStatus, NEW attempt \in Nat,
         NEW max \in Nat, NEW reason \in Reasons
  PROVE  countAttempt(r, pm, attempt, max, reason) \in Work
  BY DEF countAttempt, writing, RecState, Work

LEMMA WorkOps ==
  ASSUME NEW r \in Work, NEW due \in BOOLEAN
  PROVE  /\ sourcePodGoneDuringEviction(r) \in Work
         /\ \A reason \in Reasons : requeueEviction(r, due, reason) \in Work
         /\ reconcileReplacementNotFound(r, due) \in Work
         /\ recordFailedRunningAttempt(r, due) \in Work
         /\ written(r) \in Work
         /\ writeFailed(r) \in Work
<1>. r \in RecState /\ r.pm \in PodMoveStatus /\ r.then \in {"evict", "finish"} \cup Reasons
  BY DEF RecState, Work
<1>. /\ r.pm.evictionAttempts + 1 \in Nat
     /\ r.pm.persistAttempts + 1 \in Nat
     /\ r.pm.runningAttempts + 1 \in Nat
     /\ SyncPhase(r.pm) \in PodMoveStatus
  BY StatusOps
<1>1. sourcePodGoneDuringEviction(r) \in Work
  <2>1. /\ setCondition(r.pm, "SourceEvicted") \in PodMoveStatus
        /\ markFailed(r.pm, "PodNotFound") \in PodMoveStatus
    BY StatusOps DEF Conditions, Reasons
  <2> QED BY <2>1, WritingType DEF sourcePodGoneDuringEviction
<1>2. ASSUME NEW reason \in Reasons
      PROVE  requeueEviction(r, due, reason) \in Work
  <2>1. [r.pm EXCEPT !.evictionAttempts = r.pm.evictionAttempts + 1] \in PodMoveStatus
    BY DEF PodMoveStatus
  <2> QED BY <2>1, CountAttemptType, FinishingType, EvictorAssumption DEF requeueEviction
<1>3. reconcileReplacementNotFound(r, due) \in Work
  <2>1. [r.pm EXCEPT !.persistAttempts = r.pm.persistAttempts + 1] \in PodMoveStatus
    BY DEF PodMoveStatus
  <2>2. "ReplacementNotPersisted" \in Reasons
    BY DEF Reasons
  <2> QED BY <2>1, <2>2, CountAttemptType, FinishingType, EvictorAssumption
          DEF reconcileReplacementNotFound, recordFailedPersistAttempt
<1>4. recordFailedRunningAttempt(r, due) \in Work
  <2>1. [r.pm EXCEPT !.runningAttempts = r.pm.runningAttempts + 1] \in PodMoveStatus
    BY DEF PodMoveStatus
  <2>2. "ReplacementNotRunning" \in Reasons
    BY DEF Reasons
  <2> QED BY <2>1, <2>2, CountAttemptType, FinishingType, EvictorAssumption
          DEF recordFailedRunningAttempt
<1>5. written(r) \in Work
  <2> DEFINE new == SyncPhase(r.pm)
             s == [r EXCEPT !.base = new, !.pm = new]
  <2>1. s \in Work
    BY DEF RecState, Work
  <2>2. CASE r.then \in Reasons
    <3>1. markFailed(new, r.then) \in PodMoveStatus
      BY <2>2, StatusOps
    <3> QED BY <2>1, <2>2, <3>1, WritingType DEF written
  <2>3. CASE r.then \notin Reasons
    BY <2>1, <2>3 DEF written, RecState, Work
  <2> QED BY <2>2, <2>3
<1>6. writeFailed(r) \in Work
  BY DEF writeFailed, finishing, RecState, Work
<1> QED BY <1>1, <1>2, <1>3, <1>4, <1>5, <1>6

-----------------------------------------------------------------------------
(***************************************************************************)
(* Type correctness                                                        *)
(***************************************************************************)
LEMMA InitType == Init => TypeOK
<1> SUFFICES ASSUME Init PROVE TypeOK
  OBVIOUS
<1>1. ClusterTypeOK
  BY NewPodMoveType, SetsAssumption DEF Init, ClusterInit, ClusterTypeOK, PodState
<1>2. EvictorTypeOK
  BY <1>1, NewPodMoveType, EvictorAssumption
     DEF Init, EvictorInit, EvictorTypeOK, ClusterTypeOK, RecState, Idle
<1>3. WebhookTypeOK
  BY NewPodMoveType DEF Init, WebhookInit, WebhookTypeOK, HookState, NoRequest
<1> QED BY <1>1, <1>2, <1>3 DEF TypeOK

LEMMA ClusterType ==
  ASSUME TypeOK, ClusterNext, UNCHANGED <<evictorVars, webhookVars>>
  PROVE  TypeOK'
<1>1. EvictorTypeOK' /\ WebhookTypeOK'
  BY DEF TypeOK, EvictorTypeOK, WebhookTypeOK, evictorVars, webhookVars
<1>2. ASSUME NEW p \in Pods, DeletePod(p) PROVE ClusterTypeOK'
  BY <1>2 DEF DeletePod, TypeOK, ClusterTypeOK, PodState
<1>3. ASSUME NEW p \in Pods, RemovePod(p) PROVE ClusterTypeOK'
  BY <1>3 DEF RemovePod, TypeOK, ClusterTypeOK, PodState
<1>4. ASSUME NEW p \in Pods, RunPod(p) PROVE ClusterTypeOK'
  BY <1>4 DEF RunPod, TypeOK, ClusterTypeOK, PodState
<1>5. ASSUME NEW p \in Pods, FailPod(p) PROVE ClusterTypeOK'
  BY <1>5 DEF FailPod, TypeOK, ClusterTypeOK, PodState
<1>6. ASSUME NEW m \in Moves, CancelMove(m) PROVE ClusterTypeOK'
  BY <1>6 DEF CancelMove, TypeOK, ClusterTypeOK
<1> QED BY <1>1, <1>2, <1>3, <1>4, <1>5, <1>6 DEF ClusterNext, TypeOK

\* The reconcile that starts on m.
LEMMA CopyType ==
  ASSUME TypeOK, NEW m \in Moves
  PROVE  /\ Copy(m) \in Work
         /\ cached[m] \in PodMoveStatus
  BY NewPodMoveType DEF Copy, Idle, RecState, Work, TypeOK, EvictorTypeOK

LEMMA ReconcileType ==
  ASSUME TypeOK, NEW m \in Moves, NEW due \in BOOLEAN, Reconcile(m, due)
  PROVE  rec' = rec \/ rec' \in Work
<1>0. /\ Copy(m) \in Work
      /\ \A c \in Conditions : setCondition(cached[m], c) \in PodMoveStatus
      /\ \A r \in Reasons : markFailed(cached[m], r) \in PodMoveStatus
  BY StatusOps, CopyType
<1>1. CASE ReconcileDeleted(m)
  BY <1>1 DEF ReconcileDeleted
<1>2. CASE ReconcileTerminal(m)
  BY <1>2, <1>0 DEF ReconcileTerminal
<1>3. CASE evictSourcePod(m)
  <2>1. setCondition(cached[m], "SourceEvicting") \in PodMoveStatus
    BY <1>0 DEF Conditions
  <2>2. [Copy(m) EXCEPT !.pc = "evict"] \in Work
    BY <1>0 DEF Work, RecState
  <2>3. writing(Copy(m), setCondition(cached[m], "SourceEvicting"), "evict") \in Work
    BY <1>0, <2>1, WritingType
  <2> QED BY <1>3, <2>2, <2>3 DEF evictSourcePod
<1>4. CASE waitForClaim(m, due)
  <2>1. markFailed(cached[m], "ReplacementNotClaimed") \in PodMoveStatus
    BY <1>0 DEF Reasons
  <2> QED BY <1>4, <1>0, <2>1, WritingType, FinishingType DEF waitForClaim
<1>5. CASE reconcileClaimedReplacement(m, due)
  <2>1. setCondition(cached[m], "ReplacementBound") \in PodMoveStatus
    BY <1>0 DEF Conditions
  <2>2. reconcileReplacementNotFound(Copy(m), due) \in Work
    BY <1>0, WorkOps
  <2> QED BY <1>5, <1>0, <2>1, <2>2, WritingType DEF reconcileClaimedReplacement
<1>6. CASE reconcileVerifiedReplacement(m, due)
  <2>1. setCondition(cached[m], "ReplacementSucceeded") \in PodMoveStatus
    BY <1>0 DEF Conditions
  <2>2. markFailed(cached[m], "ReplacementNotFound") \in PodMoveStatus
    BY <1>0 DEF Reasons
  <2>3. recordFailedRunningAttempt(Copy(m), due) \in Work
    BY <1>0, WorkOps
  <2> QED BY <1>6, <1>0, <2>1, <2>2, <2>3, WritingType DEF reconcileVerifiedReplacement
<1> QED BY <1>1, <1>2, <1>3, <1>4, <1>5, <1>6 DEF Reconcile

\* The eviction call touches one pod at most and goes on with the reconcile.
LEMMA EvictPodType ==
  ASSUME TypeOK, NEW due \in BOOLEAN, EvictPod(due)
  PROVE  /\ rec' \in Work
         /\ pods' \in [Pods -> PodState]
<1>1. rec \in Work /\ rec.pm \in PodMoveStatus /\ pods \in [Pods -> PodState]
  BY DEF EvictPod, TypeOK, ClusterTypeOK, EvictorTypeOK, RecState, Work
<1>2. /\ sourcePodGoneDuringEviction(rec) \in Work
      /\ finishing(rec, "error") \in Work
      /\ writing(rec, setCondition(rec.pm, "SourceEvicted"), "finish") \in Work
      /\ writing(rec, markFailed(rec.pm, "EvictionFailed"), "finish") \in Work
      /\ requeueEviction(rec, due, "BlockedByPDB") \in Work
      /\ requeueEviction(rec, due, "EvictionFailed") \in Work
  BY <1>1, WorkOps, FinishingType, WritingType, StatusOps DEF Conditions, Reasons
<1>3. \A p \in Pods : [pods EXCEPT ![p].st = "terminating"] \in [Pods -> PodState]
  BY <1>1 DEF PodState
<1>4. \A n : Named(pods, n) \subseteq Pods
  BY DEF Named
<1> QED BY <1>1, <1>2, <1>3, <1>4 DEF EvictPod, createEviction

LEMMA EvictorType ==
  ASSUME TypeOK, EvictorNext, UNCHANGED webhookVars
  PROVE  TypeOK'
<1> USE DEF TypeOK, ClusterTypeOK, EvictorTypeOK
<1>0. WebhookTypeOK'
  BY DEF WebhookTypeOK, webhookVars
<1>1. Idle \in RecState /\ Idle.pc = "idle"
  BY NewPodMoveType DEF Idle, RecState
<1>2. ASSUME NEW m \in Moves, NEW due \in BOOLEAN, Reconcile(m, due)
      PROVE  TypeOK'
  <2>1. rec' \in RecState /\ (rec'.pc # "idle" => rec'.move \in Moves)
    BY <1>2, ReconcileType DEF Work
  <2>2. queue' \subseteq Moves /\ UNCHANGED <<cached, cachedLive, podCache, faults, status, live, pods>>
    BY <1>2 DEF Reconcile, ReconcileDeleted, ReconcileTerminal, evictSourcePod, waitForClaim,
                reconcileClaimedReplacement, reconcileVerifiedReplacement, get
  <2> QED BY <1>0, <2>1, <2>2
<1>3. ASSUME NEW due \in BOOLEAN, EvictPod(due)
      PROVE  TypeOK'
  <2>1. rec' \in Work /\ pods' \in [Pods -> PodState]
    BY <1>3, EvictPodType
  <2> QED BY <1>0, <1>3, <2>1 DEF EvictPod, Work
<1>4. ASSUME rec.pc # "idle"
      PROVE  /\ rec.move \in Moves
             /\ written(rec) \in Work
             /\ writeFailed(rec) \in Work
             /\ SyncPhase(rec.pm) \in PodMoveStatus
             /\ \A failed \in BOOLEAN : requeued(failed) \subseteq Moves
  BY <1>4, WorkOps, StatusOps DEF Work, RecState, requeued
<1>5. CASE writeStatus
  BY <1>0, <1>1, <1>4, <1>5 DEF writeStatus, Work
<1>6. CASE writeStatusFault
  BY <1>0, <1>4, <1>6, EvictorAssumption DEF writeStatusFault, Work
<1>7. CASE finishReconcile
  BY <1>0, <1>1, <1>4, <1>7 DEF finishReconcile
<1>8. CASE finishReconcileFault
  BY <1>0, <1>1, <1>4, <1>8, EvictorAssumption DEF finishReconcileFault
<1>9. CASE SyncMoves
  BY <1>0, <1>9 DEF SyncMoves
<1>10. CASE SyncPods
  BY <1>0, <1>10 DEF SyncPods
<1>11. CASE Crash
  BY <1>0, <1>1, <1>11, EvictorAssumption DEF Crash
<1> QED BY <1>2, <1>3, <1>5, <1>6, <1>7, <1>8, <1>9, <1>10, <1>11 DEF EvictorNext

\* What the webhook does to a request keeps its type.
HookOK(r) == /\ r \in HookState
             /\ r.pod # None => r.name # None
             /\ r.pc \in {"get", "update"} => r.move # None

LEMMA NextCandidateType ==
  ASSUME NEW r, HookOK(r), NEW todo \in SUBSET Moves
  PROVE  HookOK(nextCandidate(r, todo))
  BY NewPodMoveType DEF nextCandidate, HookState, HookOK

LEMMA HookOKType ==
  ASSUME TypeOK, NEW h \in Hooks
  PROVE  /\ HookOK(hook[h])
         /\ hook[h].move \in Moves \cup {None}
         /\ hook[h].base \in PodMoveStatus
         /\ hook[h].todo \in SUBSET Moves
         /\ hook[h].tries \in Nat
  BY DEF TypeOK, WebhookTypeOK, HookOK, HookState

LEMMA NoRequestType == HookOK(NoRequest)
  BY NewPodMoveType DEF NoRequest, HookOK, HookState

\* A step that changes only the request of h.
LEMMA HookStep ==
  ASSUME TypeOK, NEW h \in Hooks, NEW r, HookOK(r),
         hook' = [hook EXCEPT ![h] = r]
  PROVE  /\ hook' \in [Hooks -> HookState]
         /\ \A g \in Hooks : /\ hook'[g].pod # None => hook'[g].name # None
                             /\ hook'[g].pc \in {"get", "update"} => hook'[g].move # None
  BY DEF TypeOK, WebhookTypeOK, HookOK

LEMMA PersistType ==
  ASSUME TypeOK, NEW h \in Hooks, NEW m \in Moves \cup {None},
         hook[h].pod # None, Persist(h, m)
  PROVE  pods' \in [Pods -> PodState]
<1>1. hook[h].pod \in Pods /\ hook[h].name \in Pods
  BY DEF TypeOK, WebhookTypeOK, HookState
<1>2. NewPod(hook[h].name, m) \in PodState
  BY <1>1, TargetAssumption DEF NewPod, PodState
<1> QED BY <1>1, <1>2 DEF Persist, TypeOK, ClusterTypeOK

LEMMA ClaimType ==
  ASSUME TypeOK, NEW h \in Hooks, Claim(h)
  PROVE  status' \in [Moves -> PodMoveStatus]
<1>1. setCondition(hook[h].base, "ReplacementClaimed") \in PodMoveStatus
  BY HookOKType, StatusOps DEF Conditions
<1> QED BY <1>1 DEF Claim, TypeOK, ClusterTypeOK

LEMMA WebhookType ==
  ASSUME TypeOK, WebhookNext, UNCHANGED evictorVars
  PROVE  TypeOK'
<1>0. EvictorTypeOK'
  BY DEF TypeOK, EvictorTypeOK, evictorVars
<1> SUFFICES ClusterTypeOK' /\ WebhookTypeOK'
  BY <1>0 DEF TypeOK
<1> PICK h \in Hooks :
       \/ SyncHook(h)
       \/ \E p \in Pods : CreateRequest(h, p)
       \/ \E m \in Moves : skipCandidate(h, m) \/ tryCandidate(h, m)
       \/ claimGet(h) \/ claimUpdate(h)
       \/ Admit(h) \/ CreateRejected(h) \/ AdmissionTimeout(h)
  BY DEF WebhookNext
<1>a. /\ HookOK(hook[h])
      /\ hook[h].move \in Moves \cup {None}
      /\ hook[h].base \in PodMoveStatus
      /\ hook[h].todo \in SUBSET Moves
      /\ hook[h].tries \in Nat
  BY HookOKType
<1>b. ASSUME NEW r, HookOK(r), hook' = [hook EXCEPT ![h] = r], UNCHANGED hookCache
      PROVE  WebhookTypeOK'
  BY <1>b, HookStep DEF TypeOK, WebhookTypeOK
<1>c. hook \in [Hooks -> HookState]
  BY DEF TypeOK, WebhookTypeOK
<1>1. CASE SyncHook(h)
  BY <1>1 DEF SyncHook, TypeOK, ClusterTypeOK, WebhookTypeOK, PodMoveStatus
<1>2. ASSUME NEW p \in Pods, CreateRequest(h, p)
      PROVE  ClusterTypeOK' /\ WebhookTypeOK'
  <2>1. PICK name \in NamesFor(p) :
          hook' = [hook EXCEPT ![h] =
                     nextCandidate([NoRequest EXCEPT !.pod = p, !.name = name],
                                   listOpenPodMoveMatches(h, p, name))]
    BY <1>2 DEF CreateRequest
  <2>2. name \in Pods
    BY <2>1 DEF NamesFor
  <2>3. HookOK([NoRequest EXCEPT !.pod = p, !.name = name])
    BY <2>2, NoRequestType, SetsAssumption DEF NoRequest, HookOK, HookState
  <2>4. listOpenPodMoveMatches(h, p, name) \in SUBSET Moves
    BY DEF listOpenPodMoveMatches
  <2>5. HookOK(nextCandidate([NoRequest EXCEPT !.pod = p, !.name = name],
                             listOpenPodMoveMatches(h, p, name)))
    BY <2>3, <2>4, NextCandidateType
  <2> QED BY <1>2, <1>b, <2>1, <2>5 DEF CreateRequest, TypeOK, ClusterTypeOK
<1>3. ASSUME NEW m \in Moves, skipCandidate(h, m)
      PROVE  ClusterTypeOK' /\ WebhookTypeOK'
  <2>1. HookOK(nextCandidate(hook[h], hook[h].todo \ {m}))
    BY <1>a, NextCandidateType
  <2>2. hook' = [hook EXCEPT ![h] = nextCandidate(hook[h], hook[h].todo \ {m})]
    BY <1>3, <1>c DEF skipCandidate
  <2> QED BY <1>3, <1>b, <2>1, <2>2 DEF skipCandidate, TypeOK, ClusterTypeOK
<1>4. ASSUME NEW m \in Moves, tryCandidate(h, m)
      PROVE  ClusterTypeOK' /\ WebhookTypeOK'
  <2> DEFINE r == [hook[h] EXCEPT !.pc = "get", !.move = m, !.todo = hook[h].todo \ {m}]
  <2>1. HookOK(r)
    BY <1>a, SetsAssumption DEF HookOK, HookState
  <2>2. hook' = [hook EXCEPT ![h] = r]
    BY <1>4, <1>c DEF tryCandidate
  <2> HIDE DEF r
  <2> QED BY <1>4, <1>b, <2>1, <2>2 DEF tryCandidate, TypeOK, ClusterTypeOK
<1>5. CASE claimGet(h)
  <2> DEFINE r == [hook[h] EXCEPT !.pc = "update", !.base = status[hook[h].move]]
  <2>1. HookOK(nextCandidate(hook[h], hook[h].todo))
    BY <1>a, NextCandidateType
  <2>2. hook[h].move \in Moves => HookOK(r)
    BY <1>5, <1>a DEF claimGet, HookOK, HookState, TypeOK, ClusterTypeOK
  <2>3. \/ hook[h].move \in Moves /\ hook' = [hook EXCEPT ![h] = r]
        \/ hook' = [hook EXCEPT ![h] = nextCandidate(hook[h], hook[h].todo)]
    BY <1>5, <1>c DEF claimGet, TypeOK, ClusterTypeOK
  <2> HIDE DEF r
  <2> QED BY <1>5, <1>b, <2>1, <2>2, <2>3 DEF claimGet, TypeOK, ClusterTypeOK
<1>6. CASE claimUpdate(h)
  <2> DEFINE tries == hook[h].tries + 1
             r1 == [hook[h] EXCEPT !.pc = "reply", !.todo = {}, !.base = NewPodMove, !.tries = 0]
             r2 == [hook[h] EXCEPT !.pc = "get", !.base = NewPodMove, !.tries = tries]
             r3 == nextCandidate(hook[h], hook[h].todo)
  <2>1. HookOK(r1)
    BY <1>a, NewPodMoveType DEF HookOK, HookState
  <2>0. hook[h].pc = "update"
    BY <1>6 DEF claimUpdate
  <2>2. HookOK(r2)
    <3>1. tries \in Nat
      BY <1>a
    <3> HIDE DEF tries
    <3> QED BY <2>0, <3>1, <1>a, NewPodMoveType DEF HookOK, HookState
  <2>3. HookOK(r3)
    BY <1>a, NextCandidateType
  <2>4. \E r \in {r1, r2, r3} : hook' = [hook EXCEPT ![h] = r]
    BY <1>6, <1>c DEF claimUpdate
  <2>5. UNCHANGED status \/ Claim(h)
    BY <1>6 DEF claimUpdate
  <2>6. status' \in [Moves -> PodMoveStatus]
    BY <2>5, ClaimType DEF TypeOK, ClusterTypeOK
  <2> HIDE DEF r1, r2, r3
  <2>7. WebhookTypeOK'
    BY <1>6, <1>b, <2>1, <2>2, <2>3, <2>4 DEF claimUpdate
  <2> QED BY <1>6, <2>6, <2>7 DEF claimUpdate, TypeOK, ClusterTypeOK
<1>7. CASE Admit(h)
  <2>1. pods' \in [Pods -> PodState]
    BY <1>7, <1>a, PersistType DEF Admit, TypeOK, ClusterTypeOK
  <2> QED BY <1>7, <1>b, <2>1, NoRequestType DEF Admit, TypeOK, ClusterTypeOK
<1>8. CASE CreateRejected(h)
  BY <1>8, <1>b, NoRequestType DEF CreateRejected, TypeOK, ClusterTypeOK
<1>9. CASE AdmissionTimeout(h)
  <2> DEFINE r == [hook[h] EXCEPT !.pod = None, !.name = None]
  <2>1. pods' \in [Pods -> PodState]
    BY <1>9, PersistType DEF AdmissionTimeout
  <2>2. HookOK(r)
    BY <1>a DEF HookOK, HookState
  <2>3. hook' = [hook EXCEPT ![h] = r]
    BY <1>9, <1>c DEF AdmissionTimeout
  <2> HIDE DEF r
  <2> QED BY <1>9, <1>b, <2>1, <2>2, <2>3 DEF AdmissionTimeout, TypeOK, ClusterTypeOK
<1> QED BY <1>1, <1>2, <1>3, <1>4, <1>5, <1>6, <1>7, <1>8, <1>9

LEMMA NextType == TypeOK /\ [Next]_vars => TypeOK'
<1> SUFFICES ASSUME TypeOK, [Next]_vars PROVE TypeOK'
  OBVIOUS
<1>1. CASE ClusterNext /\ UNCHANGED <<evictorVars, webhookVars>>
  BY <1>1, ClusterType
<1>2. CASE EvictorNext /\ UNCHANGED webhookVars
  BY <1>2, EvictorType
<1>3. CASE WebhookNext /\ UNCHANGED evictorVars
  BY <1>3, WebhookType
<1>4. CASE UNCHANGED vars
  BY <1>4 DEF vars, clusterVars, evictorVars, webhookVars, TypeOK, ClusterTypeOK,
              EvictorTypeOK, WebhookTypeOK
<1> QED BY <1>1, <1>2, <1>3, <1>4 DEF Next

\* Every variable of the evictor, the webhook and the cluster keeps its type, for
\* any number of PodMoves, pods, requests in flight, attempts and faults.
THEOREM TypeCorrect == Spec => []TypeOK
  BY InitType, NextType, PTL DEF Spec
=============================================================================
