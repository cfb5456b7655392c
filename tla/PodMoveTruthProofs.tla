------------------------- MODULE PodMoveTruthProofs -------------------------
(***************************************************************************)
(* PodMoveInvariants!TruthInv is an invariant of PodMoveSystem: what the   *)
(* statuses say of the source pods and of their replacements is so.        *)
(***************************************************************************)
EXTENDS PodMoveStatusProofs

-----------------------------------------------------------------------------
(***************************************************************************)
(* Pods get on                                                             *)
(***************************************************************************)
LEMMA FollowsSelf ==
  ASSUME NEW o \in PodState
  PROVE  Follows(o, o)
  BY DEF Follows, PodState

LEMMA FollowsOn ==
  ASSUME NEW o, NEW n, NEW q, Follows(o, n), Follows(n, q)
  PROVE  Follows(o, q)
  BY DEF Follows

\* What was true of the pods stays true of later ones.
LEMMA TellsOn ==
  ASSUME NEW o, NEW n, \A p \in Pods : Follows(o[p], n[p]),
         NEW m \in Moves
  PROVE  /\ LeavingIn(o, m) => LeavingIn(n, m)
         /\ MovedIn(o, m) => MovedIn(n, m)
         /\ \A c : Tells(o, m, c) => Tells(n, m, c)
<1>1. LeavingIn(o, m) => LeavingIn(n, m)
  <2>1. Source[m] \in Pods
    BY SourceAssumption
  <2> QED BY <2>1 DEF LeavingIn, Follows
<1>2. MovedIn(o, m) => MovedIn(n, m)
  BY DEF MovedIn, Follows
<1> QED BY <1>1, <1>2 DEF Tells

\* More conditions that say nothing of the pods, or say what is so.
LEMMA TellsMore ==
  ASSUME NEW ps, NEW m, NEW s \in PodMoveStatus, Tells(ps, m, s.conds)
  PROVE  /\ Tells(ps, m, SyncPhase(s).conds)
         /\ \A r \in Reasons : Tells(ps, m, markFailed(s, r).conds)
         /\ \A c \in {"SourceEvicting", "ReplacementBound"} :
              Tells(ps, m, setCondition(s, c).conds)
         /\ LeavingIn(ps, m) => \A c \in {"SourceEvicted", "ReplacementClaimed"} :
                                  Tells(ps, m, setCondition(s, c).conds)
         /\ MovedIn(ps, m) => Tells(ps, m, setCondition(s, "ReplacementSucceeded").conds)
<1>1. /\ SyncPhase(s).conds = s.conds
      /\ \A r : markFailed(s, r).conds = s.conds \cup {"Failed"}
      /\ \A c : setCondition(s, c).conds = s.conds \cup {c}
  BY DEF SyncPhase, markFailed, setCondition, PodMoveStatus
<1> QED BY <1>1 DEF Tells

\* A step changes one pod at most, and the other pods not at all.
TerminateStep(p) ==
  /\ pods[p].st \in {"live", "terminating"}
  /\ pods' = [pods EXCEPT ![p].st = "terminating"]

PersistStep ==
  \E h \in Hooks, m \in Moves \cup {None} : hook[h].pod # None /\ Persist(h, m)

LEMMA EvictPodPods ==
  ASSUME TypeOK, NEW due \in BOOLEAN, EvictPod(due)
  PROVE  UNCHANGED pods \/ \E p \in Pods : TerminateStep(p)
  BY DEF EvictPod, createEviction, Named, TerminateStep

LEMMA NextPods ==
  ASSUME TypeOK, Next
  PROVE  \/ UNCHANGED pods
         \/ \E p \in Pods : TerminateStep(p) \/ RemovePod(p) \/ RunPod(p) \/ FailPod(p)
         \/ PersistStep
<1>1. CASE ClusterNext
  BY <1>1 DEF ClusterNext, DeletePod, CancelMove, TerminateStep
<1>2. CASE EvictorNext
  BY <1>2, EvictPodPods DEF EvictorNext, Reconcile, ReconcileDeleted, ReconcileTerminal,
         evictSourcePod, waitForClaim, reconcileClaimedReplacement,
         reconcileVerifiedReplacement, get, writeStatus, writeStatusFault, finishReconcile,
         finishReconcileFault, SyncMoves, SyncPods, Crash
<1>3. CASE WebhookNext
  <2>1. \A h \in Hooks : hook[h].move \in Moves \cup {None}
    BY HookOKType
  <2> QED BY <1>3, <2>1 DEF WebhookNext, SyncHook, CreateRequest, skipCandidate, tryCandidate,
              claimGet, claimUpdate, Admit, CreateRejected, AdmissionTimeout, PersistStep
<1> QED BY <1>1, <1>2, <1>3 DEF Next

\* The pods after a step are the pods before it, or later ones.
LEMMA PodsGetOn ==
  ASSUME TypeOK, NamesInv, Next, NEW p \in Pods
  PROVE  Follows(pods[p], pods'[p])
<1>1. pods \in [Pods -> PodState] /\ pods[p] \in PodState
  BY DEF TypeOK, ClusterTypeOK
<1>2. CASE pods'[p] = pods[p]
  BY <1>1, <1>2, FollowsSelf
<1>3. ASSUME NEW q \in Pods, TerminateStep(q) \/ RemovePod(q) \/ RunPod(q) \/ FailPod(q)
      PROVE  Follows(pods[p], pods'[p])
  <2>1. CASE q = p
    BY <1>1, <1>3, <2>1 DEF TerminateStep, RemovePod, RunPod, FailPod, Follows, PodState
  <2>2. CASE q # p
    BY <1>1, <1>2, <1>3, <2>2 DEF TerminateStep, RemovePod, RunPod, FailPod
  <2> QED BY <2>1, <2>2
<1>4. ASSUME NEW h \in Hooks, NEW m \in Moves \cup {None}, hook[h].pod # None, Persist(h, m)
      PROVE  Follows(pods[p], pods'[p])
  <2>1. CASE hook[h].pod = p
    BY <1>4, <2>1 DEF NamesInv, Follows
  <2>2. CASE hook[h].pod # p
    BY <1>1, <1>2, <1>4, <2>2 DEF Persist
  <2> QED BY <2>1, <2>2
<1> QED BY <1>1, <1>2, <1>3, <1>4, NextPods DEF PersistStep

-----------------------------------------------------------------------------
(***************************************************************************)
(* Names, requests and labels                                              *)
(***************************************************************************)
\* A request that begins is for an absent pod, which gets a name that is free.
LEMMA CreateNames ==
  ASSUME TypeOK, NamesInv, NEW h \in Hooks, NEW p \in Pods, CreateRequest(h, p)
  PROVE  /\ UNCHANGED pods
         /\ pods[p].st = "absent"
         /\ \A g \in Hooks : hook[g].pod # p
         /\ \A g \in Hooks \ {h} : hook'[g] = hook[g]
         /\ hook'[h].pod = p
         /\ \A m \in Moves : hook'[h].name = Source[m] => pods[Source[m]].st = "gone"
<1>1. hook \in [Hooks -> HookState] /\ pods \in [Pods -> PodState]
  BY DEF TypeOK, WebhookTypeOK, ClusterTypeOK
<1>2. PICK name \in NamesFor(p) :
        hook' = [hook EXCEPT ![h] =
                   nextCandidate([NoRequest EXCEPT !.pod = p, !.name = name],
                                 listOpenPodMoveMatches(h, p, name))]
  BY DEF CreateRequest
<1>3. \A todo : /\ nextCandidate([NoRequest EXCEPT !.pod = p, !.name = name], todo).pod = p
                /\ nextCandidate([NoRequest EXCEPT !.pod = p, !.name = name], todo).name = name
  BY DEF nextCandidate, NoRequest
<1>4. hook'[h].pod = p /\ hook'[h].name = name
  BY <1>1, <1>2, <1>3
<1>5. ASSUME NEW m \in Moves, name = Source[m]
      PROVE  pods[Source[m]].st = "gone"
  <2>1. Source[m] \in Pods /\ pods[Source[m]].st # "absent" /\ pods[Source[m]].name = Source[m]
    BY SourceAssumption DEF NamesInv
  <2>2. CASE OwnerOf[p] \in StatefulSets
    BY <1>1, <1>2, <1>5, <2>1, <2>2 DEF NamesFor, Named, PodState
  <2>3. CASE OwnerOf[p] \notin StatefulSets
    BY <1>2, <1>5, <2>1, <2>3 DEF NamesFor, CreateRequest
  <2> QED BY <2>2, <2>3
<1> QED BY <1>1, <1>2, <1>4, <1>5 DEF CreateRequest, InFlight

\* What a request that goes on or ends does to the pods and their names.
LEMMA RequestNames ==
  ASSUME TypeOK, NEW h \in Hooks,
         \/ SyncHook(h)
         \/ \E m \in Moves : skipCandidate(h, m) \/ tryCandidate(h, m)
         \/ claimGet(h) \/ claimUpdate(h)
         \/ Admit(h) \/ CreateRejected(h) \/ AdmissionTimeout(h)
  PROVE  /\ \A g \in Hooks \ {h} : hook'[g].pod = hook[g].pod /\ hook'[g].name = hook[g].name
         /\ \/ hook'[h].pod = hook[h].pod /\ hook'[h].name = hook[h].name
            \/ hook'[h].pod = None /\ hook'[h].name = None
         /\ UNCHANGED pods \/ /\ hook[h].pod # None /\ hook'[h].pod = None
                              /\ \E m \in Moves \cup {None} : Persist(h, m)
<1>1. /\ hook \in [Hooks -> HookState] /\ hook[h] \in HookState
      /\ hook[h].move \in Moves \cup {None}
  BY HookOKType DEF TypeOK, WebhookTypeOK
<1>2. ASSUME NEW r, r.pod = hook[h].pod, r.name = hook[h].name, hook' = [hook EXCEPT ![h] = r]
      PROVE  \A g \in Hooks : hook'[g].pod = hook[g].pod /\ hook'[g].name = hook[g].name
  BY <1>1, <1>2
<1>3. \A todo : /\ nextCandidate(hook[h], todo).pod = hook[h].pod
                /\ nextCandidate(hook[h], todo).name = hook[h].name
  BY <1>1 DEF nextCandidate, HookState
<1>4. CASE SyncHook(h)
  BY <1>4 DEF SyncHook
<1>5. ASSUME NEW m \in Moves, skipCandidate(h, m)
      PROVE  UNCHANGED pods /\ \A g \in Hooks : hook'[g].pod = hook[g].pod /\ hook'[g].name = hook[g].name
  <2>1. hook' = [hook EXCEPT ![h] = nextCandidate(hook[h], hook[h].todo \ {m})]
    BY <1>1, <1>5 DEF skipCandidate
  <2> QED BY <1>2, <1>3, <1>5, <2>1 DEF skipCandidate
<1>6. ASSUME NEW m \in Moves, tryCandidate(h, m)
      PROVE  UNCHANGED pods /\ \A g \in Hooks : hook'[g].pod = hook[g].pod /\ hook'[g].name = hook[g].name
  <2> DEFINE r == [hook[h] EXCEPT !.pc = "get", !.move = m, !.todo = hook[h].todo \ {m}]
  <2>1. hook' = [hook EXCEPT ![h] = r]
    BY <1>1, <1>6 DEF tryCandidate
  <2>2. r.pod = hook[h].pod /\ r.name = hook[h].name
    BY <1>1 DEF HookState
  <2> HIDE DEF r
  <2> QED BY <1>2, <1>6, <2>1, <2>2 DEF tryCandidate
<1>7. CASE claimGet(h)
  <2> DEFINE r == [hook[h] EXCEPT !.pc = "update", !.base = status[hook[h].move]]
  <2>1. \/ hook' = [hook EXCEPT ![h] = r]
        \/ hook' = [hook EXCEPT ![h] = nextCandidate(hook[h], hook[h].todo)]
    BY <1>1, <1>7 DEF claimGet
  <2>2. r.pod = hook[h].pod /\ r.name = hook[h].name
    BY <1>1 DEF HookState
  <2> HIDE DEF r
  <2> QED BY <1>2, <1>3, <1>7, <2>1, <2>2 DEF claimGet
<1>8. CASE claimUpdate(h)
  <2> DEFINE tries == hook[h].tries + 1
             r1 == [hook[h] EXCEPT !.pc = "reply", !.todo = {}, !.base = NewPodMove, !.tries = 0]
             r2 == [hook[h] EXCEPT !.pc = "get", !.base = NewPodMove, !.tries = tries]
             r3 == nextCandidate(hook[h], hook[h].todo)
  <2>1. \E r \in {r1, r2, r3} : hook' = [hook EXCEPT ![h] = r]
    BY <1>1, <1>8 DEF claimUpdate
  <2>2. /\ r1.pod = hook[h].pod /\ r1.name = hook[h].name
        /\ r2.pod = hook[h].pod /\ r2.name = hook[h].name
        /\ r3.pod = hook[h].pod /\ r3.name = hook[h].name
    BY <1>1, <1>3 DEF HookState
  <2> HIDE DEF r1, r2, r3
  <2> QED BY <1>2, <1>8, <2>1, <2>2 DEF claimUpdate
<1>9. NoRequest.pod = None /\ NoRequest.name = None
  BY DEF NoRequest
<1>10. CASE Admit(h)
  BY <1>1, <1>9, <1>10 DEF Admit
<1>11. CASE CreateRejected(h)
  BY <1>1, <1>9, <1>11 DEF CreateRejected
<1>12. CASE AdmissionTimeout(h)
  BY <1>1, <1>12 DEF AdmissionTimeout, HookState
<1> QED BY <1>4, <1>5, <1>6, <1>7, <1>8, <1>10, <1>11, <1>12

\* Nothing disturbs names and labels but a pod that is persisted.
LEMMA NamesStay ==
  ASSUME TypeOK, NamesInv,
         \A p \in Pods : /\ pods'[p].name = pods[p].name /\ pods'[p].label = pods[p].label
                         /\ pods'[p].node = pods[p].node
                         /\ pods'[p].st = "absent" <=> pods[p].st = "absent"
                         /\ pods[p].st = "gone" => pods'[p].st = "gone",
         UNCHANGED hook
  PROVE  NamesInv'
<1>1. \A m \in Moves : Source[m] \in Pods
  BY SourceAssumption
<1>2. \A h \in Hooks : hook[h].pod \in Pods \cup {None}
  BY DEF TypeOK, WebhookTypeOK, HookState
<1> QED BY <1>1, <1>2 DEF NamesInv

LEMMA NextNames ==
  ASSUME TypeOK, NamesInv, Next
  PROVE  NamesInv'
<1>1. /\ hook \in [Hooks -> HookState] /\ pods \in [Pods -> PodState]
      /\ \A m \in Moves : Source[m] \in Pods
  BY SourceAssumption DEF TypeOK, WebhookTypeOK, ClusterTypeOK
<1>2. ASSUME UNCHANGED hook,
             UNCHANGED pods \/ \E p \in Pods : TerminateStep(p) \/ RemovePod(p) \/ RunPod(p) \/ FailPod(p)
      PROVE  NamesInv'
  <2>1. CASE UNCHANGED pods
    BY <1>2, <2>1, NamesStay
  <2>2. ASSUME NEW p \in Pods, TerminateStep(p) \/ RemovePod(p) \/ RunPod(p) \/ FailPod(p)
        PROVE  NamesInv'
    <3>1. \A q \in Pods :
            /\ pods'[q].name = pods[q].name /\ pods'[q].label = pods[q].label
            /\ pods'[q].node = pods[q].node
            /\ pods'[q].st = "absent" <=> pods[q].st = "absent"
            /\ pods[q].st = "gone" => pods'[q].st = "gone"
      BY <1>1, <2>2 DEF TerminateStep, RemovePod, RunPod, FailPod, PodState
    <3> QED BY <1>2, <3>1, NamesStay
  <2> QED BY <1>2, <2>1, <2>2
<1>3. CASE ClusterNext /\ UNCHANGED <<evictorVars, webhookVars>>
  BY <1>2, <1>3 DEF ClusterNext, DeletePod, CancelMove, TerminateStep, webhookVars
<1>4. CASE EvictorNext /\ UNCHANGED webhookVars
  <2>1. UNCHANGED pods \/ \E p \in Pods : TerminateStep(p)
    BY <1>4, EvictPodPods DEF EvictorNext, Reconcile, ReconcileDeleted, ReconcileTerminal,
           evictSourcePod, waitForClaim, reconcileClaimedReplacement,
           reconcileVerifiedReplacement, get, writeStatus, writeStatusFault, finishReconcile,
           finishReconcileFault, SyncMoves, SyncPods, Crash
  <2> QED BY <1>2, <1>4, <2>1 DEF webhookVars
<1>5. ASSUME NEW h \in Hooks, NEW p \in Pods, CreateRequest(h, p)
      PROVE  NamesInv'
  BY <1>1, <1>5, CreateNames, SetsAssumption DEF NamesInv
<1>6. ASSUME NEW h \in Hooks,
             \/ SyncHook(h)
             \/ \E m \in Moves : skipCandidate(h, m) \/ tryCandidate(h, m)
             \/ claimGet(h) \/ claimUpdate(h)
             \/ Admit(h) \/ CreateRejected(h) \/ AdmissionTimeout(h)
      PROVE  NamesInv'
  <2>1. /\ \A g \in Hooks \ {h} : hook'[g].pod = hook[g].pod /\ hook'[g].name = hook[g].name
        /\ \/ hook'[h].pod = hook[h].pod /\ hook'[h].name = hook[h].name
           \/ hook'[h].pod = None /\ hook'[h].name = None
    BY <1>6, RequestNames
  <2>2. CASE UNCHANGED pods
    BY <1>1, <2>1, <2>2, SetsAssumption DEF NamesInv
  <2>3. ASSUME NEW o \in Moves \cup {None}, hook[h].pod # None, hook'[h].pod = None, Persist(h, o)
        PROVE  NamesInv'
    <3> DEFINE q == hook[h].pod
               n == NewPod(hook[h].name, o)
    <3>1. /\ q \in Pods /\ hook[h].name \in Pods /\ pods[q].st = "absent"
          /\ pods' = [pods EXCEPT ![q] = n]
      BY <1>1, <2>3 DEF NamesInv, HookState, Persist, TypeOK, WebhookTypeOK
    <3>2. /\ n.name = hook[h].name /\ n.label = o
          /\ o # None => n.node = TargetNode[o]
      BY DEF NewPod
    <3>3. \A m \in Moves : Source[m] # q
      BY <3>1 DEF NamesInv
    <3>4. \A g \in Hooks \ {h} : hook[g].pod # q
      BY <2>3 DEF NamesInv
    <3>5. /\ pods'[q] = n /\ \A p \in Pods \ {q} : pods'[p] = pods[p]
      BY <1>1, <3>1
    <3> HIDE DEF q, n
    <3>6. \A m \in Moves : hook[h].name = Source[m] => pods[Source[m]].st = "gone"
      BY DEF NamesInv
    <3>7. ASSUME NEW m \in Moves
          PROVE  /\ pods'[Source[m]].st # "absent" /\ pods'[Source[m]].name = Source[m]
                 /\ \A p \in Pods \ {Source[m]} :
                      pods'[p].name = Source[m] => pods'[Source[m]].st = "gone"
                 /\ \A g \in Hooks : hook'[g].name = Source[m] => pods'[Source[m]].st = "gone"
      <4>1. pods'[Source[m]] = pods[Source[m]] /\ Source[m] # None
        BY <1>1, <3>3, <3>5, SetsAssumption
      <4> QED BY <2>1, <3>2, <3>5, <3>6, <4>1 DEF NamesInv
    <3>8. \A g \in Hooks : hook'[g].pod # None =>
            /\ pods'[hook'[g].pod].st = "absent"
            /\ \A f \in Hooks : hook'[f].pod = hook'[g].pod => f = g
      BY <1>1, <2>1, <2>3, <3>4, <3>5 DEF NamesInv, HookState
    <3>9. \A p \in Pods : pods'[p].label # None => pods'[p].node = TargetNode[pods'[p].label]
      BY <3>2, <3>5 DEF NamesInv
    <3> QED BY <3>7, <3>8, <3>9 DEF NamesInv
  <2> QED BY <1>6, <2>2, <2>3, RequestNames
<1> QED BY <1>3, <1>4, <1>5, <1>6 DEF Next, WebhookNext

-----------------------------------------------------------------------------
(***************************************************************************)
(* The cached pods                                                         *)
(***************************************************************************)
LEMMA NextCache ==
  ASSUME TypeOK, NamesInv, CacheInv, Next
  PROVE  CacheInv'
<1>1. UNCHANGED podCache \/ (podCache' = pods /\ UNCHANGED pods)
  BY DEF Next, ClusterNext, EvictorNext, WebhookNext, evictorVars, Reconcile, ReconcileDeleted,
         ReconcileTerminal, evictSourcePod, waitForClaim, reconcileClaimedReplacement,
         reconcileVerifiedReplacement, get, EvictPod, writeStatus, writeStatusFault,
         finishReconcile, finishReconcileFault, SyncMoves, SyncPods, Crash
<1>2. CASE UNCHANGED podCache
  BY <1>2, PodsGetOn, FollowsOn DEF CacheInv
<1>3. CASE podCache' = pods /\ UNCHANGED pods
  BY <1>3, FollowsSelf DEF CacheInv, NamesInv, TypeOK, ClusterTypeOK
<1> QED BY <1>1, <1>2, <1>3

\* A source pod is found under its own name until it is gone.
LEMMA SourceFound ==
  ASSUME TypeOK, NamesInv, CacheInv, NEW m \in Moves
  PROVE  /\ Named(podCache, Source[m]) = {} => pods[Source[m]].st = "gone"
         /\ Named(pods, Source[m]) = {} => pods[Source[m]].st = "gone"
         /\ \A p \in Named(pods, Source[m]) : p = Source[m] \/ pods[Source[m]].st = "gone"
<1> DEFINE s == Source[m]
<1>1. s \in Pods /\ pods[s] \in PodState /\ podCache[s] \in PodState
  BY SourceAssumption DEF TypeOK, ClusterTypeOK, EvictorTypeOK
<1>2. pods[s].name = s /\ pods[s].st # "absent"
  BY DEF NamesInv
<1>3. podCache[s].name = s /\ podCache[s].st # "absent"
  BY <1>1, <1>2 DEF CacheInv, Follows
<1>4. podCache[s].st = "gone" => pods[s].st = "gone"
  BY <1>1 DEF CacheInv, Follows
<1>5. Named(podCache, s) = {} => pods[s].st = "gone"
  BY <1>1, <1>3, <1>4 DEF Named, PodState
<1>6. Named(pods, s) = {} => pods[s].st = "gone"
  BY <1>1, <1>2 DEF Named, PodState
<1>7. \A p \in Named(pods, s) : p = s \/ pods[s].st = "gone"
  BY DEF Named, NamesInv
<1> QED BY <1>5, <1>6, <1>7

\* A replacement that the cache shows on the target node and started is so.
LEMMA FoundMoved ==
  ASSUME TypeOK, NamesInv, CacheInv, NEW m \in Moves,
         NEW p \in findReplacementPod(m), replacementStarted(p)
  PROVE  MovedIn(pods, m)
<1>1. /\ p \in Pods /\ podCache[p].st = "live" /\ podCache[p].label = m
      /\ podCache[p].phase # "Pending" /\ Follows(podCache[p], pods[p])
  BY DEF findReplacementPod, replacementStarted, CacheInv
<1>2. pods[p].st # "absent" /\ pods[p].label = m /\ pods[p].phase # "Pending"
  BY <1>1 DEF Follows
<1>3. pods[p].node = TargetNode[m]
  BY <1>1, <1>2, SetsAssumption DEF NamesInv
<1> QED BY <1>1, <1>2, <1>3 DEF MovedIn

-----------------------------------------------------------------------------
(***************************************************************************)
(* The reconcile under way                                                 *)
(***************************************************************************)
\* The copy in memory of the reconcile r tells the truth of the pods ps.
TellsRec(ps, r) == Tells(ps, r.move, r.pm.conds)

LEMMA WritingTells ==
  ASSUME NEW ps, NEW r \in Work, NEW pm, NEW then, Tells(ps, r.move, pm.conds)
  PROVE  TellsRec(ps, writing(r, pm, then))
<1>1. writing(r, pm, then).move = r.move /\ writing(r, pm, then).pm = pm
  BY DEF writing, Work, RecState
<1> QED BY <1>1 DEF TellsRec

LEMMA FinishingTells ==
  ASSUME NEW ps, NEW r \in Work, NEW result, TellsRec(ps, r)
  PROVE  TellsRec(ps, finishing(r, result))
<1>1. finishing(r, result).move = r.move /\ finishing(r, result).pm = r.pm
  BY DEF finishing, Work, RecState
<1> QED BY <1>1 DEF TellsRec

LEMMA CountAttemptTells ==
  ASSUME NEW ps, NEW r \in Work, NEW pm, NEW attempt, NEW max, NEW reason,
         Tells(ps, r.move, pm.conds)
  PROVE  TellsRec(ps, countAttempt(r, pm, attempt, max, reason))
<1>1. TellsRec(ps, writing(r, pm, reason))
  BY WritingTells
<1>2. TellsRec(ps, [writing(r, pm, "finish") EXCEPT !.result = "requeue"])
  <2> DEFINE w == [writing(r, pm, "finish") EXCEPT !.result = "requeue"]
  <2>1. w.move = r.move /\ w.pm = pm
    BY DEF writing, Work, RecState
  <2>2. TellsRec(ps, w)
    <3> HIDE DEF w
    <3> QED BY <2>1 DEF TellsRec
  <2> QED BY <2>2
<1> QED BY <1>1, <1>2 DEF countAttempt

\* What keeps the truth of a copy that tells it.
LEMMA KeepsTelling ==
  ASSUME NEW ps, NEW r \in Work, TellsRec(ps, r), NEW due \in BOOLEAN
  PROVE  /\ \A reason \in Reasons :
              /\ TellsRec(ps, requeueEviction(r, due, reason))
              /\ \A then : TellsRec(ps, writing(r, markFailed(r.pm, reason), then))
         /\ TellsRec(ps, reconcileReplacementNotFound(r, due))
         /\ TellsRec(ps, recordFailedRunningAttempt(r, due))
         /\ \A result : TellsRec(ps, finishing(r, result))
         /\ LeavingIn(ps, r.move) =>
              /\ TellsRec(ps, sourcePodGoneDuringEviction(r))
              /\ TellsRec(ps, writing(r, setCondition(r.pm, "SourceEvicted"), "finish"))
         /\ TellsRec(ps, written(r))
         /\ TellsRec(ps, writeFailed(r))
<1>1. /\ r.pm \in PodMoveStatus
      /\ "PodNotFound" \in Reasons
      /\ SyncPhase(r.pm) \in PodMoveStatus
  BY StatusOps DEF Work, RecState, Reasons
<1>2. ASSUME NEW reason \in Reasons, NEW then
      PROVE  TellsRec(ps, writing(r, markFailed(r.pm, reason), then))
  BY <1>1, WritingTells, TellsMore DEF TellsRec
<1>3. ASSUME LeavingIn(ps, r.move)
      PROVE  TellsRec(ps, writing(r, setCondition(r.pm, "SourceEvicted"), "finish"))
  BY <1>1, <1>3, WritingTells, TellsMore DEF TellsRec
<1>4. \A result : TellsRec(ps, finishing(r, result))
  BY FinishingTells
<1>5. ASSUME NEW reason
      PROVE  TellsRec(ps, requeueEviction(r, due, reason))
  <2> DEFINE pm == [r.pm EXCEPT !.evictionAttempts = r.pm.evictionAttempts + 1]
  <2>1. pm.conds = r.pm.conds
    BY <1>1 DEF PodMoveStatus
  <2>2. TellsRec(ps, countAttempt(r, pm, r.pm.evictionAttempts + 1, MaxEvictionAttempts, reason))
    <3> HIDE DEF pm
    <3> QED BY <2>1, CountAttemptTells DEF TellsRec
  <2> QED BY <1>4, <2>2 DEF requeueEviction
<1>6. TellsRec(ps, reconcileReplacementNotFound(r, due))
  <2> DEFINE pm == [r.pm EXCEPT !.persistAttempts = r.pm.persistAttempts + 1]
  <2>1. pm.conds = r.pm.conds
    BY <1>1 DEF PodMoveStatus
  <2>2. TellsRec(ps, countAttempt(r, pm, r.pm.persistAttempts + 1, MaxPersistAttempts,
                                  "ReplacementNotPersisted"))
    <3> HIDE DEF pm
    <3> QED BY <2>1, CountAttemptTells DEF TellsRec
  <2> QED BY <1>4, <2>2 DEF reconcileReplacementNotFound, recordFailedPersistAttempt
<1>7. TellsRec(ps, recordFailedRunningAttempt(r, due))
  <2> DEFINE pm == [r.pm EXCEPT !.runningAttempts = r.pm.runningAttempts + 1]
  <2>1. pm.conds = r.pm.conds
    BY <1>1 DEF PodMoveStatus
  <2>2. TellsRec(ps, countAttempt(r, pm, r.pm.runningAttempts + 1, MaxRunningAttempts,
                                  "ReplacementNotRunning"))
    <3> HIDE DEF pm
    <3> QED BY <2>1, CountAttemptTells DEF TellsRec
  <2> QED BY <1>4, <2>2 DEF recordFailedRunningAttempt
<1>8. ASSUME LeavingIn(ps, r.move)
      PROVE  TellsRec(ps, sourcePodGoneDuringEviction(r))
  BY <1>1, <1>2, <1>8, <1>3 DEF sourcePodGoneDuringEviction
<1>9. TellsRec(ps, writeFailed(r))
  <2>1. writeFailed(r).move = r.move /\ writeFailed(r).pm = SyncPhase(r.pm)
    BY DEF writeFailed, finishing, Work, RecState
  <2> QED BY <1>1, <2>1, TellsMore DEF TellsRec
<1>10. TellsRec(ps, written(r))
  <2> DEFINE new == SyncPhase(r.pm)
             s == [r EXCEPT !.base = new, !.pm = new]
             w == [s EXCEPT !.pc = r.then, !.then = "finish"]
  <2>1. /\ s \in Work /\ s.move = r.move /\ s.pm = new
        /\ w.move = r.move /\ w.pm = new
    BY <1>1 DEF Work, RecState
  <2>2. /\ Tells(ps, r.move, new.conds)
        /\ r.then \in Reasons => Tells(ps, r.move, markFailed(new, r.then).conds)
    BY <1>1, TellsMore DEF TellsRec
  <2>3. r.then \in Reasons => TellsRec(ps, writing(s, markFailed(new, r.then), "finish"))
    <3> HIDE DEF s, new
    <3> QED BY <2>1, <2>2, WritingTells
  <2>4. TellsRec(ps, w)
    <3> HIDE DEF w, new
    <3> QED BY <2>1, <2>2 DEF TellsRec
  <2> QED BY <2>3, <2>4 DEF written
<1> QED BY <1>2, <1>4, <1>5, <1>6, <1>7, <1>8, <1>9, <1>10, <1>3

\* A reconcile starts on a cached status that tells the truth, and adds what the
\* cached pods show.
LEMMA ReconcileTells ==
  ASSUME TypeOK, TruthInv, NEW m \in Moves, NEW due \in BOOLEAN, Reconcile(m, due)
  PROVE  UNCHANGED rec \/ TellsRec(pods, rec')
<1>1. /\ cached[m] \in PodMoveStatus /\ Copy(m) \in Work
      /\ Copy(m).move = m /\ Copy(m).pm = cached[m]
      /\ Tells(pods, m, cached[m].conds) /\ TellsRec(pods, Copy(m))
  BY CopyType DEF TruthInv, TellsInv, Copy, Idle, TellsRec
<1>2. ASSUME NEW r \in Reasons
      PROVE  TellsRec(pods, writing(Copy(m), markFailed(cached[m], r), "finish"))
  <2>1. Tells(pods, Copy(m).move, markFailed(cached[m], r).conds)
    BY <1>1, TellsMore
  <2> QED BY <1>1, <2>1, WritingTells
<1>3. ASSUME NEW c \in Conditions, NEW then,
             \/ c \in {"SourceEvicting", "ReplacementBound"}
             \/ c = "ReplacementSucceeded" /\ MovedIn(pods, m)
      PROVE  TellsRec(pods, writing(Copy(m), setCondition(cached[m], c), then))
  <2>1. Tells(pods, Copy(m).move, setCondition(cached[m], c).conds)
    BY <1>1, <1>3, TellsMore
  <2> QED BY <1>1, <2>1, WritingTells
<1>4. /\ TellsRec(pods, writing(Copy(m), setCondition(cached[m], "SourceEvicting"), "evict"))
      /\ TellsRec(pods, writing(Copy(m), setCondition(cached[m], "ReplacementBound"), "finish"))
      /\ MovedIn(pods, m) =>
           TellsRec(pods, writing(Copy(m), setCondition(cached[m], "ReplacementSucceeded"), "finish"))
      /\ TellsRec(pods, writing(Copy(m), markFailed(cached[m], "ReplacementNotClaimed"), "finish"))
      /\ TellsRec(pods, writing(Copy(m), markFailed(cached[m], "ReplacementNotFound"), "finish"))
  BY <1>2, <1>3 DEF Conditions, Reasons
<1>5. /\ TellsRec(pods, reconcileReplacementNotFound(Copy(m), due))
      /\ TellsRec(pods, recordFailedRunningAttempt(Copy(m), due))
      /\ \A result : TellsRec(pods, finishing(Copy(m), result))
  BY <1>1, KeepsTelling
<1>6. CASE ReconcileDeleted(m)
  BY <1>6 DEF ReconcileDeleted
<1>7. CASE ReconcileTerminal(m)
  BY <1>1, <1>7 DEF ReconcileTerminal
<1>8. CASE evictSourcePod(m)
  <2>1. TellsRec(pods, [Copy(m) EXCEPT !.pc = "evict"])
    BY <1>1 DEF TellsRec, Work, RecState
  <2> QED BY <1>4, <1>8, <2>1 DEF evictSourcePod
<1>9. CASE waitForClaim(m, due)
  BY <1>5, <1>9, <1>4 DEF waitForClaim
<1>10. CASE reconcileClaimedReplacement(m, due)
  BY <1>5, <1>10, <1>4 DEF reconcileClaimedReplacement
<1>11. CASE reconcileVerifiedReplacement(m, due)
  <2>1. replacementOnTarget(m) \subseteq findReplacementPod(m)
    BY DEF replacementOnTarget
  <2>2. \A p \in findReplacementPod(m) : replacementStarted(p) => MovedIn(pods, m)
    BY FoundMoved DEF TruthInv
  <2> QED BY <1>5, <1>11, <1>4, <2>1, <2>2 DEF reconcileVerifiedReplacement
<1> QED BY <1>6, <1>7, <1>8, <1>9, <1>10, <1>11 DEF Reconcile

\* An eviction is recorded for a source pod that is on its way out: the cache
\* or the API server finds no pod of its name, or the pod that has the name is
\* asked to go.
LEMMA EvictPodTells ==
  ASSUME TypeOK, TruthInv, NEW due \in BOOLEAN, EvictPod(due),
         \A p \in Pods : Follows(pods[p], pods'[p])
  PROVE  TellsRec(pods', rec')
<1> DEFINE m == rec.move
           s == Source[m]
<1>1. /\ m \in Moves /\ s \in Pods /\ rec \in Work /\ rec.pc = "evict"
      /\ pods \in [Pods -> PodState]
  BY SourceAssumption DEF EvictPod, TypeOK, EvictorTypeOK, ClusterTypeOK, Work
<1>2. TellsRec(pods, rec) /\ TellsRec(pods', rec)
  BY <1>1, TellsOn DEF TruthInv, TellsInv, TellsRec
<1>3. /\ Named(podCache, s) = {} => LeavingIn(pods, m)
      /\ Named(pods, s) = {} => LeavingIn(pods, m)
      /\ \A p \in Named(pods, s) : p = s \/ LeavingIn(pods, m)
  BY <1>1, SourceFound DEF TruthInv, LeavingIn
<1>4. /\ "BlockedByPDB" \in Reasons /\ "EvictionFailed" \in Reasons
      /\ LeavingIn(pods, m) => LeavingIn(pods', m)
  BY <1>1, TellsOn DEF Reasons
<1>5. /\ TellsRec(pods', requeueEviction(rec, due, "BlockedByPDB"))
      /\ TellsRec(pods', requeueEviction(rec, due, "EvictionFailed"))
      /\ TellsRec(pods', writing(rec, markFailed(rec.pm, "EvictionFailed"), "finish"))
      /\ TellsRec(pods', finishing(rec, "error"))
      /\ LeavingIn(pods', m) =>
           /\ TellsRec(pods', sourcePodGoneDuringEviction(rec))
           /\ TellsRec(pods', writing(rec, setCondition(rec.pm, "SourceEvicted"), "finish"))
  BY <1>1, <1>2, <1>4, KeepsTelling
<1>6. ASSUME NEW p \in Named(pods, s), pods' = [pods EXCEPT ![p].st = "terminating"]
      PROVE  LeavingIn(pods', m)
  <2>1. p = s => LeavingIn(pods', m)
    BY <1>1, <1>6 DEF LeavingIn
  <2> QED BY <1>3, <1>4, <2>1
<1>7. CASE Named(podCache, s) = {} /\ rec' = sourcePodGoneDuringEviction(rec)
  BY <1>3, <1>4, <1>5, <1>7
<1>8. CASE rec' = finishing(rec, "error")
  BY <1>5, <1>8
<1>9. CASE createEviction(s, due)
  BY <1>3, <1>4, <1>5, <1>6, <1>9 DEF createEviction
<1> QED BY <1>7, <1>8, <1>9 DEF EvictPod

-----------------------------------------------------------------------------
(***************************************************************************)
(* The statuses                                                            *)
(***************************************************************************)
\* A step writes what the reconcile has, or the claim of a request, or nothing.
LEMMA StatusWrites ==
  ASSUME TypeOK, Next
  PROVE  \/ UNCHANGED status
         \/ /\ rec.pc # "idle" /\ UNCHANGED pods
            /\ status' = [status EXCEPT ![rec.move] = SyncPhase(rec.pm)]
         \/ \E h \in Hooks : /\ hook[h].pc = "update" /\ UNCHANGED pods
                             /\ claimAccepted(h) /\ Claim(h)
<1>1. CASE ClusterNext
  BY <1>1 DEF ClusterNext, DeletePod, RemovePod, RunPod, FailPod, CancelMove
<1>2. CASE EvictorNext
  BY <1>2 DEF EvictorNext, Reconcile, ReconcileDeleted, ReconcileTerminal,
         evictSourcePod, waitForClaim, reconcileClaimedReplacement,
         reconcileVerifiedReplacement, get, EvictPod, writeStatus, writeStatusFault,
         finishReconcile, finishReconcileFault, SyncMoves, SyncPods, Crash
<1>3. CASE WebhookNext
  BY <1>3 DEF WebhookNext, SyncHook, CreateRequest, skipCandidate, tryCandidate,
              claimGet, claimUpdate, Admit, CreateRejected, AdmissionTimeout
<1> QED BY <1>1, <1>2, <1>3 DEF Next

LEMMA StatusTells ==
  ASSUME TypeOK, TruthInv, Next, NEW m \in Moves
  PROVE  Tells(pods', m, status'[m].conds)
<1>1. /\ \A p \in Pods : Follows(pods[p], pods'[p])
      /\ status \in [Moves -> PodMoveStatus]
      /\ Tells(pods, m, status[m].conds)
  BY PodsGetOn DEF TruthInv, TellsInv, TypeOK, ClusterTypeOK
<1>2. Tells(pods', m, status[m].conds)
  BY <1>1, TellsOn
<1>3. CASE UNCHANGED status
  BY <1>2, <1>3
<1>4. CASE /\ rec.pc # "idle" /\ UNCHANGED pods
           /\ status' = [status EXCEPT ![rec.move] = SyncPhase(rec.pm)]
  <2>1. Tells(pods, rec.move, SyncPhase(rec.pm).conds)
    BY <1>4, TellsMore DEF TruthInv, TellsInv, TypeOK, EvictorTypeOK, RecState
  <2> QED BY <1>1, <1>4, <2>1
<1>5. ASSUME NEW h \in Hooks, hook[h].pc = "update", UNCHANGED pods,
             claimAccepted(h), Claim(h)
      PROVE  Tells(pods', m, status'[m].conds)
  <2> DEFINE o == hook[h].move
  <2>1. o \in Moves /\ hook[h].base = status[o]
    BY <1>5 DEF claimAccepted, TypeOK, ClusterTypeOK
  <2>2. LeavingIn(pods, o) /\ Tells(pods, o, status[o].conds) /\ status[o] \in PodMoveStatus
    BY <1>1, <1>5, <2>1 DEF TruthInv, TellsInv
  <2>3. Tells(pods, o, setCondition(status[o], "ReplacementClaimed").conds)
    <3> HIDE DEF o
    <3> QED BY <2>2, TellsMore
  <2> QED BY <1>1, <1>5, <2>1, <2>3 DEF Claim
<1> QED BY <1>3, <1>4, <1>5, StatusWrites

\* The caches of statuses are copies of what the API server has or had.
LEMMA CachesTell ==
  ASSUME TypeOK, TruthInv, Next, NEW m \in Moves
  PROVE  /\ Tells(pods', m, cached'[m].conds)
         /\ \A h \in Hooks : Tells(pods', m, hookCache'[h][m])
<1>1. /\ \A p \in Pods : Follows(pods[p], pods'[p])
      /\ \A c : Tells(pods, m, c) => Tells(pods', m, c)
  BY PodsGetOn, TellsOn DEF TruthInv
<1>2. /\ Tells(pods', m, status[m].conds)
      /\ Tells(pods', m, cached[m].conds)
      /\ \A h \in Hooks : Tells(pods', m, hookCache[h][m])
      /\ Tells(pods', m, {})
  BY <1>1 DEF TruthInv, TellsInv, Tells
<1>3. UNCHANGED cached \/ cached' = status
  BY DEF Next, ClusterNext, EvictorNext, WebhookNext, evictorVars, Reconcile, ReconcileDeleted,
         ReconcileTerminal, evictSourcePod, waitForClaim, reconcileClaimedReplacement,
         reconcileVerifiedReplacement, get, EvictPod, writeStatus, writeStatusFault,
         finishReconcile, finishReconcileFault, SyncMoves, SyncPods, Crash
<1>4. UNCHANGED hookCache \/ \E h \in Hooks : SyncHook(h)
  BY DEF Next, EvictorNext, WebhookNext, webhookVars, CreateRequest, skipCandidate, tryCandidate,
         claimGet, claimUpdate, Admit, CreateRejected, AdmissionTimeout
<1>5. \A h \in Hooks : hookCache'[h][m] \in {hookCache[h][m], status[m].conds, {}}
  BY <1>4 DEF SyncHook, TypeOK, WebhookTypeOK
<1> QED BY <1>2, <1>3, <1>5

LEMMA RecTells ==
  ASSUME TypeOK, TruthInv, Next, rec'.pc # "idle"
  PROVE  TellsRec(pods', rec')
<1>1. \A p \in Pods : Follows(pods[p], pods'[p])
  BY PodsGetOn DEF TruthInv
<1>2. ASSUME NEW r \in Work, TellsRec(pods, r)
      PROVE  TellsRec(pods', r)
  BY <1>1, <1>2, TellsOn DEF TellsRec, Work
<1>3. rec.pc # "idle" => rec \in Work /\ TellsRec(pods, rec)
  BY DEF TruthInv, TellsInv, TellsRec, TypeOK, EvictorTypeOK, Work
<1>4. CASE UNCHANGED rec
  BY <1>2, <1>3, <1>4 DEF TellsRec
<1>5. ASSUME NEW m \in Moves, NEW due \in BOOLEAN, Reconcile(m, due)
      PROVE  TellsRec(pods', rec')
  <2>1. UNCHANGED pods
    BY <1>5 DEF Reconcile, ReconcileDeleted, ReconcileTerminal, evictSourcePod, waitForClaim,
           reconcileClaimedReplacement, reconcileVerifiedReplacement, get
  <2> QED BY <1>4, <1>5, <2>1, ReconcileTells DEF TellsRec
<1>6. ASSUME NEW due \in BOOLEAN, EvictPod(due)
      PROVE  TellsRec(pods', rec')
  BY <1>1, <1>6, EvictPodTells
<1>7. CASE writeStatus \/ writeStatusFault
  <2>1. UNCHANGED pods /\ rec.pc = "write" /\ rec' \in {written(rec), writeFailed(rec), Idle}
    BY <1>7 DEF writeStatus, writeStatusFault
  <2>2. TellsRec(pods, written(rec)) /\ TellsRec(pods, writeFailed(rec))
    BY <1>3, <2>1, KeepsTelling
  <2>3. Idle.pc = "idle"
    BY DEF Idle
  <2> QED BY <2>1, <2>2, <2>3
<1>8. CASE EvictorNext
  <2>1. Idle.pc = "idle"
    BY DEF Idle
  <2> QED BY <1>4, <1>5, <1>6, <1>7, <1>8, <2>1
          DEF EvictorNext, finishReconcile, finishReconcileFault, SyncMoves, SyncPods, Crash
<1>9. CASE UNCHANGED evictorVars
  BY <1>4, <1>9 DEF evictorVars
<1> QED BY <1>8, <1>9 DEF Next

-----------------------------------------------------------------------------
(***************************************************************************)
(* The requests                                                            *)
(***************************************************************************)
\* A request goes for a PodMove when the list says that its source is evicted,
\* or a read of the source pod does not find it alive.
LEMMA TryLeaving ==
  ASSUME TypeOK, TruthInv, NEW h \in Hooks, NEW m \in Moves, hasBeenEvicted(h, m)
  PROVE  LeavingIn(pods, m)
<1>1. Source[m] \in Pods /\ pods[Source[m]] \in PodState
  BY SourceAssumption DEF TypeOK, ClusterTypeOK
<1>2. pods[Source[m]].st # "absent" /\ pods[Source[m]].name = Source[m]
  BY DEF TruthInv, NamesInv
<1>3. CASE "SourceEvicted" \in hookCache[h][m]
  BY <1>3 DEF TruthInv, TellsInv, Tells
<1>4. CASE ~\E p \in Named(pods, Source[m]) : p = Source[m] /\ pods[p].st = "live"
  BY <1>1, <1>2, <1>4 DEF Named, LeavingIn, PodState
<1> QED BY <1>3, <1>4 DEF hasBeenEvicted

LEMMA HookTells ==
  ASSUME TypeOK, TruthInv, Next, NEW g \in Hooks, hook'[g].pc \in {"get", "update"}
  PROVE  LeavingIn(pods', hook'[g].move)
<1>1. /\ \A p \in Pods : Follows(pods[p], pods'[p])
      /\ hook \in [Hooks -> HookState]
      /\ \A h \in Hooks : hook[h].pc \in {"get", "update"} =>
                            hook[h].move \in Moves /\ LeavingIn(pods, hook[h].move)
  BY PodsGetOn DEF TruthInv, TellsInv, TypeOK, WebhookTypeOK, HookState
<1>2. \A m \in Moves : LeavingIn(pods, m) => LeavingIn(pods', m)
  BY <1>1, TellsOn
<1>3. CASE hook'[g] = hook[g]
  BY <1>1, <1>2, <1>3
<1>4. \A r, todo : r \in HookState => nextCandidate(r, todo).pc \in {"try", "reply"}
  BY DEF nextCandidate, HookState
<1>5. ASSUME NEW m \in Moves, tryCandidate(g, m)
      PROVE  LeavingIn(pods', hook'[g].move)
  <2> DEFINE r == [hook[g] EXCEPT !.pc = "get", !.move = m, !.todo = hook[g].todo \ {m}]
  <2>1. hook' = [hook EXCEPT ![g] = r] /\ hasBeenEvicted(g, m)
    BY <1>1, <1>5 DEF tryCandidate
  <2>2. r.move = m
    BY <1>1 DEF HookState
  <2> HIDE DEF r
  <2> QED BY <1>1, <1>2, <2>1, <2>2, TryLeaving
<1>6. CASE claimGet(g)
  <2> DEFINE r == [hook[g] EXCEPT !.pc = "update", !.base = status[hook[g].move]]
  <2>1. \/ hook' = [hook EXCEPT ![g] = r]
        \/ hook' = [hook EXCEPT ![g] = nextCandidate(hook[g], hook[g].todo)]
    BY <1>1, <1>6 DEF claimGet
  <2>2. r.move = hook[g].move /\ hook[g].pc = "get"
    BY <1>1, <1>6 DEF HookState, claimGet
  <2> HIDE DEF r
  <2> QED BY <1>1, <1>2, <1>4, <2>1, <2>2
<1>7. CASE claimUpdate(g)
  <2> DEFINE tries == hook[g].tries + 1
             r1 == [hook[g] EXCEPT !.pc = "reply", !.todo = {}, !.base = NewPodMove, !.tries = 0]
             r2 == [hook[g] EXCEPT !.pc = "get", !.base = NewPodMove, !.tries = tries]
             r3 == nextCandidate(hook[g], hook[g].todo)
  <2>1. \E r \in {r1, r2, r3} : hook' = [hook EXCEPT ![g] = r]
    BY <1>1, <1>7 DEF claimUpdate
  <2>2. r1.pc = "reply" /\ r2.move = hook[g].move /\ hook[g].pc = "update"
    BY <1>1, <1>7 DEF HookState, claimUpdate
  <2>3. r3.pc \in {"try", "reply"}
    BY <1>1, <1>4
  <2> HIDE DEF r1, r2, r3
  <2> QED BY <1>1, <1>2, <2>1, <2>2, <2>3
<1>8. CASE AdmissionTimeout(g)
  <2> DEFINE r == [hook[g] EXCEPT !.pod = None, !.name = None]
  <2>1. r.pc = hook[g].pc /\ r.move = hook[g].move /\ hook' = [hook EXCEPT ![g] = r]
    BY <1>1, <1>8 DEF AdmissionTimeout, HookState
  <2> HIDE DEF r
  <2> QED BY <1>1, <1>2, <2>1
<1>9. ASSUME NEW m \in Moves, skipCandidate(g, m)
      PROVE  LeavingIn(pods', hook'[g].move)
  BY <1>1, <1>4, <1>9 DEF skipCandidate
<1>10. ASSUME NEW p \in Pods, CreateRequest(g, p)
       PROVE  LeavingIn(pods', hook'[g].move)
  <2>1. PICK name \in NamesFor(p) :
          hook' = [hook EXCEPT ![g] =
                     nextCandidate([NoRequest EXCEPT !.pod = p, !.name = name],
                                   listOpenPodMoveMatches(g, p, name))]
    BY <1>10 DEF CreateRequest
  <2>2. nextCandidate([NoRequest EXCEPT !.pod = p, !.name = name],
                      listOpenPodMoveMatches(g, p, name)).pc \in {"try", "reply"}
    BY DEF nextCandidate, NoRequest
  <2> QED BY <1>1, <2>1, <2>2
<1>11. CASE Admit(g) \/ CreateRejected(g)
  <2>1. hook' = [hook EXCEPT ![g] = NoRequest] /\ NoRequest.pc = "idle"
    BY <1>11 DEF Admit, CreateRejected, NoRequest
  <2> QED BY <1>1, <2>1
<1>12. ASSUME NEW h \in Hooks, h # g,
              \/ \E p \in Pods : CreateRequest(h, p)
              \/ \E m \in Moves : skipCandidate(h, m) \/ tryCandidate(h, m)
              \/ claimGet(h) \/ claimUpdate(h)
              \/ Admit(h) \/ CreateRejected(h) \/ AdmissionTimeout(h)
       PROVE  hook'[g] = hook[g]
  BY <1>1, <1>12 DEF CreateRequest, skipCandidate, tryCandidate, claimGet, claimUpdate, Admit,
                     CreateRejected, AdmissionTimeout
<1>13. UNCHANGED hook \/ WebhookNext
  BY DEF Next, webhookVars
<1> QED BY <1>3, <1>5, <1>6, <1>7, <1>8, <1>9, <1>10, <1>11, <1>12, <1>13
        DEF WebhookNext, SyncHook

-----------------------------------------------------------------------------
(***************************************************************************)
(* The invariant and what follows from it                                  *)
(***************************************************************************)
LEMMA InitTruth == Init => TruthInv
<1> SUFFICES ASSUME Init PROVE TruthInv
  OBVIOUS
<1>1. /\ \A m \in Moves : Source[m] \in Pods /\ Source[m] \in Sources
      /\ pods \in [Pods -> PodState]
  BY InitType, SourceAssumption DEF Sources, TypeOK, ClusterTypeOK
<1>2. NamesInv
  BY <1>1, SetsAssumption DEF Init, ClusterInit, WebhookInit, NoRequest, NamesInv
<1>3. CacheInv
  BY <1>1, <1>2, FollowsSelf DEF Init, EvictorInit, CacheInv, NamesInv
<1>4. TellsInv
  BY DEF Init, ClusterInit, EvictorInit, WebhookInit, NewPodMove, NoRequest, Idle, TellsInv, Tells
<1> QED BY <1>2, <1>3, <1>4 DEF TruthInv

LEMMA NextTruth == TypeOK /\ TruthInv /\ [Next]_vars => TruthInv'
<1> SUFFICES ASSUME TypeOK, TruthInv, [Next]_vars PROVE TruthInv'
  OBVIOUS
<1>1. CASE Next
  <2>1. NamesInv' /\ CacheInv'
    BY <1>1, NextNames, NextCache DEF TruthInv
  <2>2. TellsInv'
    BY <1>1, StatusTells, CachesTell, RecTells, HookTells DEF TellsInv, TellsRec
  <2> QED BY <2>1, <2>2 DEF TruthInv
<1>2. CASE UNCHANGED vars
  BY <1>2 DEF vars, clusterVars, evictorVars, webhookVars, TruthInv, NamesInv, CacheInv, TellsInv,
              Tells, LeavingIn, MovedIn
<1> QED BY <1>1, <1>2

\* Every status, cached status and write under way says of the source pod and of
\* the replacement what is so, however old the caches are that it was computed
\* from: pods only get on, so what was seen once still holds.
THEOREM Truth == Spec => []TruthInv
  BY InitTruth, NextTruth, TypeCorrect, PTL DEF Spec

\* A PodMove is marked SourceEvicted (evictSourcePod) and claimed
\* (hasBeenEvicted, claimReplacement) only when the pod of its podRef is on its
\* way out, also when another pod has that pod's name by then.
THEOREM EvictedIsGone == Spec => []EvictedMeansGone
<1>1. TruthInv => EvictedMeansGone
  BY DEF TruthInv, TellsInv, Tells, LeavingIn, SourceGone, EvictedMeansGone
<1> QED BY <1>1, Truth, PTL

\* A PodMove that succeeded has a pod pinned to its target node that got beyond
\* Pending, and its source pod is on its way out (reconcileVerifiedReplacement).
THEOREM SucceededHasMoved == Spec => []SucceededMeansMoved
<1>1. IInv /\ TruthInv => SucceededMeansMoved
  <2> SUFFICES ASSUME IInv, TruthInv, NEW m \in Moves,
                      "ReplacementSucceeded" \in status[m].conds
               PROVE  SourceGone(m) /\ MovedIn(pods, m)
    BY DEF SucceededMeansMoved, MovedIn
  <2>1. "SourceEvicted" \in status[m].conds
    BY DEF IInv, StatusInv, StatusOK, Sound
  <2> QED BY <2>1 DEF TruthInv, TellsInv, Tells, LeavingIn, SourceGone
<1> QED BY <1>1, Truth, Invariant, PTL
=============================================================================
