-------------------------- MODULE PlanReconcilerProofs --------------------------
(***************************************************************************)
(* Type correctness of the ConsolidationPlan reconciler, and three of its  *)
(* safety properties, for all plans, pods, nodes and bounds.               *)
(***************************************************************************)
EXTENDS PlanReconciler, TLAPS

-----------------------------------------------------------------------------
(***************************************************************************)
(* Types.  MovesKnown says more than PlanTypeOK: a PodMove that exists is  *)
(* labelled with a plan and owned by one, and is of a pod this plan moves. *)
(***************************************************************************)
MovesFor(s) == {pl \in Plans : s \in MovesOf[pl]}
PodMoveOf(s) == {NoMove} \cup [plan : MovesFor(s), owner : MovesFor(s),
                              replaced : BOOLEAN, ended : BOOLEAN]

MovesKnown == \A s \in Sources : moves[s] \in PodMoveOf(s) /\ moveCache[s] \in PodMoveOf(s)

TodoOfPlan == \A pl \in Plans : planner[pl].todo \subseteq MovesOf[pl]

Typed == PlanTypeOK /\ MovesKnown /\ TodoOfPlan

LEMMA TypedInit == Init => Typed
<1> SUFFICES ASSUME Init PROVE Typed
  OBVIOUS
<1> USE PlansAssumption, ReconcilerAssumption
<1>1. moves \in [Sources -> MoveState]
  BY DEF Init, PlansInit, NoMove, MoveState
<1>2. pods \in [Pods -> PodState]
  BY DEF Init, PlansInit, NoPod, NewPod, PodState, Pods
<1>3. planner \in [Plans -> RunState]
  BY DEF Init, PlansInit, RunState
<1>4. PlanTypeOK
  <2>1. /\ ordered \in [Sources -> SUBSET Plans] /\ errors \in 0..MaxErrors
        /\ plans \subseteq made /\ made \subseteq Plans
    BY DEF Init, PlansInit
  <2>2. /\ planCache \subseteq made /\ moveCache = moves /\ podCache = pods
        /\ events \subseteq Nodes /\ queue \subseteq Plans
        /\ unlisted \subseteq Nodes /\ hit \subseteq Nodes
        /\ restarts \in 0..MaxRestarts /\ listErrors \in 0..MaxListErrors
    BY DEF Init, PlansInit
  <2> QED
    BY <1>1, <1>2, <1>3, <2>1, <2>2 DEF PlanTypeOK, PlansTypeOK
<1>5. MovesKnown
  BY DEF Init, PlansInit, MovesKnown, PodMoveOf
<1>6. TodoOfPlan
  BY DEF Init, PlansInit, TodoOfPlan
<1> QED
  BY <1>4, <1>5, <1>6 DEF Typed

\* What a step makes of the runs of the planner.
LEMMA RunsTyped ==
  ASSUME Typed, PlannerStep
  PROVE  planner' \in [Plans -> RunState] /\ TodoOfPlan'
<1> PICK pl \in Plans : \/ choosePlan(pl) \/ createConsolidationPlan(pl)
                        \/ \E s \in Sources : createPodMoveCRD(pl, s)
                        \/ finishApply(pl) \/ killPlanner(pl)
  BY DEF PlannerStep
<1> DEFINE run == planner[pl]
           become(r) == planner' = [planner EXCEPT ![pl] = r]
<1>1. planner \in [Plans -> RunState] /\ run \in RunState
  BY DEF Typed, PlanTypeOK, PlansTypeOK
<1>2. run.todo \subseteq MovesOf[pl]
  BY DEF Typed, TodoOfPlan
<1>3. MovesOf[pl] \subseteq Sources
  BY PlansAssumption
<1>4. SUFFICES ASSUME NEW r \in RunState, become(r), r.todo \subseteq MovesOf[pl]
               PROVE  planner' \in [Plans -> RunState] /\ TodoOfPlan'
  <2>1. CASE choosePlan(pl)
    <3>1. [run EXCEPT !.pc = "chosen"] \in RunState
      BY <1>1 DEF RunState
    <3>2. become([run EXCEPT !.pc = "chosen"])
      BY <2>1 DEF choosePlan
    <3> QED
      BY <1>1, <1>2, <3>1, <3>2, <1>4 DEF RunState
  <2>2. CASE createConsolidationPlan(pl)
    <3>1. CASE planner' = [planner EXCEPT ![pl].pc = "apply", ![pl].todo = MovesOf[pl]]
      <4>1. [run EXCEPT !.pc = "apply", !.todo = MovesOf[pl]] \in RunState
        BY <1>1, <1>3 DEF RunState
      <4>2. become([run EXCEPT !.pc = "apply", !.todo = MovesOf[pl]])
        BY <3>1
      <4>3. [run EXCEPT !.pc = "apply", !.todo = MovesOf[pl]].todo = MovesOf[pl]
        BY <1>1 DEF RunState
      <4> QED
        BY <1>4, <4>1, <4>2, <4>3
    <3>2. CASE planner' = [planner EXCEPT ![pl].pc = "done", ![pl].outcome = "apply-failed"]
      <4>1. [run EXCEPT !.pc = "done", !.outcome = "apply-failed"] \in RunState
        BY <1>1 DEF RunState
      <4>2. become([run EXCEPT !.pc = "done", !.outcome = "apply-failed"])
        BY <3>2
      <4> QED
        BY <1>1, <1>2, <1>4, <4>1, <4>2 DEF RunState
    <3> QED
      BY <2>2, <3>1, <3>2 DEF createConsolidationPlan
  <2>3. ASSUME NEW s \in Sources, createPodMoveCRD(pl, s)
        PROVE  planner' \in [Plans -> RunState] /\ TodoOfPlan'
    <3>1. CASE planner' = [planner EXCEPT ![pl].todo = @ \ {s}]
      <4>1. [run EXCEPT !.todo = @ \ {s}] \in RunState
        BY <1>1 DEF RunState
      <4>2. become([run EXCEPT !.todo = @ \ {s}])
        BY <3>1
      <4>3. [run EXCEPT !.todo = @ \ {s}].todo = run.todo \ {s}
        BY <1>1 DEF RunState
      <4> QED
        BY <1>2, <1>4, <4>1, <4>2, <4>3
    <3>2. CASE planner' = [planner EXCEPT ![pl].todo = @ \ {s}, ![pl].failed = TRUE]
      <4>1. [run EXCEPT !.todo = @ \ {s}, !.failed = TRUE] \in RunState
        BY <1>1 DEF RunState
      <4>2. become([run EXCEPT !.todo = @ \ {s}, !.failed = TRUE])
        BY <3>2
      <4>3. [run EXCEPT !.todo = @ \ {s}, !.failed = TRUE].todo = run.todo \ {s}
        BY <1>1 DEF RunState
      <4> QED
        BY <1>2, <1>4, <4>1, <4>2, <4>3
    <3> QED
      BY <2>3, <3>1, <3>2 DEF createPodMoveCRD
  <2>4. CASE finishApply(pl)
    <3>1. [run EXCEPT !.pc = "done", !.outcome = outcomeOf(run)] \in RunState
      BY <1>1 DEF RunState, outcomeOf
    <3>2. become([run EXCEPT !.pc = "done", !.outcome = outcomeOf(run)])
      BY <2>4 DEF finishApply
    <3> QED
      BY <1>1, <1>2, <1>4, <3>1, <3>2 DEF RunState
  <2>5. CASE killPlanner(pl)
    <3>1. [run EXCEPT !.pc = "killed", !.todo = {}] \in RunState
      BY <1>1 DEF RunState
    <3>2. become([run EXCEPT !.pc = "killed", !.todo = {}])
      BY <2>5 DEF killPlanner
    <3>3. [run EXCEPT !.pc = "killed", !.todo = {}].todo = {}
      BY <1>1 DEF RunState
    <3> QED
      BY <1>4, <3>1, <3>2, <3>3
  <2> QED
    BY <2>1, <2>2, <2>3, <2>4, <2>5
<1> QED
  BY <1>1, <1>4 DEF Typed, TodoOfPlan

LEMMA MoveTypes == ASSUME NEW s \in Sources, NEW x \in PodMoveOf(s) PROVE x \in MoveState
<1>1. CASE x = NoMove
  BY <1>1 DEF NoMove, MoveState
<1>2. CASE x \in [plan : MovesFor(s), owner : MovesFor(s), replaced : BOOLEAN, ended : BOOLEAN]
  BY <1>2 DEF MoveState, MovesFor
<1> QED
  BY <1>1, <1>2 DEF PodMoveOf

\* What a step makes of the PodMoves.
LEMMA MovesTyped ==
  ASSUME Typed, PlannerStep \/ ClusterStep
  PROVE  moves' \in [Sources -> MoveState] /\ \A s \in Sources : moves'[s] \in PodMoveOf(s)
<1>1. moves \in [Sources -> MoveState] /\ \A s \in Sources : moves[s] \in PodMoveOf(s)
  BY DEF Typed, PlanTypeOK, PlansTypeOK, MovesKnown
<1>2. SUFFICES ASSUME NEW s \in Sources, NEW x \in PodMoveOf(s),
                      moves' = [moves EXCEPT ![s] = x]
               PROVE  /\ moves' \in [Sources -> MoveState]
                      /\ \A t \in Sources : moves'[t] \in PodMoveOf(t)
  <2>1. CASE PlannerStep
    <3>1. PICK pl \in Plans : \/ choosePlan(pl) \/ createConsolidationPlan(pl)
                              \/ \E s \in Sources : createPodMoveCRD(pl, s)
                              \/ finishApply(pl) \/ killPlanner(pl)
      BY <2>1 DEF PlannerStep
    <3>2. ASSUME NEW s \in Sources, createPodMoveCRD(pl, s), moves' # moves
          PROVE  moves' = [moves EXCEPT ![s] = newPodMove(pl)] /\ newPodMove(pl) \in PodMoveOf(s)
      <4>1. s \in MovesOf[pl]
        BY <3>2 DEF createPodMoveCRD, Typed, TodoOfPlan
      <4>2. newPodMove(pl) \in PodMoveOf(s)
        BY <4>1 DEF newPodMove, PodMoveOf, MovesFor
      <4> QED
        BY <3>2, <4>2 DEF createPodMoveCRD
    <3>3. CASE moves' = moves
      BY <1>1, <3>3
    <3>4. CASE moves' # moves
      BY <1>2, <3>1, <3>2, <3>4
      DEF choosePlan, createConsolidationPlan, finishApply, killPlanner
    <3> QED
      BY <3>3, <3>4
  <2>2. CASE ClusterStep
    <3>1. PICK s \in Sources :
            collectGarbage(s) \/ evictSource(s) \/ createReplacement(s) \/ endMove(s)
      BY <2>2 DEF ClusterStep
    <3>2. CASE collectGarbage(s)
      BY <1>2, <3>2 DEF collectGarbage, PodMoveOf
    <3>3. CASE evictSource(s)
      BY <1>1, <3>3 DEF evictSource, planVars
    <3>4. CASE createReplacement(s)
      <4>1. /\ moves[s] # NoMove
            /\ moves' = [moves EXCEPT ![s] = [moves[s] EXCEPT !.replaced = TRUE]]
        BY <3>4 DEF createReplacement
      <4>2. [moves[s] EXCEPT !.replaced = TRUE] \in PodMoveOf(s)
        BY <1>1, <4>1 DEF PodMoveOf
      <4> QED
        BY <1>2, <4>1, <4>2
    <3>5. CASE endMove(s)
      <4>1. /\ moves[s] # NoMove
            /\ moves' = [moves EXCEPT ![s] = [moves[s] EXCEPT !.ended = TRUE]]
        BY <3>5 DEF endMove
      <4>2. [moves[s] EXCEPT !.ended = TRUE] \in PodMoveOf(s)
        BY <1>1, <4>1 DEF PodMoveOf
      <4> QED
        BY <1>2, <4>1, <4>2
    <3> QED
      BY <3>1, <3>2, <3>3, <3>4, <3>5
  <2> QED
    BY <2>1, <2>2
<1>3. x \in MoveState
  BY MoveTypes
<1> QED
  BY <1>1, <1>2, <1>3

LEMMA NewPodTypes ==
  ASSUME NEW node \in Nodes \cup {None}, NEW labelled \in BOOLEAN, NEW newer \in SUBSET Plans
  PROVE  NewPod(node, labelled, newer) \in PodState
  BY DEF NewPod, PodState

\* A replacement goes to the node that its plan chose.
LEMMA ReplacementIsTyped ==
  ASSUME Typed, NEW s \in Sources, createReplacement(s)
  PROVE  \E p \in NewPods, n \in Nodes, newer \in SUBSET made :
           pods' = [pods EXCEPT ![p] = NewPod(n, TRUE, newer)]
<1>1. moves[s] \in PodMoveOf(s) /\ moves[s] # NoMove
  BY DEF Typed, MovesKnown, createReplacement
<1>2. moves[s].plan \in Plans
  BY <1>1 DEF PodMoveOf, MovesFor
<1>3. TargetNode[moves[s].plan][s] \in Nodes
  BY <1>2, PlansAssumption
<1> QED
  BY <1>3 DEF createReplacement

LEMMA PodsTyped ==
  ASSUME Typed, ClusterStep \/ ArrivalStep
  PROVE  pods' \in [Pods -> PodState]
<1>1. pods \in [Pods -> PodState] /\ made \subseteq Plans
  BY DEF Typed, PlanTypeOK, PlansTypeOK
<1>2. SUFFICES ASSUME NEW p \in Pods, NEW x \in PodState, pods' = [pods EXCEPT ![p] = x]
               PROVE  pods' \in [Pods -> PodState]
  <2>1. CASE ClusterStep
    <3>1. PICK s \in Sources :
            collectGarbage(s) \/ evictSource(s) \/ createReplacement(s) \/ endMove(s)
      BY <2>1 DEF ClusterStep
    <3>2. CASE collectGarbage(s) \/ endMove(s)
      BY <1>1, <3>2 DEF collectGarbage, endMove
    <3>3. CASE evictSource(s)
      <4>1. NoPod \in PodState
        BY DEF NoPod, PodState
      <4> QED
        BY <1>2, <3>3, <4>1 DEF evictSource, Pods
    <3>4. CASE createReplacement(s)
      BY <1>1, <1>2, <3>4, ReplacementIsTyped, NewPodTypes DEF Pods
    <3> QED
      BY <3>1, <3>2, <3>3, <3>4
  <2>2. CASE ArrivalStep
    <3>1. PICK p \in NewPods, n \in Nodes \cup {None} : createPod(p, n) \/ bindPod(p, n)
      BY <2>2 DEF ArrivalStep
    <3>2. p \in Pods /\ pods[p] \in PodState
      BY <1>1 DEF Pods
    <3>3. CASE createPod(p, n)
      <4>1. PICK newer \in SUBSET made : pods' = [pods EXCEPT ![p] = NewPod(n, FALSE, newer)]
        BY <3>3 DEF createPod
      <4> QED
        BY <1>1, <1>2, <3>2, <4>1, NewPodTypes
    <3>4. CASE bindPod(p, n)
      <4>1. [pods[p] EXCEPT !.node = n] \in PodState
        BY <3>2 DEF PodState
      <4>2. pods' = [pods EXCEPT ![p] = [pods[p] EXCEPT !.node = n]]
        BY <3>4 DEF bindPod
      <4> QED
        BY <1>2, <3>2, <4>1, <4>2
    <3> QED
      BY <3>1, <3>3, <3>4
  <2> QED
    BY <2>1, <2>2
<1> QED
  BY <1>1, <1>2

LEMMA TypedPlannerStep ==
  ASSUME Typed, PlannerStep, UNCHANGED <<recVars, hit>>
  PROVE  Typed'
<1>1. /\ planner' \in [Plans -> RunState] /\ TodoOfPlan'
      /\ moves' \in [Sources -> MoveState] /\ \A s \in Sources : moves'[s] \in PodMoveOf(s)
  BY RunsTyped, MovesTyped
<1>2. PICK pl \in Plans : \/ choosePlan(pl) \/ createConsolidationPlan(pl)
                          \/ \E s \in Sources : createPodMoveCRD(pl, s)
                          \/ finishApply(pl) \/ killPlanner(pl)
  BY DEF PlannerStep
<1>3. /\ plans \subseteq made /\ made \subseteq Plans /\ planCache \subseteq made
      /\ ordered \in [Sources -> SUBSET Plans] /\ errors \in 0..MaxErrors /\ MaxErrors \in Nat
  BY PlansAssumption DEF Typed, PlanTypeOK, PlansTypeOK
<1>4. plans' \subseteq made' /\ made' \subseteq Plans /\ made \subseteq made'
  BY <1>2, <1>3
  DEF choosePlan, createConsolidationPlan, createPodMoveCRD, finishApply, killPlanner
<1>5. errors' \in 0..MaxErrors
  <2>1. CASE errors' = errors
    BY <1>3, <2>1
  <2>2. CASE mayFail
    BY <1>3, <2>2 DEF mayFail
  <2> QED
    BY <1>2, <2>1, <2>2
    DEF choosePlan, createConsolidationPlan, createPodMoveCRD, finishApply, killPlanner
<1>6. ordered' \in [Sources -> SUBSET Plans]
  <2>1. CASE ordered' = ordered
    BY <1>3, <2>1
  <2>2. CASE \E s \in Sources : ordered' = [ordered EXCEPT ![s] = @ \cup {pl}]
    BY <1>3, <2>2
  <2> QED
    BY <1>2, <2>1, <2>2
    DEF choosePlan, createConsolidationPlan, createPodMoveCRD, finishApply, killPlanner
<1>7. pods' = pods
  BY <1>2
  DEF choosePlan, createConsolidationPlan, createPodMoveCRD, finishApply, killPlanner
<1>8. PlansTypeOK'
  BY <1>1, <1>4, <1>5, <1>6, <1>7 DEF Typed, PlanTypeOK, PlansTypeOK
<1>9. PlanTypeOK'
  BY <1>3, <1>4, <1>8 DEF Typed, PlanTypeOK, recVars
<1>10. MovesKnown'
  BY <1>1 DEF Typed, MovesKnown, recVars
<1> QED
  BY <1>1, <1>9, <1>10 DEF Typed

LEMMA TypedClusterStep ==
  ASSUME Typed, ClusterStep, UNCHANGED <<recVars, hit>>
  PROVE  Typed'
<1>1. /\ moves' \in [Sources -> MoveState] /\ \A s \in Sources : moves'[s] \in PodMoveOf(s)
      /\ pods' \in [Pods -> PodState]
  BY MovesTyped, PodsTyped
<1>2. UNCHANGED <<planner, plans, made, ordered, errors>>
  BY DEF ClusterStep, collectGarbage, evictSource, createReplacement, endMove, planVars
<1>3. PlansTypeOK'
  BY <1>1, <1>2 DEF Typed, PlanTypeOK, PlansTypeOK
<1>4. PlanTypeOK'
  BY <1>2, <1>3 DEF Typed, PlanTypeOK, recVars
<1>5. MovesKnown' /\ TodoOfPlan'
  BY <1>1, <1>2 DEF Typed, MovesKnown, TodoOfPlan, recVars
<1> QED
  BY <1>4, <1>5 DEF Typed

LEMMA TypedArrivalStep ==
  ASSUME Typed, ArrivalStep, UNCHANGED recVars
  PROVE  Typed'
<1>1. pods' \in [Pods -> PodState]
  BY PodsTyped
<1>2. UNCHANGED <<planVars, errors>> /\ hit' \subseteq Nodes
  BY DEF ArrivalStep, createPod, bindPod, Typed, PlanTypeOK
<1>3. PlansTypeOK'
  BY <1>1, <1>2 DEF Typed, PlanTypeOK, PlansTypeOK, planVars
<1>4. PlanTypeOK'
  BY <1>2, <1>3 DEF Typed, PlanTypeOK, recVars, planVars
<1>5. MovesKnown' /\ TodoOfPlan'
  BY <1>2 DEF Typed, MovesKnown, TodoOfPlan, recVars, planVars
<1> QED
  BY <1>4, <1>5 DEF Typed

\* The event of a bound pod names a node.
LEMMA BoundIsOnNode ==
  ASSUME NEW old, NEW new \in PodState, podBoundPredicate(old, new)
  PROVE  new.node \in Nodes
  BY DEF podBoundPredicate, PodState

\* The plans a bound pod is taken to: it is on a node to free, or on the source or
\* target of one of the plan's moves.
LEMMA MappedPlans ==
  ASSUME Typed, NEW n \in Nodes, mapBoundPodToPlans(n)
  PROVE  \A pl \in queue' \ queue : pl \in planCache /\ n \in nodesOf(pl)
<1> DEFINE freeing == {pl \in planCache : classifyBoundPod(pl, n) = "nodesToFree"}
           involved == {pl \in planCache : classifyBoundPod(pl, n) = "involved"}
<1>1. queue' \subseteq queue \cup freeing \cup involved
  BY DEF mapBoundPodToPlans
<1>2. ASSUME NEW pl \in involved PROVE n \in nodesOf(pl)
  <2>1. PICK s \in Sources : moveCache[s].owner = pl /\ n \in {SourceNode[s], TargetNode[pl][s]}
    BY DEF classifyBoundPod, involvedNodes, listPlanPodMoves
  <2>2. moveCache[s] \in PodMoveOf(s) /\ pl \in Plans
    BY DEF Typed, MovesKnown, PlanTypeOK, PlansTypeOK
  <2>3. s \in MovesOf[pl]
    BY <2>1, <2>2, PlansAssumption DEF PodMoveOf, NoMove, MovesFor
  <2> QED
    BY <2>1, <2>3 DEF nodesOf
<1>3. ASSUME NEW pl \in freeing PROVE n \in nodesOf(pl)
  BY DEF classifyBoundPod, nodesOf
<1> QED
  BY <1>1, <1>2, <1>3

LEMMA TypedReconcilerStep ==
  ASSUME Typed, ReconcilerStep
  PROVE  Typed'
<1>1. /\ plans \subseteq made /\ made \subseteq Plans /\ planCache \subseteq made
      /\ queue \subseteq Plans /\ events \subseteq Nodes
      /\ pods \in [Pods -> PodState] /\ podCache \in [Pods -> PodState]
      /\ moves \in [Sources -> MoveState] /\ moveCache \in [Sources -> MoveState]
      /\ errors \in 0..MaxErrors /\ MaxErrors \in Nat
      /\ restarts \in 0..MaxRestarts /\ MaxRestarts \in Nat
      /\ listErrors \in 0..MaxListErrors /\ MaxListErrors \in Nat
      /\ unlisted \subseteq Nodes /\ hit \subseteq Nodes
  BY PlansAssumption, ReconcilerAssumption DEF Typed, PlanTypeOK, PlansTypeOK
<1>2. UNCHANGED <<planner, made, moves, ordered, pods, hit>>
  BY DEF ReconcilerStep, SyncPlans, SyncMoves, SyncPod, mapBoundPodToPlans, Reconcile,
         Restart, planVars
<1>3. plans' \subseteq made' /\ planCache' \subseteq made' /\ queue' \subseteq Plans
  <2>1. ASSUME NEW n \in Nodes, mapBoundPodToPlans(n)
        PROVE  UNCHANGED <<plans, planCache>> /\ queue' \subseteq Plans
    BY <1>1, <2>1, MappedPlans DEF mapBoundPodToPlans, planVars
  <2>2. ASSUME NEW pl \in Plans, Reconcile(pl)
        PROVE  planCache' = planCache /\ plans' \subseteq plans /\ queue' \subseteq queue
    BY <2>2 DEF Reconcile
  <2> QED
    BY <1>1, <1>2, <2>1, <2>2 DEF ReconcilerStep, SyncPlans, SyncMoves, SyncPod, Restart, planVars
<1>4. errors' \in 0..MaxErrors
  <2>1. CASE errors' = errors
    BY <1>1, <2>1
  <2>2. CASE mayFail
    BY <1>1, <2>2 DEF mayFail
  <2> QED
    BY <2>1, <2>2
    DEF ReconcilerStep, SyncPlans, SyncMoves, SyncPod, mapBoundPodToPlans, Reconcile, Restart
<1>5. restarts' \in 0..MaxRestarts /\ listErrors' \in 0..MaxListErrors
  <2>1. restarts' = restarts \/ (restarts < MaxRestarts /\ restarts' = restarts + 1)
    BY DEF ReconcilerStep, SyncPlans, SyncMoves, SyncPod, mapBoundPodToPlans, Reconcile, Restart
  <2>2. \/ listErrors' = listErrors
        \/ listErrors < MaxListErrors /\ listErrors' = listErrors + 1
    BY DEF ReconcilerStep, SyncPlans, SyncMoves, SyncPod, mapBoundPodToPlans, Reconcile, Restart
  <2> QED
    BY <1>1, <2>1, <2>2
<1>6. moveCache' \in {moveCache, moves}
  BY DEF ReconcilerStep, SyncPlans, SyncMoves, SyncPod, mapBoundPodToPlans, Reconcile, Restart
<1>7. podCache' \in [Pods -> PodState]
  <2>1. ASSUME NEW p \in Pods, SyncPod(p) PROVE podCache' \in [Pods -> PodState]
    BY <1>1, <2>1 DEF SyncPod
  <2> QED
    BY <1>1, <2>1
    DEF ReconcilerStep, SyncPlans, SyncMoves, mapBoundPodToPlans, Reconcile, Restart
<1>8. events' \subseteq Nodes
  <2>1. ASSUME NEW p \in Pods, SyncPod(p) PROVE events' \subseteq Nodes
    BY <1>1, <2>1, BoundIsOnNode DEF SyncPod
  <2>2. CASE Restart
    BY <1>1, <2>2, BoundIsOnNode DEF Restart
  <2> QED
    BY <1>1, <2>1, <2>2 DEF ReconcilerStep, SyncPlans, SyncMoves, mapBoundPodToPlans, Reconcile
<1>9. unlisted' \subseteq Nodes
  <2>1. \/ unlisted' = unlisted
        \/ \E n \in Nodes : unlisted' = unlisted \cup {n}
    BY DEF ReconcilerStep, SyncPlans, SyncMoves, SyncPod, mapBoundPodToPlans, Reconcile, Restart
  <2> QED
    BY <1>1, <2>1
<1>10. PlansTypeOK'
  BY <1>2, <1>3, <1>4 DEF Typed, PlanTypeOK, PlansTypeOK
<1>11. PlanTypeOK'
  BY <1>1, <1>2, <1>3, <1>5, <1>6, <1>7, <1>8, <1>9, <1>10 DEF PlanTypeOK
<1>12. MovesKnown' /\ TodoOfPlan'
  BY <1>2, <1>6 DEF Typed, MovesKnown, TodoOfPlan
<1> QED
  BY <1>11, <1>12 DEF Typed

LEMMA TypedStep == Typed /\ [Next]_vars => Typed'
<1> SUFFICES ASSUME Typed, [Next]_vars PROVE Typed'
  OBVIOUS
<1>1. CASE UNCHANGED vars
  BY <1>1 DEF vars, planVars, recVars, Typed, PlanTypeOK, PlansTypeOK, MovesKnown, TodoOfPlan
<1> QED
  BY <1>1, TypedPlannerStep, TypedClusterStep, TypedArrivalStep, TypedReconcilerStep DEF Next

\* The types of the plans, PodMoves, pods, caches and queue.
THEOREM PlanTypes == Spec => []PlanTypeOK
<1>1. Spec => []Typed
  BY TypedInit, TypedStep, PTL DEF Spec
<1>2. Typed => PlanTypeOK
  BY DEF Typed
<1> QED
  BY <1>1, <1>2, PTL

-----------------------------------------------------------------------------
(***************************************************************************)
(* Plans that are left alone.  A plan is deleted from the queue, it gets   *)
(* there by an event, and until the evictor restarts an event is that of a *)
(* pod that was bound where hit says: a pod that may be moved is seen      *)
(* bound from the start and can only go.                                   *)
(***************************************************************************)
ArrivalsHit ==
  \A p \in NewPods :
    pods[p].exists /\ ~pods[p].labelled /\ pods[p].node # None => pods[p].node \in hit

InitialPod(s) == NewPod(SourceNode[s], FALSE, {})

SourcesStay ==
  \A s \in Sources : /\ pods[s] \in {NoPod, InitialPod(s)}
                     /\ podCache[s] \in {NoPod, InitialPod(s)}
                     /\ podCache[s] = NoPod => pods[s] = NoPod

EventsHit == restarts = 0 => events \subseteq hit
QueueHit == restarts = 0 => \A pl \in queue : nodesOf(pl) \cap hit # {}

LiveInv == Typed /\ ArrivalsHit /\ SourcesStay /\ EventsHit /\ QueueHit /\ UndisturbedPlansLive

LEMMA LiveInit == Init => LiveInv
<1> SUFFICES ASSUME Init PROVE LiveInv
  OBVIOUS
<1>1. Typed
  BY TypedInit
<1>2. ArrivalsHit
  BY PlansAssumption DEF Init, PlansInit, ArrivalsHit, NoPod, Pods
<1>3. SourcesStay
  BY DEF Init, PlansInit, SourcesStay, InitialPod, Pods
<1>4. EventsHit /\ QueueHit /\ UndisturbedPlansLive
  BY DEF Init, PlansInit, EventsHit, QueueHit, UndisturbedPlansLive
<1> QED
  BY <1>1, <1>2, <1>3, <1>4 DEF LiveInv

\* Nothing but the reconciler takes plans away.
LEMMA OthersKeepPlans ==
  ASSUME Typed, PlannerStep \/ ClusterStep \/ ArrivalStep
  PROVE  made' \ plans' \subseteq made \ plans
<1>1. CASE PlannerStep
  BY <1>1 DEF PlannerStep, choosePlan, createConsolidationPlan, createPodMoveCRD,
              finishApply, killPlanner
<1>2. CASE ClusterStep
  BY <1>2 DEF ClusterStep, collectGarbage, evictSource, createReplacement, endMove, planVars
<1>3. CASE ArrivalStep
  BY <1>3 DEF ArrivalStep, createPod, bindPod, planVars
<1> QED
  BY <1>1, <1>2, <1>3

LEMMA LivePlannerOrClusterStep ==
  ASSUME LiveInv, PlannerStep \/ ClusterStep, UNCHANGED <<recVars, hit>>
  PROVE  ArrivalsHit' /\ SourcesStay' /\ EventsHit' /\ QueueHit' /\ UndisturbedPlansLive'
<1> USE DEF LiveInv
<1>1. EventsHit' /\ QueueHit'
  BY DEF EventsHit, QueueHit, recVars, nodesOf
<1>2. UndisturbedPlansLive'
  BY OthersKeepPlans DEF UndisturbedPlansLive, recVars, nodesOf
<1>3. pods \in [Pods -> PodState]
  BY DEF Typed, PlanTypeOK, PlansTypeOK
<1>4. CASE pods' = pods
  BY <1>1, <1>2, <1>4 DEF ArrivalsHit, SourcesStay, recVars
<1>5. ASSUME NEW s \in Sources, evictSource(s) PROVE ArrivalsHit' /\ SourcesStay'
  <2>1. pods' = [pods EXCEPT ![s] = NoPod]
    BY <1>5 DEF evictSource
  <2>2. ArrivalsHit'
    BY <1>3, <2>1, PlansAssumption DEF ArrivalsHit, Pods
  <2>3. SourcesStay'
    BY <1>3, <2>1 DEF SourcesStay, Pods, recVars
  <2> QED
    BY <2>2, <2>3
<1>6. ASSUME NEW s \in Sources, createReplacement(s) PROVE ArrivalsHit' /\ SourcesStay'
  <2>1. PICK p \in NewPods, n \in Nodes, newer \in SUBSET made :
          pods' = [pods EXCEPT ![p] = NewPod(n, TRUE, newer)]
    BY <1>6, ReplacementIsTyped
  <2>2. NewPod(n, TRUE, newer).labelled
    BY DEF NewPod
  <2>3. ArrivalsHit'
    BY <1>3, <2>1, <2>2 DEF ArrivalsHit, Pods
  <2>4. SourcesStay'
    BY <1>3, <2>1, PlansAssumption DEF SourcesStay, Pods, recVars
  <2> QED
    BY <2>3, <2>4
<1>7. \/ pods' = pods
      \/ \E s \in Sources : evictSource(s) \/ createReplacement(s)
  BY DEF PlannerStep, choosePlan, createConsolidationPlan, createPodMoveCRD, finishApply,
         killPlanner, ClusterStep, collectGarbage, endMove
<1> QED
  BY <1>1, <1>2, <1>4, <1>5, <1>6, <1>7

LEMMA LiveArrivalStep ==
  ASSUME LiveInv, ArrivalStep, UNCHANGED recVars
  PROVE  ArrivalsHit' /\ SourcesStay' /\ EventsHit' /\ QueueHit' /\ UndisturbedPlansLive'
<1> USE DEF LiveInv
<1>1. pods \in [Pods -> PodState]
  BY DEF Typed, PlanTypeOK, PlansTypeOK
<1>2. PICK p \in NewPods, n \in Nodes \cup {None} :
        /\ createPod(p, n) \/ bindPod(p, n)
        /\ hit \subseteq hit' /\ (n # None => n \in hit')
  BY PlansAssumption DEF ArrivalStep
<1>3. EventsHit' /\ QueueHit'
  BY <1>2 DEF EventsHit, QueueHit, recVars, nodesOf
<1>4. UndisturbedPlansLive'
  BY <1>2, OthersKeepPlans DEF UndisturbedPlansLive, recVars, nodesOf
<1>5. PICK x : pods' = [pods EXCEPT ![p] = x] /\ x.node = n
  <2>1. CASE createPod(p, n)
    <3>1. PICK newer \in SUBSET made : pods' = [pods EXCEPT ![p] = NewPod(n, FALSE, newer)]
      BY <2>1 DEF createPod
    <3>2. NewPod(n, FALSE, newer).node = n
      BY DEF NewPod
    <3> QED
      BY <3>1, <3>2
  <2>2. CASE bindPod(p, n)
    <3>1. pods' = [pods EXCEPT ![p] = [pods[p] EXCEPT !.node = n]]
      BY <2>2 DEF bindPod
    <3>2. [pods[p] EXCEPT !.node = n].node = n
      BY <1>1 DEF Pods, PodState
    <3> QED
      BY <3>1, <3>2
  <2> QED
    BY <1>2, <2>1, <2>2
<1>6. ArrivalsHit'
  BY <1>1, <1>2, <1>5 DEF ArrivalsHit, Pods
<1>7. SourcesStay'
  BY <1>1, <1>5, PlansAssumption DEF SourcesStay, Pods, recVars
<1> QED
  BY <1>3, <1>4, <1>6, <1>7

\* Before a restart, the event of a pod is that of a pod that was bound.
LEMMA EventIsHit ==
  ASSUME LiveInv, NEW p \in Pods, podBoundPredicate(podCache[p], pods[p])
  PROVE  pods[p].node \in hit
<1>1. CASE p \in NewPods
  BY <1>1 DEF LiveInv, ArrivalsHit, podBoundPredicate, isReplacementPod
<1>2. CASE p \in Sources
  <2>1. pods[p] # NoPod
    BY DEF podBoundPredicate, NoPod
  <2>2. podCache[p] = InitialPod(p)
    BY <1>2, <2>1 DEF LiveInv, SourcesStay
  <2>3. podCache[p].node # None
    BY <1>2, <2>2, PlansAssumption DEF InitialPod, NewPod
  <2> QED
    BY <2>3 DEF podBoundPredicate
<1> QED
  BY <1>1, <1>2 DEF Pods

LEMMA LiveReconcilerStep ==
  ASSUME LiveInv, ReconcilerStep
  PROVE  ArrivalsHit' /\ SourcesStay' /\ EventsHit' /\ QueueHit' /\ UndisturbedPlansLive'
<1> USE DEF LiveInv
<1>1. UNCHANGED <<made, pods, hit>>
  BY DEF ReconcilerStep, SyncPlans, SyncMoves, SyncPod, mapBoundPodToPlans, Reconcile,
         Restart, planVars
<1>2. ArrivalsHit'
  BY <1>1 DEF ArrivalsHit
<1>3. restarts \in Nat
  BY ReconcilerAssumption DEF Typed, PlanTypeOK
<1>4. ASSUME NEW p \in Pods, SyncPod(p) 
      PROVE  SourcesStay' /\ EventsHit' /\ QueueHit' /\ UndisturbedPlansLive'
  <2>1. podCache \in [Pods -> PodState] /\ podCache' = [podCache EXCEPT ![p] = pods[p]]
    BY <1>4 DEF SyncPod, Typed, PlanTypeOK
  <2>2. SourcesStay'
    BY <1>1, <2>1 DEF SourcesStay, Pods
  <2>3. events' \subseteq events \cup hit /\ (restarts' = 0 => events' \subseteq hit)
    BY <1>4, EventIsHit DEF SyncPod, EventsHit
  <2>4. EventsHit'
    BY <1>1, <2>3 DEF EventsHit
  <2>5. QueueHit' /\ UndisturbedPlansLive'
    BY <1>4 DEF SyncPod, QueueHit, UndisturbedPlansLive, planVars, nodesOf
  <2> QED
    BY <2>2, <2>4, <2>5
<1>5. ASSUME NEW n \in Nodes, mapBoundPodToPlans(n)
      PROVE  SourcesStay' /\ EventsHit' /\ QueueHit' /\ UndisturbedPlansLive'
  <2>1. n \in events /\ events' \subseteq events
        /\ UNCHANGED <<plans, made, pods, podCache, restarts, hit>>
    BY <1>5 DEF mapBoundPodToPlans, planVars
  <2>2. \A pl \in queue' \ queue : n \in nodesOf(pl)
    BY <1>5, MappedPlans
  <2>3. QueueHit'
    BY <2>1, <2>2 DEF QueueHit, EventsHit, nodesOf
  <2>4. SourcesStay' /\ EventsHit' /\ UndisturbedPlansLive'
    BY <2>1 DEF SourcesStay, EventsHit, UndisturbedPlansLive, nodesOf
  <2> QED
    BY <2>3, <2>4
<1>6. ASSUME NEW pl \in Plans, Reconcile(pl)
      PROVE  SourcesStay' /\ EventsHit' /\ QueueHit' /\ UndisturbedPlansLive'
  <2>1. /\ pl \in queue /\ queue' \subseteq queue /\ plans \ {pl} \subseteq plans'
        /\ UNCHANGED <<made, pods, podCache, events, restarts, hit>>
    BY <1>6 DEF Reconcile
  <2>2. QueueHit'
    BY <2>1 DEF QueueHit, nodesOf
  <2>3. UndisturbedPlansLive'
    <3>1. ASSUME NEW q \in made' \ plans' PROVE nodesOf(q) \cap hit # {} \/ restarts > 0
      <4>1. CASE q = pl
        BY <1>3, <2>1, <4>1 DEF QueueHit
      <4>2. CASE q # pl
        BY <2>1, <4>2, <3>1 DEF UndisturbedPlansLive
      <4> QED
        BY <4>1, <4>2
    <3> QED
      BY <2>1, <3>1 DEF UndisturbedPlansLive, nodesOf
  <2>4. SourcesStay' /\ EventsHit'
    BY <2>1 DEF SourcesStay, EventsHit
  <2> QED
    BY <2>2, <2>3, <2>4
<1>7. CASE Restart
  <2>1. restarts' > 0 /\ podCache' = pods' /\ pods' = pods
    BY <1>1, <1>3, <1>7 DEF Restart
  <2>2. SourcesStay'
    BY <2>1 DEF SourcesStay
  <2> QED
    BY <1>2, <1>3, <2>1, <2>2 DEF EventsHit, QueueHit, UndisturbedPlansLive
<1>8. CASE SyncPlans \/ SyncMoves
  <2>1. UNCHANGED <<pods, podCache, events, queue, restarts, hit, made, plans>>
    BY <1>8 DEF SyncPlans, SyncMoves, planVars
  <2>2. SourcesStay' /\ EventsHit'
    BY <2>1 DEF SourcesStay, EventsHit
  <2>3. QueueHit' /\ UndisturbedPlansLive'
    BY <2>1 DEF QueueHit, UndisturbedPlansLive, nodesOf
  <2> QED
    BY <1>2, <2>2, <2>3
<1> QED
  BY <1>2, <1>4, <1>5, <1>6, <1>7, <1>8 DEF ReconcilerStep

LEMMA LiveStep == LiveInv /\ [Next]_vars => LiveInv'
<1> SUFFICES ASSUME LiveInv, [Next]_vars PROVE LiveInv'
  OBVIOUS
<1>1. Typed'
  BY TypedStep DEF LiveInv
<1>2. ArrivalsHit' /\ SourcesStay' /\ EventsHit' /\ QueueHit' /\ UndisturbedPlansLive'
  <2>1. CASE UNCHANGED vars
    <3>1. UNCHANGED <<pods, podCache, events, queue, restarts, hit, made, plans>>
      BY <2>1 DEF vars, planVars, recVars
    <3>2. ArrivalsHit' /\ SourcesStay' /\ EventsHit'
      BY <3>1 DEF LiveInv, ArrivalsHit, SourcesStay, EventsHit
    <3>3. QueueHit' /\ UndisturbedPlansLive'
      BY <3>1 DEF LiveInv, QueueHit, UndisturbedPlansLive, nodesOf
    <3> QED
      BY <3>2, <3>3
  <2>2. CASE (PlannerStep \/ ClusterStep) /\ UNCHANGED <<recVars, hit>>
    BY <2>2, LivePlannerOrClusterStep
  <2>3. CASE ArrivalStep /\ UNCHANGED recVars
    BY <2>3, LiveArrivalStep
  <2>4. CASE ReconcilerStep
    BY <2>4, LiveReconcilerStep
  <2> QED
    BY <2>1, <2>2, <2>3, <2>4 DEF Next
<1> QED
  BY <1>1, <1>2 DEF LiveInv

\* Neither the replacements of any plan's moves, nor pods on other nodes, nor
\* delayed caches, lost events and failed calls make the reconciler cancel a plan.
THEOREM UndisturbedLive == Spec => []UndisturbedPlansLive
<1>1. Spec => []LiveInv
  BY LiveInit, LiveStep, PTL DEF Spec
<1>2. LiveInv => UndisturbedPlansLive
  BY DEF LiveInv
<1> QED
  BY <1>1, <1>2, PTL

-----------------------------------------------------------------------------
(***************************************************************************)
(* Plans that are reported as applied.  A pod that is no longer in todo    *)
(* has had a PodMove, unless its creation failed, which failed remembers.  *)
(***************************************************************************)
HadMove(s) == ordered[s] # {}

MovesWereOrdered == \A s \in Sources : moves[s] # NoMove => HadMove(s)

Ordered(pl) ==
  /\ planner[pl].pc = "apply" /\ ~planner[pl].failed =>
       \A s \in MovesOf[pl] \ planner[pl].todo : HadMove(s)
  /\ planner[pl].outcome = "applied" => \A s \in MovesOf[pl] : HadMove(s)

ApplyInv == Typed /\ MovesWereOrdered /\ \A pl \in Plans : Ordered(pl)

LEMMA ApplyInit == Init => ApplyInv
<1> SUFFICES ASSUME Init PROVE ApplyInv
  OBVIOUS
<1>1. MovesWereOrdered
  BY DEF Init, PlansInit, MovesWereOrdered
<1>2. \A pl \in Plans : Ordered(pl)
  BY PlansAssumption DEF Init, PlansInit, Ordered
<1> QED
  BY <1>1, <1>2, TypedInit DEF ApplyInv

\* PodMoves that were ever created stay in the history.
LEMMA HistoryGrows ==
  ASSUME Typed, [Next]_vars, NEW s \in Sources, HadMove(s)
  PROVE  HadMove(s)'
<1>1. ordered \in [Sources -> SUBSET Plans]
  BY DEF Typed, PlanTypeOK, PlansTypeOK
<1>2. ASSUME NEW pl \in Plans, NEW t \in Sources, createPodMoveCRD(pl, t) PROVE HadMove(s)'
  BY <1>1, <1>2 DEF createPodMoveCRD, HadMove
<1>3. CASE ordered' = ordered
  BY <1>3 DEF HadMove
<1>4. \/ ordered' = ordered
      \/ \E pl \in Plans, t \in Sources : createPodMoveCRD(pl, t)
  <2>1. CASE PlannerStep
    BY <2>1 DEF PlannerStep, choosePlan, createConsolidationPlan, finishApply, killPlanner
  <2>2. CASE ClusterStep \/ ArrivalStep
    BY <2>2 DEF ClusterStep, collectGarbage, evictSource, createReplacement, endMove,
                ArrivalStep, createPod, bindPod, planVars
  <2>3. CASE ReconcilerStep
    BY <2>3 DEF ReconcilerStep, SyncPlans, SyncMoves, SyncPod, mapBoundPodToPlans, Reconcile,
                Restart, planVars
  <2>4. CASE UNCHANGED vars
    BY <2>4 DEF vars, planVars
  <2> QED
    BY <2>1, <2>2, <2>3, <2>4 DEF Next
<1> QED
  BY <1>2, <1>3, <1>4

\* A run keeps its promise when it does not change.
LEMMA OrderedKept ==
  ASSUME Typed, [Next]_vars, NEW pl \in Plans, Ordered(pl), planner'[pl] = planner[pl]
  PROVE  Ordered(pl)'
<1>1. \A s \in MovesOf[pl] : HadMove(s) => HadMove(s)'
  BY HistoryGrows, PlansAssumption
<1> QED
  BY <1>1 DEF Ordered

\* The steps of one run, and what has become of its promise.
LEMMA OrderedStep ==
  ASSUME ApplyInv, [Next]_vars, NEW pl \in Plans,
         \/ choosePlan(pl) \/ createConsolidationPlan(pl)
         \/ \E s \in Sources : createPodMoveCRD(pl, s)
         \/ finishApply(pl) \/ killPlanner(pl)
  PROVE  Ordered(pl)'
<1> DEFINE run == planner[pl]
<1>1. /\ planner \in [Plans -> RunState] /\ run \in RunState
      /\ MovesOf[pl] \subseteq Sources /\ Ordered(pl) /\ Typed
  BY PlansAssumption DEF ApplyInv, Typed, PlanTypeOK, PlansTypeOK
<1>2. \A s \in Sources : HadMove(s) => HadMove(s)'
  BY <1>1, HistoryGrows
<1>3. CASE choosePlan(pl)
  <2>1. planner'[pl].pc = "chosen" /\ planner'[pl].outcome = run.outcome
    BY <1>1, <1>3 DEF choosePlan, RunState
  <2> QED
    BY <1>1, <1>2, <2>1 DEF Ordered
<1>4. CASE createConsolidationPlan(pl)
  <2>1. \/ /\ planner'[pl].todo = MovesOf[pl] /\ planner'[pl].outcome = run.outcome
        \/ planner'[pl].pc = "done" /\ planner'[pl].outcome = "apply-failed"
    BY <1>1, <1>4 DEF createConsolidationPlan, RunState
  <2> QED
    BY <1>1, <1>2, <2>1 DEF Ordered
<1>5. ASSUME NEW s \in Sources, createPodMoveCRD(pl, s) PROVE Ordered(pl)'
  <2>1. /\ planner'[pl].todo = run.todo \ {s} /\ run.pc = "apply"
        /\ planner'[pl].outcome = run.outcome
        /\ \/ planner'[pl].failed = TRUE
           \/ planner'[pl].failed = run.failed /\ (moves[s] = NoMove => ordered' = [ordered EXCEPT ![s] = @ \cup {pl}])
    BY <1>1, <1>5 DEF createPodMoveCRD, RunState
  <2>2. planner'[pl].failed \/ HadMove(s)'
    <3>1. CASE moves[s] # NoMove
      BY <1>2, <3>1 DEF ApplyInv, MovesWereOrdered
    <3>2. CASE moves[s] = NoMove
      BY <2>1, <3>2 DEF HadMove, ApplyInv, Typed, PlanTypeOK, PlansTypeOK
    <3> QED
      BY <3>1, <3>2
  <2> QED
    BY <1>1, <1>2, <2>1, <2>2 DEF Ordered
<1>6. CASE finishApply(pl)
  <2>1. /\ run.pc = "apply" /\ run.todo = {} /\ planner'[pl].pc = "done"
        /\ planner'[pl].outcome = "applied" => ~run.failed
    BY <1>1, <1>6 DEF finishApply, outcomeOf, RunState
  <2> QED
    BY <1>1, <1>2, <2>1 DEF Ordered
<1>7. CASE killPlanner(pl)
  <2>1. planner'[pl].pc = "killed" /\ planner'[pl].outcome = run.outcome
    BY <1>1, <1>7 DEF killPlanner, RunState
  <2> QED
    BY <1>1, <1>2, <2>1 DEF Ordered
<1> QED
  BY <1>3, <1>4, <1>5, <1>6, <1>7

LEMMA ApplyStep == ApplyInv /\ [Next]_vars => ApplyInv'
<1> SUFFICES ASSUME ApplyInv, [Next]_vars PROVE ApplyInv'
  OBVIOUS
<1>1. Typed /\ Typed' /\ planner \in [Plans -> RunState]
  BY TypedStep DEF ApplyInv, Typed, PlanTypeOK, PlansTypeOK
<1>2. ASSUME NEW s \in Sources, moves'[s] # NoMove PROVE HadMove(s)'
  <2>1. CASE moves[s] # NoMove
    BY <1>1, <2>1, HistoryGrows DEF ApplyInv, MovesWereOrdered
  <2>2. CASE moves[s] = NoMove
    <3>1. moves \in [Sources -> MoveState] /\ ordered \in [Sources -> SUBSET Plans]
      BY <1>1 DEF Typed, PlanTypeOK, PlansTypeOK
    <3>2. PICK pl \in Plans, t \in Sources : createPodMoveCRD(pl, t)
      <4>1. CASE PlannerStep
        BY <1>2, <2>2, <4>1
        DEF PlannerStep, choosePlan, createConsolidationPlan, finishApply, killPlanner
      <4>2. CASE ClusterStep \/ ArrivalStep
        BY <1>2, <2>2, <3>1, <4>2
        DEF ClusterStep, collectGarbage, evictSource, createReplacement, endMove,
            ArrivalStep, createPod, bindPod, planVars
      <4>3. CASE ReconcilerStep \/ UNCHANGED vars
        BY <1>2, <2>2, <4>3
        DEF ReconcilerStep, SyncPlans, SyncMoves, SyncPod, mapBoundPodToPlans, Reconcile,
            Restart, planVars, vars
      <4> QED
        BY <4>1, <4>2, <4>3 DEF Next
    <3>3. moves' # moves
      BY <1>2, <2>2
    <3>4. /\ moves' = [moves EXCEPT ![t] = newPodMove(pl)]
          /\ ordered' = [ordered EXCEPT ![t] = @ \cup {pl}]
      BY <3>2, <3>3 DEF createPodMoveCRD
    <3>5. s = t
      BY <1>2, <2>2, <3>1, <3>4
    <3> QED
      BY <3>1, <3>4, <3>5 DEF HadMove
  <2> QED
    BY <2>1, <2>2
<1>3. ASSUME NEW pl \in Plans PROVE Ordered(pl)'
  <2>1. CASE planner'[pl] = planner[pl]
    BY <1>1, <2>1, OrderedKept DEF ApplyInv
  <2>2. CASE planner'[pl] # planner[pl]
    <3>1. PICK q \in Plans : \/ choosePlan(q) \/ createConsolidationPlan(q)
                             \/ \E s \in Sources : createPodMoveCRD(q, s)
                             \/ finishApply(q) \/ killPlanner(q)
      <4>1. CASE ClusterStep \/ ArrivalStep
        BY <2>2, <4>1
        DEF ClusterStep, collectGarbage, evictSource, createReplacement, endMove,
            ArrivalStep, createPod, bindPod, planVars
      <4>2. CASE ReconcilerStep \/ UNCHANGED vars
        BY <2>2, <4>2
        DEF ReconcilerStep, SyncPlans, SyncMoves, SyncPod, mapBoundPodToPlans, Reconcile,
            Restart, planVars, vars
      <4> QED
        BY <4>1, <4>2 DEF Next, PlannerStep
    <3>2. q # pl => planner'[pl] = planner[pl]
      BY <1>1, <3>1
      DEF choosePlan, createConsolidationPlan, createPodMoveCRD, finishApply, killPlanner
    <3> QED
      BY <2>2, <3>1, <3>2, OrderedStep
  <2> QED
    BY <2>1, <2>2
<1> QED
  BY <1>1, <1>2, <1>3 DEF ApplyInv, MovesWereOrdered

\* Whatever fails in whatever order, and whatever other runs of the planner do
\* meanwhile, a run that reports its plan as applied has not lost one of its moves.
THEOREM AppliedComplete == Spec => []AppliedIsComplete
<1>1. Spec => []ApplyInv
  BY ApplyInit, ApplyStep, PTL DEF Spec
<1>2. ApplyInv => AppliedIsComplete
  BY DEF ApplyInv, Ordered, HadMove, AppliedIsComplete
<1> QED
  BY <1>1, <1>2, PTL
=============================================================================
