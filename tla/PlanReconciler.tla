---------------------------- MODULE PlanReconciler ----------------------------
(***************************************************************************)
(* The ConsolidationPlan reconciler                                        *)
(* (src/src/evictor/internal/controller/consolidationplan_*.go): a plan is *)
(* looked at only when a pod is bound, and it is then cancelled by its     *)
(* deletion.  The reconciler sees the cluster through three informer       *)
(* caches, each behind by its own delay.                                   *)
(***************************************************************************)
EXTENDS ConsolidationPlans

CONSTANTS MaxRestarts,  \* bound: restarts of the evictor
          MaxListErrors \* bound: failed lists while an event is mapped

ASSUME ReconcilerAssumption == MaxRestarts \in Nat /\ MaxListErrors \in Nat

VARIABLES planCache, moveCache, podCache,
          events,     \* nodes of bound pods whose event is not mapped yet
          queue,      \* the work queue
          restarts, listErrors,
          unlisted,   \* history: nodes of bound pods that no plan has heard of, as the
                      \*   plans could not be listed
          hit         \* history: nodes that pods other than replacements were bound to

recVars == <<planCache, moveCache, podCache, events, queue, restarts, listErrors, unlisted>>
vars == <<planVars, pods, errors, recVars, hit>>

Init == /\ PlansInit
        /\ planCache = {} /\ moveCache = moves /\ podCache = pods
        /\ events = {} /\ queue = {}
        /\ restarts = 0 /\ listErrors = 0
        /\ unlisted = {} /\ hit = {}

-----------------------------------------------------------------------------
\* Variant: the label is not looked at.
isReplacementPodUnlabelled(pod) == FALSE

isReplacementPod(pod) == pod.labelled

\* Variant: whether the pod is bound is not asked.
podBoundPredicateUnasked(old, new) ==
  new.exists /\ ~isReplacementPod(new) /\ old.node = None

\* The event that takes a pod from old to new: a Create of a bound pod, or an
\* Update that binds it.
podBoundPredicate(old, new) ==
  new.exists /\ ~isReplacementPod(new) /\ new.node # None /\ old.node = None

listPlanPodMoves(pl) == {s \in Sources : moveCache[s].owner = pl}

involvedNodes(pl) ==
  UNION {{SourceNode[s], TargetNode[pl][s]} :
           s \in {x \in listPlanPodMoves(pl) : ~moveCache[x].ended}}

\* Variant: the involved nodes are looked at first.
classifyBoundPodByMoves(pl, n) == IF n \in involvedNodes(pl) THEN "involved"
                                  ELSE IF n \in NodesToFree[pl] THEN "nodesToFree"
                                  ELSE "irrelevant"

\* What a pod that was bound to n means to the plan (bindImpact).
classifyBoundPod(pl, n) == IF n \in NodesToFree[pl] THEN "nodesToFree"
                           ELSE IF n \in involvedNodes(pl) THEN "involved" ELSE "irrelevant"

\* A pod that has appeared on a node to free since the plan was created.  A pod that
\* is being deleted does not count: exists stands for neither deleted nor being so.
findUnexpectedPodOnNodesToFree(pl) ==
  \E p \in Pods : /\ podCache[p].exists /\ podCache[p].node \in NodesToFree[pl]
                  /\ ~isReplacementPod(podCache[p])
                  /\ pl \in podCache[p].newer

\* Variant: the check that is not implemented answers yes.
remainingMovesFitAlways(pl) == TRUE

remainingMovesFit(pl) == FALSE

-----------------------------------------------------------------------------
SyncPlans == /\ planCache # plans /\ planCache' = plans
             /\ UNCHANGED <<planVars, pods, errors, moveCache, podCache, events, queue,
                            restarts, listErrors, unlisted, hit>>

SyncMoves == /\ moveCache # moves /\ moveCache' = moves
             /\ UNCHANGED <<planVars, pods, errors, planCache, podCache, events, queue,
                            restarts, listErrors, unlisted, hit>>

SyncPod(p) ==
  /\ podCache[p] # pods[p]
  /\ podCache' = [podCache EXCEPT ![p] = pods[p]]
  /\ events' = IF podBoundPredicate(podCache[p], pods[p]) THEN events \cup {pods[p].node}
                                                          ELSE events
  /\ UNCHANGED <<planVars, pods, errors, planCache, moveCache, queue, restarts,
                 listErrors, unlisted, hit>>

\* The plans that a pod bound to n bears on are enqueued.  When the plans cannot be
\* listed, or the PodMoves of some of them, which are listed only for a node that the
\* plan does not free, the event is lost to them.
mapBoundPodToPlans(n) ==
  /\ n \in events
  /\ events' = events \ {n}
  /\ LET freeing == {pl \in planCache : classifyBoundPod(pl, n) = "nodesToFree"}
         involved == {pl \in planCache : classifyBoundPod(pl, n) = "involved"}
     IN  \/ queue' = queue \cup freeing \cup involved /\ UNCHANGED <<listErrors, unlisted>>
         \/ /\ listErrors < MaxListErrors /\ listErrors' = listErrors + 1
            /\ \/ UNCHANGED queue /\ unlisted' = unlisted \cup {n}
               \/ /\ \E some \in SUBSET involved : queue' = queue \cup freeing \cup some
                  /\ UNCHANGED unlisted
  /\ UNCHANGED <<planVars, pods, errors, planCache, moveCache, podCache, restarts, hit>>

\* The plan is deleted when an unexpected pod is on a node to free, or when its
\* other moves no longer fit.  An error brings it back; NotFound is none.
Reconcile(pl) ==
  /\ pl \in queue
  /\ IF pl \in planCache /\ (findUnexpectedPodOnNodesToFree(pl) \/ ~remainingMovesFit(pl))
     THEN \/ plans' = plans \ {pl} /\ queue' = queue \ {pl} /\ UNCHANGED errors
          \/ mayFail /\ plans' \in {plans, plans \ {pl}} /\ UNCHANGED queue
     ELSE queue' = queue \ {pl} /\ UNCHANGED <<plans, errors>>
  /\ UNCHANGED <<planner, made, moves, ordered, pods, planCache, moveCache, podCache,
                 events, restarts, listErrors, unlisted, hit>>

\* A restarted evictor lists all objects: each pod that is bound is a Create event.
Restart ==
  /\ restarts < MaxRestarts /\ restarts' = restarts + 1
  /\ planCache' = plans /\ moveCache' = moves /\ podCache' = pods
  /\ events' = {pods[p].node : p \in {x \in Pods : podBoundPredicate(NoPod, pods[x])}}
  /\ queue' = {}
  /\ UNCHANGED <<planVars, pods, errors, listErrors, unlisted, hit>>

-----------------------------------------------------------------------------
PlannerStep ==
  \E pl \in Plans : \/ choosePlan(pl) \/ createConsolidationPlan(pl)
                    \/ \E s \in Sources : createPodMoveCRD(pl, s)
                    \/ finishApply(pl) \/ killPlanner(pl)

ClusterStep ==
  \E s \in Sources : collectGarbage(s) \/ evictSource(s) \/ createReplacement(s) \/ endMove(s)

ArrivalStep ==
  \/ \E p \in NewPods : createPod(p, None) /\ UNCHANGED hit
  \/ \E p \in NewPods, n \in Nodes : (createPod(p, n) \/ bindPod(p, n)) /\ hit' = hit \cup {n}

ReconcilerStep ==
  \/ SyncPlans \/ SyncMoves \/ \E p \in Pods : SyncPod(p)
  \/ \E n \in Nodes : mapBoundPodToPlans(n)
  \/ \E pl \in Plans : Reconcile(pl)
  \/ Restart

Next == \/ (PlannerStep \/ ClusterStep) /\ UNCHANGED <<recVars, hit>>
        \/ ArrivalStep /\ UNCHANGED recVars
        \/ ReconcilerStep

Spec == Init /\ [][Next]_vars

\* Informers deliver, events are mapped, the queue is worked off, and garbage is
\* collected.  The planner may be killed, and moves need not get on.
Fairness ==
  /\ WF_vars(SyncPlans) /\ WF_vars(SyncMoves) /\ \A p \in Pods : WF_vars(SyncPod(p))
  /\ \A n \in Nodes : WF_vars(mapBoundPodToPlans(n))
  /\ \A pl \in Plans : WF_vars(Reconcile(pl))
  /\ \A s \in Sources : WF_vars(collectGarbage(s) /\ UNCHANGED <<recVars, hit>>)

FairSpec == Spec /\ Fairness

-----------------------------------------------------------------------------
PlanTypeOK == /\ PlansTypeOK
              /\ planCache \subseteq made
              /\ moveCache \in [Sources -> MoveState]
              /\ podCache \in [Pods -> PodState]
              /\ events \subseteq Nodes
              /\ queue \subseteq Plans
              /\ restarts \in 0..MaxRestarts /\ listErrors \in 0..MaxListErrors
              /\ unlisted \subseteq Nodes /\ hit \subseteq Nodes

nodesOf(pl) == NodesToFree[pl] \cup UNION {{SourceNode[s], TargetNode[pl][s]} : s \in MovesOf[pl]}

\* Replacements, whosever they are, and pods on other nodes leave a plan alone: it
\* is cancelled only after another pod was bound to one of its own nodes, or the
\* evictor has restarted.
UndisturbedPlansLive ==
  \A pl \in made \ plans : nodesOf(pl) \cap hit # {} \/ restarts > 0

\* A plan that is reported as applied has had a PodMove for each of its pods, its
\* own or one that existed (applyConsolidationStrategy, main).
AppliedIsComplete ==
  \A pl \in Plans : planner[pl].outcome = "applied" => \A s \in MovesOf[pl] : ordered[s] # {}

\* The bind of a pod, a new one or one that has waited, to a node that a plan
\* frees, or that one of its active PodMoves comes from or goes to, ends the plan, if
\* plan and PodMove are in the caches when the event is mapped.  Only a failed List of
\* the plans loses a bind to a node to free; one of PodMoves loses those to the other
\* nodes, and PodMoves that end before that do not count (mapBoundPodToPlans).
NoticedBindsCancel ==
  \A pl \in Plans, n \in Nodes :
    n \in events /\ pl \in planCache /\ classifyBoundPod(pl, n) # "irrelevant"
    ~> \/ pl \notin plans \/ n \in unlisted
       \/ /\ n \notin NodesToFree[pl]
          /\ \/ listErrors > 0
             \/ \A s \in Sources : moves[s].owner = pl /\ n \in {SourceNode[s], TargetNode[pl][s]}
                                 => moves[s].ended

\* "Owned PodMoves are removed by garbage collection"
\* (consolidationplan_controller.go), those too that the planner creates after
\* the plan was cancelled.
CancelledPlansVanish ==
  \A pl \in Plans :
    pl \in made \ plans ~> [](\A s \in Sources : moves[s].plan # pl)

(***************************************************************************)
(* What comments say and the code does not do                              *)
(***************************************************************************)
\* "ConsolidationPlanReconciler cancels a ConsolidationPlan when an unexpected Pod
\* bind compromises it" (consolidationplan_controller.go).
CancelledForABind == \A pl \in made \ plans : nodesOf(pl) \cap hit # {}

\* "Reconcile aborts the ConsolidationPlan when an unexpected pod occupies a
\* nodesToFree node" (consolidationplan_controller.go): one that is newer than the
\* plan and not the replacement of one of its own moves.
IntrudersCancel ==
  \A pl \in Plans, p \in NewPods :
    /\ pl \in plans /\ pods[p].node \in NodesToFree[pl]
    /\ pl \in pods[p].newer /\ ~pods[p].labelled
    ~> pl \notin plans

\* "binds on involved nodes re-check fit" (consolidationplan_watch.go).
BindsOnTargetsCancel ==
  \A pl \in Plans, s \in Sources, p \in NewPods :
    /\ pl \in plans /\ s \in MovesOf[pl] /\ pods[p].node = TargetNode[pl][s]
    /\ pl \in pods[p].newer /\ ~pods[p].labelled
    ~> pl \notin plans \/ moves[s].ended

\* "moveCount is the number of PodMoves in the4 plan" (consolidationplan_types.go),
\* and it is the number of all the plan's moves.
AppliedIsItsOwn ==
  \A pl \in Plans : planner[pl].outcome = "applied" => \A s \in MovesOf[pl] : pl \in ordered[s]
=============================================================================
