# PODTetris in TLA+

PODTetris frees nodes of a Kubernetes cluster: a *planner* looks for a set of
pod moves that empties nodes, an *evictor* evicts the pods, and an admission
*webhook* pins their replacements to the nodes that the plan chose. This
directory holds TLA+ specifications of that machinery, the TLC configurations
that check them on small instances, and proofs of their main properties for
every instance, checked by TLAPS.

The core is the execution of a plan: two programs that never talk to each other
drive a `PodMove` through its life by optimistic writes to one status, from
caches that are behind, while the pods come and go. Around it are the making of a
plan (the choice of candidate nodes, the simulations, the best result), its
creation in the API server, and its cancellation.

## 1. The system

| Component | Source | State | Operations |
|---|---|---|---|
| PodMove API | `src/src/evictor/api/v1/podmove_*.go` | conditions, phase, three attempt counters of each PodMove | `DerivePhase`, `SyncPhase`, `IsTerminal` |
| PodMove reconciler | `src/src/evictor/internal/controller/podmove_*.go` | none of its own: informer caches, the work queue, the copy of the reconcile under way | evict the source, wait for the claim, look for the replacement, wait until it runs |
| ConsolidationPlan reconciler | `.../controller/consolidationplan_*.go` | none of its own | on a pod bound to a node of a plan: delete the plan, and with it (garbage collection) its PodMoves |
| Admission webhook | `src/src/webhook/*.go` | a cache of PodMoves per replica; requests in flight | list the open PodMoves of the pod's owner, claim one, patch `nodeName` and label into the pod |
| Planner, candidate nodes | `src/src/planner/nodes.go`, `config.go` | none | share a number of nodes between three strategies, choose the sets |
| Planner, simulation | `src/src/planner/simulation.go`, `permutations.go`, `main.go` | a forkable cluster snapshot, the best result so far | virtual eviction, scheduling of every permutation, score, choice |
| Planner, rules | `src/src/planner/rules.go` | compiled rules | first match: cost of a move, fixed pods |
| Planner, apply | `src/src/planner/consolidation.go` | none | create the ConsolidationPlan, then its PodMoves one by one |
| Kubernetes | not in the repository | PodMoves, pods, caches | everything the programs call, and what controllers, kubelets and users do meanwhile |
| Manager set-up, charts, scripts, labs, evaluation | the rest | | not modelled |

### How they interact

* The planner creates the plan and its PodMoves in the API server and exits.
* The evictor sees PodMoves through an informer. It is one worker
  (`MaxConcurrentReconciles: 1`) on one leader. It watches PodMoves only: a
  change of a pod wakes nobody, `RequeueAfter` does.
* The webhook (three replicas, concurrent requests) lists PodMoves from a cache,
  and claims by a live read and a status update with the version it read, tried
  again on conflict. The pod that carries the label is written by the API
  server, later, or never.
* The plan reconciler sees plans, PodMoves and pods through three informers. Only
  a pod that is bound makes it look at a plan; it acts by deleting it, and the
  garbage collector deletes the PodMoves it owns, in whatever state they are.
* Evictor and webhook share the `PodMove` status and nothing else. Every write
  is refused if the resource version is not the current one.

### What is hard

* **Interleaving.** A claim, the claim timeout, `PodNotFound` and the write of
  `SourceEvicted` may fall in any order, and so may requests for several pods.
  A plan may be cancelled while the planner still creates its PodMoves.
* **Stale state.** Reconciles start from caches, the UID of the source is
  compared in a cache while the eviction goes by name, the candidates of a
  request come from the cache of whichever replica serves it.
* **Partial failure and restart.** A status write may fail before or after it
  took effect, and is repeated by a deferred function with whatever the copy in
  memory holds by then; some transitions take two writes; the eviction's answer
  may be lost; the evictor may restart at any point; the API server stops
  waiting for the webhook while its handler is still claiming.
* **Lost events.** A plan is looked at when a bound pod is seen and at no other
  time. What that event does not find in the caches (the plan, its PodMoves) it
  never finds; what a restart lists again looks like a new bind.
* **Time.** Attempts are counted from the time of a condition, possibly another
  machine's, by a reconciler that may come late.
* **Search.** Every simulation forks and reverts one shared snapshot, and may fail
  half way; the moves it finds are carried out in another order.
* **Names.** A StatefulSet gives the replacement the name of the source pod.
* **Liveness.** Everything that has been started must end, by attempts and
  timeouts, without any event from the pods.

### What makes each component correct

* *PodMove status*: it follows one order of conditions whoever writes it; it is
  final once failed or succeeded; its phase agrees with it.
* *Reconciler*: it marks only what has happened to the very pod of `podRef`; it
  ends every PodMove; it evicts nothing else; it counts attempts as documented.
* *Webhook*: one pod per PodMove; no claim before the eviction and none after
  the end; a lost answer costs a PodMove and never a pod.
* *Plan reconciler*: a plan is cancelled when, and only when, a bound pod
  compromises it.
* *Planner*: the counts add up to the total and never exceed the nodes; the plan
  that is applied is the best one that frees a node; a plan with only part of its
  PodMoves is not carried out as if it were whole.

`PROJECT.json` lists the hazards one by one with the line where they bite and
the properties that cover them.

## 2. The modules

```
PodMoveApi            status, phase, operations on it                (api/v1)
  PodMoveLifecycle    abstract: what a PodMove's status promises
  Cluster             API server, pods and their world               (external)
    Evictor           the PodMove reconciler
    Webhook           the admission webhook
      PodMoveSystem   both at work, and the properties
        PodMoveInvariants     the inductive invariants
          MCPodMove           instance for TLC
        PodMoveSystemProofs   type correctness          (TLAPS)
          PodMoveStatusProofs   IInv, safety, refinement  (TLAPS)
            PodMoveTruthProofs  TruthInv: status and pods (TLAPS)

AttemptClock          the attempts of a PodMove against a clock
  AttemptClockProofs                                    (TLAPS)

ConsolidationPlans    plans and PodMoves, planner runs that create them
  PlanReconciler      the ConsolidationPlan reconciler, and the properties
    MCPlans           instance for TLC
    PlanReconcilerProofs                                (TLAPS)

CandidateCounts       shares of the candidate nodes, as operators
  CandidateNodes      the selection of the sets of candidates
    MCCandidateNodes  instance for TLC
    CandidateNodesProofs                                (TLAPS)

PlannerRules          which pods may be moved, and at what cost
  Planner             simulations, the best result, its execution
    MCPlanner         instance for TLC
    PlannerProofs                                       (TLAPS)
```

The groups meet at narrow places, and each takes of the others what they
guarantee there. `Evictor` leaves open whether a wait is over; `AttemptClock` says
when it is. `ConsolidationPlans` reduces a PodMove to what a plan sees of it: the
source goes, a labelled pod comes to the target node, the move ends; in
`PodMoveSystem` a plan shows only as the deletion of the PodMove, at any time.
`CandidateNodes` hands over a list of sets; `Planner` is checked for lists of all
shapes. `Planner` ends with the moves carried out in any order.

**PodMoveApi.** A status is a record. Its conditions are the set of types that
are True, for nothing ever writes False. Messages, times and all reasons but
that of `Failed` are left out. `DerivePhase` and `SyncPhase` are the functions
of `podmove_phase.go`.

**Cluster** is external: the PodMoves (`status`, `live`), the pods by UID with
the name they bear, and what happens to them (deletion, removal, start,
rejection by the kubelet, deletion of the PodMove). A resource version is
represented by the status itself. That is exact because a status never comes
back: each write that changes it adds a condition, advances a counter or brings
the phase up to date, and a write that changes nothing keeps the version in
Kubernetes too.

**Evictor.** One action per handler that a reconcile can reach, from the
reading of the caches up to the next call of the API server, and one action per
call: `EvictPod` (look-up and eviction), `writeStatus` (`updateStatus`),
`finishReconcile` (the deferred function). `rec` is the reconcile between two
calls: `pm` is the copy in memory, `base` the version it came from, `then` what
follows the write. A failed write makes the copy go on to the deferred update
with the conditions it has by then, as in the code. `writeStatusFault` and
`finishReconcileFault` lose a write or its answer; `Crash` is a restart.
`SyncMoves` and `SyncPods` let a cache catch up, in whole: what a cache shows
between is never compared with anything, except per PodMove and per pod.
Elapsed time is the parameter `due`: whether the wait that a handler looks at
is over. The waits of one PodMove follow each other and those of several are
never compared, so each may be over or not.

**Webhook.** A `hook` is a request with its handler. `CreateRequest` covers the
decoding and the listing, `tryCandidate` the live look at the source pod,
`claimGet` and `claimUpdate` the two calls inside `RetryOnConflict`, `Admit` the
answer and the CREATE. `AdmissionTimeout` is `failurePolicy: Ignore`: the pod is
created as it is while the handler may go on to claim. Retries are `ClaimTries`
(2 in most runs, 5 in client-go): with two, each outcome of a retry occurs.

**PodMoveLifecycle** is the contract of the status with its readers: which
conditions precede a condition, and from where a PodMove may fail for which
reason. `PodMoveSystem` implements it under the mapping `conds`, `reason`,
`exists` of its instance `Lifecycle`.

**AttemptClock.** One stage of a PodMove (evictions, persistence or running, which
count alike). `now` is the evictor's clock, `since` the time of the condition,
which a webhook's clock may have stamped. `wake` is when the work queue hands the
PodMove out next: each reconcile sets it by its `RequeueAfter`, an update's event
and a restart set it to now. A reconcile may come later than `wake` by any amount.

**ConsolidationPlans.** Each plan is a run of the planner, an action per call:
`choosePlan`, `createConsolidationPlan`, `createPodMoveCRD` for each pod,
`finishApply`. A call may fail before or after it took effect; `AlreadyExists`
counts as created; `killPlanner` is the Job's deadline. `collectGarbage` is
Kubernetes'. `evictSource`, `createReplacement` and `endMove` are the PodMoves: the
replacement is created first, and the move ends later, when that pod is beyond
Pending, or before, when it fails, which may be at any time. `createPod` and
`bindPod` are everybody else's pods.

**PlanReconciler.** `SyncPlans`, `SyncMoves` and `SyncPod` are the three informers;
the last is also the pod watch with its predicate, and puts the node of a bound pod
into `events`. `mapBoundPodToPlans` classifies it for every cached plan, with the
Lists that can fail, `Reconcile` looks at the plan again and deletes it, `Restart`
delivers every existing pod as created. `remainingMovesFit` is the code's: never.
Two variables are history: `hit`, the nodes to which pods that are no replacements
were bound, and `unlisted`, the nodes of bound pods no plan has heard of because the
plans could not be listed.

**CandidateCounts, CandidateNodes.** The first is the arithmetic of
`validateConfig` and `resolveCandidateNodesCounts` with its three roundings. The
second is the loop over the sets: the least used nodes, by any order of nodes that
are used alike, then draws of random ones, again while all of them have fixed pods.
`validateConfig` does not look at the number of sets and of draws, so both are any
whole numbers: fewer than no sets are a panic (`make`), and one draw is always made.

**PlannerRules, Planner.** A regular expression or a label selector is the set of
what it matches; reasons not to evict a pod are tried in the code's order. The
snapshot is a stack of placements: the cluster, the set's evicted pods, the run. A
pod that cannot be taken off its node is left there and not scheduled
(`startCandidateSet`). One action schedules one pod (`scheduleNextPod`) or gives the
run up (`failRun`, at any pod and after the last one: no node is feasible, a plugin
fails, or the node infos cannot be had again). `conclude` is the end of `main.go`,
`Migrate` the execution of one of the PodMoves. The scheduler's plugins are external:
requests must fit into what the node has of each resource, the other filters are the
set `Allowed`. The profile that scores nodes is configuration, so a node's score is
any of `Scores`, at each pod anew; of equal scores any node wins.

Operators with a comment that begins with *Variant* are wrong versions of the
definition that follows. No specification uses them; they serve to show that
each property fails when the code is changed in a plausible way
(`mutants` in `PROJECT.json`).

## 3. Properties

| Property | Kind | Says |
|---|---|---|
| `TypeOK` | invariant | types of all variables |
| `PinnedOnce` | invariant | no two pods are ever pinned to one PodMove |
| `ClaimBeatsTimeout` | invariant | a PodMove failed for want of a claim has no claim and no pod |
| `EvictedMeansGone` | invariant | evicted or claimed only if the pod of `podRef` itself is going or gone |
| `SucceededMeansMoved` | invariant | success means: source gone, a labelled pod on the target node beyond Pending |
| `PhaseLagsOnlyTheClaim` | invariant | the phase is the derived one or lacks the claim |
| `IInv` | invariant | the inductive invariant of the proofs about the status |
| `TruthInv` | invariant | whatever any copy of a status says of the pods is so; the inductive invariant of the proofs about the pods |
| `TerminalIsFinal` | action | a status that has ended is never written again |
| `LifecycleSpec` | refinement | the system implements `PodMoveLifecycle` |
| `EveryMoveEnds` | liveness | every PodMove that is not deleted succeeds or fails |
| `PhaseConverges` | liveness | the phase agrees with the conditions in the end |
| `ClockTypeOK` | invariant | types; one attempt too many at most for each failed write |
| `NeverTooEarly` | invariant | as many intervals have passed as attempts were counted |
| `AlwaysAwaited` | invariant | a PodMove is looked at when its attempt is over, whatever delay was returned |
| `AttemptsEnd` | liveness | the attempts end |
| `PlanTypeOK` | invariant | types of plans, PodMoves, caches, queue |
| `UndisturbedPlansLive` | invariant | only a foreign pod on one of its nodes, or a restart, cancels a plan |
| `AppliedIsComplete` | invariant | a plan reported as applied has had a PodMove for each of its pods |
| `NoticedBindsCancel` | liveness | a bind that the caches connect with a plan ends it; on a node to free only a failed List of the plans is an excuse, on another one a failed List too, or that its moves end first |
| `CancelledPlansVanish` | liveness | nothing is left of a cancelled plan, for good, also of what was created after |
| `CandidatesTypeOK` | invariant | types; no share is negative, no more sets and draws than allowed |
| `SharesFit` | invariant | the shares add up to the total, which the cluster has; no random nodes exactly if none are asked for |
| `SetsAreWhole` | invariant | no node is taken twice: each set has the size asked for |
| `RandomSetsCanBeFreed` | invariant | a set with random nodes has a node without fixed pods |
| `SelectionFailsForAReason` | invariant | the selection fails for a refused or impossible configuration, for want of a node without fixed pods, or when all draws allowed were bad; never for want of nodes or over an empty draw |
| `SelectionEnds` | liveness | the draws end |
| `PlannerTypeOK` | invariant | types; the snapshot has one to three layers |
| `StartsClean` | invariant | each set and each simulation starts from its baseline, also after one that failed |
| `MovesAreReal` | invariant | moves are of pods against whose eviction nothing speaks, whatever reason comes first, from where they are to another node, once |
| `PlanDelivers` | invariant | once the moves are carried out, in any order, the nodes to free are exactly those that were in use before and are not any more |
| `OnlyLeaversOverfill` | invariant | at each moment of the migration no node has more than it holds, but for pods that are still to leave it |
| `BestIsChosen` | invariant | the plan applied has the best score of all, above the threshold |
| `PlannerInv` | invariant | snapshot, simulation and results agree with each other; the inductive invariant of the proofs |

## 4. Runs

| Run | Instance | Shows |
|---|---|---|
| `rs_faults` | ReplicaSet, 1 request at a time, 1 fault, PodMove may be deleted, 2 attempts each | truth and order of the status |
| `rs_requests` | ReplicaSet, 2 replacements and 2 requests at a time, 1 attempt each, no retry of a claim | claims racing each other and the evictor |
| `sts_faults` | StatefulSet, 1 request, 1 fault | the same when the name is reused; `IInv`, `TruthInv` |
| `rs_progress` | ReplicaSet, 1 fault, fairness | every PodMove ends, the phase converges |
| `attempts_clock` | 3 attempts of 3 units, delays of 1, 3 and 5, clocks 1 apart, 1 failed write, 14 units, fairness | no attempt is early, none is forgotten, they end |
| `plans_two` | 2 plans whose moves overlap, 2 sources, 3 nodes, 1 new pod | plans do not cancel each other; what is applied is complete |
| `plans_end` | 1 plan, 1 error of the API server, 1 restart, 1 failed List, fairness | the same with faults; a noticed bind cancels the plan, and nothing of it is left |
| `cand_sets` | every cluster of at most 4 nodes, 228 configurations, fairness | shares, sets, and why a selection fails |
| `plan_sim` | 256 placements of 8 pods on 3 uneven nodes, 4 lists of sets, 2 strategies, 2 scores | the simulation, the choice and the migration |
| `sts_claimed`, `sts_evicts`, `plan_restart` | small | the divergences of section 6: TLC finds the property violated |

Each run takes between seconds and four minutes; `rs_requests` is the largest,
with several million states.

*Bounds of the PodMove runs.* One PodMove: PodMoves interact only through the webhook's list of
candidates and the work queue, and two of them exceed what TLC explores here
(over 12 million states with one request). The proofs cover any number of them
for the safety properties of section 5.
Two or three pods: the source, and one or two replacements. `MaxFaults` (0 or 1)
counts lost writes and restarts; conflicts, lost answers of the eviction,
timeouts and rejections of requests are not bounded. Attempts are 1 or 2 in the
place of 10, 3 and 3: below the maximum, at the maximum and beyond are all
reached. `ClaimTries` is 2 in the place of 5, and 1 in `rs_requests`: the retry
after a conflict is covered by the runs with faults. `Cancellable` bounds which
PodMoves may be deleted.

*Bounds of the others.* `attempts_clock`: the delays are shorter than, equal to and
longer than the interval, and time runs past the last deadline by more than an
interval, so that several deadlines can be missed at once. `plans_two`: the second
plan also moves the first one's pod, so that one PodMove is disputed, its target
node is both plans', and the new pod can be a replacement or an intruder on any
node. `plans_end`: one of each fault; a further one repeats the situation of the
first. `cand_sets`: four nodes, tied by CPU and by memory in different pairs and
ordered differently by the two; mixes that round up, down and to a half, with and
without each strategy, and configurations that are refused. The totals are 1 to 4, where
the roundings collide; `SharesAlwaysFit` has the large ones. A fifth of the
configurations has numbers of sets and draws that make no sense: one less than none,
none, and more than there are sets. `plan_sim`: the pods are two of the default
namespace, a StatefulSet's fixed one, one of another namespace, a DaemonSet's, and
three with several reasons to stay, of which the first to be tried hides the
others (a completed pod of a Job, a completed one in `kube-system`, and one that a
DaemonSet owns without controlling it); those that are not moved stand on one or two
nodes only, which is where the number of placements comes from. The nodes differ in
what they have. Of the strategies, `random` includes all orderings that `memory_desc`
gives, so that strategy is not enabled. With two scores, any feasible nodes can be the
best ones. The lists are one set, all nodes, two sets that exclude each
other, and the same set twice; costs come from the first rule, the second and the
default, and are of the size of the weight of a node, so that freeing a node is not
always worth it.

*Deadlock* is not checked because the system really stops: when its PodMoves
have ended, the pods are gone and every UID has been used, nothing is left to
do. `EveryMoveEnds` says that it does not stop before. Likewise the planner is a
program that ends (`SelectionEnds`), a stage ends with its attempts
(`AttemptsEnd`), and a plan reconciler without new pods has nothing to do.

*Symmetry* (replacement pods, requests) is used in `rs_requests` only, which has
no liveness property.

*Fairness* (`EvictorFairness`) is the evictor's own. The work queue is first in,
first out, so a PodMove that is queued again and again is taken again and again,
also while others are: strong fairness of `Reconcile`. `RequeueAfter` is computed
as the rest of the wait, so a PodMove that keeps being requeued finds at last
that the wait is over: the fair step is the one with `due = TRUE`. API calls
return and informers deliver: weak fairness. Nothing is assumed of the webhook,
the controllers, the kubelets or the answers to an eviction, so `EveryMoveEnds`
holds with a webhook that is down and a PodDisruptionBudget that never allows
the eviction.
Of `StatefulSet`s the property does not hold; see section 6.

The other fair specifications assume as little. `AttemptClock`: time passes, the
informer delivers, the worker takes what the queue has. `PlanReconciler`:
informers deliver, events are mapped, the queue is worked off (a plan stays in it
after an error) and garbage is collected; nothing is assumed of the planner, which
may be killed, and of the PodMoves. `CandidateNodes`: the program runs.

## 5. Proofs

All theorems hold for any number of PodMoves, plans, pods, owners, nodes, requests,
attempts and faults, any configuration, rules, interval and delay. They rest on the
named assumptions of the modules only:

* `None` is not a PodMove, pod, node or result; the nodes are finitely many, and so
  are the planner's pods.
* `Source`, `TargetNode` and `OwnerOf` are functions on the right sets, no two
  PodMoves move the same pod, and a pod that may be moved is not one that may be
  created.
* The maxima are positive, bounds, requests and what each node has of each resource
  are natural numbers; costs, scores, weights, the threshold and the numbers of
  candidate sets and of draws are any whole ones.
* What a pod may run on are nodes, its controller is one of its owners, and the
  candidate sets are lists of sets of nodes. The planner starts with a cluster in
  which no node has more than it holds, as the scheduler left it.

| Theorem | States |
|---|---|
| `TypeCorrect` | `Spec => []TypeOK` |
| `Invariant` | `Spec => []IInv` |
| `OneReplacement` | `Spec => []PinnedOnce` |
| `ClaimOrTimeout` | `Spec => []ClaimBeatsTimeout` |
| `PhaseLag` | `Spec => []PhaseLagsOnlyTheClaim` |
| `TerminalStays` | `Spec => TerminalIsFinal` |
| `Implements` | `Spec => LifecycleSpec` |
| `Truth` | `Spec => []TruthInv` |
| `EvictedIsGone` | `Spec => []EvictedMeansGone` |
| `SucceededHasMoved` | `Spec => []SucceededMeansMoved` |
| `ClockTypes` | `Spec => []ClockTypeOK` |
| `AttemptsTakeTheirTime` | `Spec => []NeverTooEarly` |
| `NeverForgotten` | `Spec => []AlwaysAwaited` |
| `PlanTypes` | `Spec => []PlanTypeOK` |
| `UndisturbedLive` | `Spec => []UndisturbedPlansLive` |
| `AppliedComplete` | `Spec => []AppliedIsComplete` |
| `SelectionTypes` | `Spec => []CandidatesTypeOK` |
| `SharesAlwaysFit` | `Spec => []SharesFit` |
| `WholeSets` | `Spec => []SetsAreWhole` |
| `RandomSetsFreeable` | `Spec => []RandomSetsCanBeFreed` |
| `FailuresHaveReasons` | `Spec => []SelectionFailsForAReason` |
| `PlannerInvHolds` | `Spec => []PlannerInv` |
| `PlannerTypes` | `Spec => []PlannerTypeOK` |
| `SimulationsStartClean` | `Spec => []StartsClean` |
| `RealMoves` | `Spec => []MovesAreReal` |
| `PlansDeliver` | `Spec => []PlanDelivers` |
| `PlansFit` | `Spec => []OnlyLeaversOverfill` |
| `TheBestIsChosen` | `Spec => []BestIsChosen` |

*The status of a PodMove* (`Invariant` to `Implements`). None of these properties is
inductive. What a reconcile will
write was computed from a cached status some steps ago, and a claim from a
status read some steps ago. So `IInv` (module `PodMoveInvariants`) speaks of
every copy:

* `StatusInv`: every status, in the API server and in the cache, is *sound* (its
  conditions and reason fit together) and its phase lags by a claim at most.
* `RecInv`: whatever the reconcile under way holds is a lifecycle step (`Step`)
  over its `base`, or nothing new when `base` is over; before an eviction, the
  copy is that of a source being evicted; before the second of two writes, that
  write is still legal.
* `HookInv`: a request that is about to update has read an open PodMove.
* `ClaimInv`: a pod with a PodMove's label, or a request about to give it,
  exists only if the PodMove is claimed, and there is one such holder.

The optimistic write turns this into a statement about the API server: if the
write is accepted then `base` *is* the current status, so every accepted write
is a lifecycle step over the current status (`NextStatus`). From that follow at
once that nothing is written after the end, that conditions are never taken back,
and the refinement. A claim is accepted only over a status without
`ReplacementClaimed`, so `ClaimInv` says that nobody holds the PodMove at that
moment, and the claimant becomes its one holder; `Admit` passes the hold from the
request to the pod.

*What a status says of the pods* (`Truth`, `EvictedIsGone`, `SucceededHasMoved`). The
evictor and the webhook conclude from cached pods, and their writes land later. The
conclusions are still right because pods only get on (`Follows`): a pod that is
terminating or gone stays so, one that has left Pending never returns to it, its
name, label and node do not change. `TruthInv` makes that inductive:

* `NamesInv`: while a source pod is there nobody else has its name or a request
  for it. The eviction goes by name and so may hit another pod, but then the source
  pod is gone already; and a look-up that finds another pod under the name, or none,
  shows the same.
* `CacheInv`: the cached pods are earlier ones. A source pod exists before its
  PodMove does and is in the cache from the start: without that, "not found" would
  say nothing.
* `TellsInv`: the conditions of each status, cached status and write under way are
  true of the pods, and a request on its way to a claim has seen an evicted source.

The optimistic write plays no part here: it is what the copies say that matters, and
that stays true in whatever order they arrive. `SucceededHasMoved` needs `IInv` too,
as success is concluded from the replacement alone, and it is the order of the
conditions that puts the claim, and with it the end of the source, before. Nothing is said of a replacement *now*: it may
have been deleted since.

*The clock* (`ClockTypes`, `AttemptsTakeTheirTime`, `NeverForgotten`). `ClockInv`
adds to the properties that the attempts counted so far have lasted on the
*condition's* clock (`attempts * Interval <= now - since`), from which `NeverTooEarly`
follows with the skew, and that a stage which has not ended has attempts left, or a
fault in the place of one.

*`UndisturbedLive`.* A plan is deleted from the queue, it gets there by an event,
and an event comes from the difference between a pod and its cached copy. `LiveInv`
follows that chain backwards: queued plans and events have been hit (`QueueHit`,
`EventsHit`), foreign pods that are bound are on nodes that were hit
(`ArrivalsHit`), and a source pod is seen as bound from the start and can only go
(`SourcesStay`), so that it never looks like a new bind until a restart. That a plan is
hit only on its *own* nodes needs the PodMoves it owns to be of its own pods, which
is part of `Typed`.

*`AppliedComplete`.* `ApplyInv` says of a run under way that each pod which is no
longer to do has had a PodMove, unless `failed` remembers otherwise; a PodMove that
exists has been ordered, so `AlreadyExists` keeps it true.

*`SharesAlwaysFit`.* Bounds of each rounded share by the real one (`ShareBounds`,
`RoundedUp`, `ShareByCPU`), of the total by the cluster (`TotalBounds`), and that
nothing is left for memory when nothing was asked for (`NothingLeftForMemory`).

*`WholeSets`, `RandomSetsFreeable`, `FailuresHaveReasons`.* `SetsInv` adds what a set under way has so far:
as many nodes as CPU and memory ask for. Those by memory are taken from what is left
by CPU and the random ones from what is left by both, so that the sizes add up
(`DisjointSets`); that enough is left follows from `SharesFit`. A set is finished
only after a draw whose nodes do not all have fixed pods, or without random nodes.
Hence a run that has used up its draws has drawn at least one node, and only nodes
with fixed pods, of those that CPU and memory left.

*The planner* (`PlannerInvHolds` and the others). `PlannerInv` has four parts:

* `PlacementInv`: the pods are where they were until the plan is applied; from then
  on they are where those moves take them that are done (`moved`), in any order.
* `SnapshotInv`: the second layer of the snapshot is the first one without the
  evicted pods, and a third one exists exactly during a simulation, however the one
  before it ended.
* `SimulationInv`: in the third layer, pods that have been scheduled are where the
  moves of the simulation take them, the others are nowhere, and all of it fits.
* `ResultsInv`: every result is *honest* (its score is its own, the nodes it names are
  those that are empty with its moves and were not without them, among all nodes of the
  cluster, and all fits), and `best` is one of them that none exceeds.

A simulation that has placed all its pods has in its third layer what carrying out
all its moves makes of the cluster; that is the step from `SimulationInv` to
`honest` (`EndOfRun`) and from there to `PlanDelivers`. The code compares the
candidates only; that no other node becomes empty is part of that step, for no pod
leaves one. Moves of one plan are of
different pods, which is why their order does not matter (`OneMoreMove`). That the
freed nodes are empty *in the end* is proved. *In between*, the pods that are not
about to leave are some of those that are there in the end, and so fit (`PlansFit`); that
they fit together with those that have not left yet is not so (`plan_order` in
section 6).

`MovesAreReal` and `PlanDelivers` do not use the planner's own words for a pod that
stays or a node that is empty. `FirstReason` describes the chain of reasons by the
first one that holds, `EvictablePods` derives from it that no reason at all speaks
against a pod that has none, and `EmptyIsUnused` that the reasons that keep a node from
being empty are those of a pod in use of it, whatever other reasons there are.

What is requested of a node is a sum over the pods on it, a fold whose definition
recurses over sets. The library's induction theorems are out of reach, but its
theorem that proper subsets of a finite set are well-founded is not: `SubsetInduction`
follows from a minimal counterexample (`WFMin`), for a *set* of sets in the place
of a predicate. From it come that these sums exist (`SumsExist`), do not depend on
the order of summation (`SumsAgree`, `OneOfSum`), and grow with the set
(`SumOfSubset`); `FitsWithout` and `FitsWith` are what the simulation needs of them.

*Only model-checked:* liveness (`EveryMoveEnds`, `PhaseConverges`, `AttemptsEnd`,
`NoticedBindsCancel`, `CancelledPlansVanish`, `SelectionEnds`), which is out of the
prover's reach, and the properties that section 6 shows violated. Every safety
property of a passing run is proved. What rules match (`matches`, and so `isFixed` and
the cost of a move) enters the proofs only as some decision about each pod; that it is
made as documented is for TLC on the pods of `plan_sim`.

## 6. Where the code and its words part

Three of these are runs that TLC finds violated (`findings` in `PROJECT.json`).

* `sts_claimed`: *"a webhook that claimed first still gets SourceEvicted set (and
  eviction retried) until the eviction API succeeds"* (`podmove_controller.go:89`).
  For a StatefulSet, once the replacement bears the name, `getSourcePod` reports a
  UID mismatch, an error that is neither counted nor treated as "gone": a PodMove
  that was claimed before `SourceEvicted` was written is retried for ever, never
  evicted, never failed. It takes a conflict of that write with the claim, a lost
  answer to the eviction, or a restart.
* `sts_evicts`: *"podRef identifies the specific pod instance to move"*
  (`podmove_types.go:93`). The UID is compared with a cached pod and the eviction
  goes by name without a precondition, so with a cache that is behind the
  StatefulSet's new pod is evicted.
* `plan_restart`: the plan is cancelled *"when an unexpected Pod"* bind compromises
  it (`consolidationplan_controller.go:36`). A restarted evictor takes every pod
  that exists for one that was just bound, and as `remainingMovesFit` is not
  implemented and answers no, it cancels every plan with an active PodMove.

The following configurations show smaller ones. They are kept beside the others,
are run in the same way, and are not among the runs of `PROJECT.json`. Most are
choices that a document does not know of rather than faults.

| Configuration, property | The words | What the code does |
|---|---|---|
| `rs_succeeded`, `SucceededHasRun` | *"the PodMove completed even if the replacement later fails"* (`podmove_replacement.go:87`) | a pod pinned by `nodeName` that the kubelet rejects is `Failed` without ever having run, and counts as success |
| `rs_attempts`, `EvictionAttemptsBounded` | *"how many times eviction may fail ... before the PodMove is marked Failed"* (`podmove_types.go:53`) | the last attempt and `Failed` are two writes; a claim in between makes the second conflict, and another attempt follows |
| `attempts_late`, `AttemptsLastAnInterval` | *"Each unsuccessful poll lasting runningPollInterval counts as a running attempt"* (`podmove_replacement.go:73`) | a late reconcile finds several deadlines in the past and counts them one right after the other |
| `plan_missed`, `IntrudersCancel` | *"aborts the ConsolidationPlan when an unexpected pod occupies a"* node to free (`consolidationplan_controller.go:51`) | a bind that is mapped before the plan is in the cache is never looked at again |
| `plan_target`, `BindsOnTargetsCancel` | *"binds on involved nodes re-check fit"* (`consolidationplan_watch.go:83`) | nodes are involved once their PodMoves are in the cache; a bind before that is lost |
| `plan_exists`, `AppliedIsItsOwn` | *"moveCount is the number of PodMoves in the4 plan"* (`consolidationplan_types.go:52`) | a PodMove of the pod that belongs to an earlier plan, a failed one too, counts as created |
| `cand_roundings`, `SharesRoundedDown` | *"byCPU and byMemory are rounded down and random gets the remainder"* (`config.yaml:9`) | random is rounded up, CPU to the nearest, memory gets the remainder |
| `cand_fixed`, `SetsCanBeFreed` | *"Each set must include at least one Node with no user-fixed Pods"* (`algorithm-plantUML.puml:21`) | only the random nodes are looked at |
| `cand_distinct`, `SetsAreDistinct` | *"how many distinct candidate node sets to evaluate"* (`config.yaml:1`) | sets are not compared; the same draw gives the same set |
| `cand_fatal`, `SelectionSucceeds` | sets are created if there is a node without fixed pods (`algorithm-plantUML.puml:14`) | the draw is from what CPU and memory left; draws without luck end the run |
| `plan_freed`, `FreedNodesAreGained` | *"Freed nodes = empty(after) - empty(baseline)"* (`algorithm-plantUML.puml:86`) | a difference of sets: filling an empty node while emptying another counts as one freed |
| `plan_jobs`, `JobsLeaveNodesEmpty` | Jobs' pods are *"expected to remain on an otherwise empty"* node (`utils.go:73`) | a completed pod of a Job is `CompletedPods` first, which are not residual, and keeps its node |
| `plan_terminating`, `TerminatingPodsStay` | *"Terminating Pods"* are not evicted (`algorithm-plantUML.puml:56`) | the deletion timestamp is not looked at |
| `plan_order`, `MigrationFits` | *"Calculate the optimal temporal migration sequence"* (`algorithm-plantUML.puml:112`) | all PodMoves are carried out at once; a target node can be overfull in between, and the kubelet then rejects the pinned pod |

## 7. What is left out, and what could come next

*Not modelled.* The HTTP and JSON layers, logging and the figures of the run
summary; loading and compiling of rules and configuration; the manager's set-up,
leader election (two leaders at a time are not considered) and generated code;
charts, scripts, labs and the evaluation. None of them has state that the
properties tell apart.

Of the parts that are modelled:

* *Webhook:* requests with dry-run, whose handler only reads and whose pod is not
  persisted; the global dry-run mode, in which nothing is claimed; pods created
  with the label already on them.
* *Plan reconciler:* Lists that fail inside a reconcile, which repeat it as the
  failure of the deletion does. What happens to a source pod but by its PodMove, and
  the end of new pods: a pod that disappears is no bind. Source pods are cached as
  bound from the start, as the evictor runs long before a plan is made.
  `findUnexpectedPodOnNodesToFree` skips pods that are being deleted; a plan that is
  looked at is deleted with or without such a pod, as `remainingMovesFit` answers no,
  and so the model does without the deletion timestamp.
* *Hazards without a property* (`hazards` in `PROJECT.json`, each with its reason): where
  the code has nothing that could keep the hazard from happening, a property would
  only repeat that. These are a rejected pod that counts as success, events that are
  mapped before plan or PodMoves are cached, replacements that another plan pins to a
  node to free, a planner that is killed between two PodMoves (the step is
  `killPlanner`; what it leaves is a plan that cannot free its nodes until a bind
  cancels it), a PodMove of an older plan that counts as created, and pods that are
  being deleted in the planner's snapshot. Where a document says otherwise, section 6
  has the configuration that shows it.
* *Planner:* filters beyond requests and allowed nodes (affinity between pods and
  spreading depend on where other pods are); the set-up of informers and framework.
  `conclude` carries out PodMoves of its own plan only: calls whose answer is lost, and
  PodMoves that exist already, are in `ConsolidationPlans`.
* *PodMoves of one owner:* several PodMoves that compete for one request are covered
  by the proofs, not by TLC.

*What could come next.*

1. The webhook with several PodMoves of one owner over `PodMoveLifecycle` in the
   place of the reconciler, which `Implements` justifies.
2. The planner's outcome as what an abstract planner promises, with `Planner` shown
   to implement it, and the safety part of the plan's cancellation: that nothing of
   a cancelled plan comes back.
3. Replacements of one plan on the nodes another one frees: the label is not compared
   with the plan (`consolidationplan_helpers.go:84`). A property of that needs a
   decision whose replacements are meant, which the comments leave open.
