-------------------------------- MODULE Planner --------------------------------
(***************************************************************************)
(* A run of the planner after its candidate sets were chosen: for each set *)
(* and each ordering of the pods evicted from it, the scheduling of the    *)
(* pods is simulated, and the result with the best score is applied        *)
(* (src/src/planner/main.go, simulation.go, permutations.go).              *)
(*                                                                         *)
(* The snapshot of the cluster is a stack of placements: Fork pushes one,  *)
(* Revert pops it.  The filters of the scheduler are the nodes a pod is    *)
(* Allowed on and the requests that fit.  What its plugins make of a node  *)
(* may be any of Scores (the profile is configuration,                     *)
(* charts/podtetris/values.yaml); of nodes with the same score any may be  *)
(* chosen, for the scores come in the order of a Go set.                   *)
(***************************************************************************)
EXTENDS PlannerRules, FiniteSets, FiniteSetsExt

CONSTANTS Pods, Nodes, None,
          Pod,                  \* what the rules see of a pod
          Request,              \* by resource, what each pod requests,
          Allocatable,          \*   and what each node has
          Allowed,              \* the nodes that the other filters accept
          Scores,               \* the sums of the plugins' scores of a node
          CandidateSets,        \* the lists of candidate sets to consider
          Strategies,           \* enabledStrategies, with their repetitions
          EmptyNodesWeight, CostWeight, AutoConsolidationThreshold,
          DryRun

Resources == {"cpu", "memory"}
Move == [pod : Pods, from : Nodes, to : Nodes]
Result == [nodesToFree : SUBSET Nodes, cost : Int, score : Int, moves : Seq(Move)]

ASSUME ClusterAssumption ==
  /\ IsFiniteSet(Pods) /\ IsFiniteSet(Nodes)
  /\ None \notin Nodes \cup Result \cup {"applied"}
  /\ Request \in [Resources -> [Pods -> Nat]]
  /\ Allocatable \in [Resources -> [Nodes -> Nat]]
  /\ Allowed \in [Pods -> SUBSET Nodes]
  /\ Scores \subseteq Int
  \* The controlling owner of a pod is one of its owners.
  /\ \A p \in Pods : /\ Pod[p].owners \in Seq(STRING)
                     /\ Pod[p].controller \in ToSet(Pod[p].owners) \cup {""}

ASSUME ConfigAssumption ==
  /\ CandidateSets \subseteq Seq(SUBSET Nodes)
  /\ Strategies \in Seq({"cpu_desc", "memory_desc", "random"})
  /\ {EmptyNodesWeight, CostWeight, AutoConsolidationThreshold} \subseteq Int

VARIABLES placement,   \* where the pods of the cluster are
          sets,        \* candidateNodesSets that are left
          snapshot,    \* the stack of placements
          baseline,    \* where the pods were, and which candidates were empty
          evicted,     \* evictedPods
          permutations, \* strategies that are left for this set
          unscheduled, \* the pods the simulation has not placed yet
          moves, cost, \* the simulation's
          finished,    \* history: results of the simulations that freed a node
          best,        \* bestSimulationResult
          outcome,     \* Outcome of the run summary
          pending,     \* the moves of the applied plan that are not done
          pc

simulation == <<snapshot, baseline, evicted, permutations, unscheduled, moves, cost>>
vars == <<placement, sets, simulation, finished, best, outcome, pending, pc>>

podsOn(n, where) == {p \in Pods : where[p] = n}
requested(resource, n, where) ==
  MapThenSumSet(LAMBDA p : Request[resource][p], podsOn(n, where))
fitsWithin(where) ==
  \A n \in Nodes, resource \in Resources :
    requested(resource, n, where) <= Allocatable[resource][n]

Init == /\ placement \in {w \in [Pods -> Nodes] : fitsWithin(w) /\ \A p \in Pods : w[p] \in Allowed[p]}
        /\ sets \in CandidateSets
        /\ snapshot = <<placement>>
        /\ baseline = [allocations |-> <<>>, empty |-> {}, candidates |-> {}]
        /\ evicted = {} /\ permutations = <<>>
        /\ unscheduled = <<>> /\ moves = <<>> /\ cost = 0
        /\ finished = {} /\ best = None
        /\ outcome = None /\ pending = {}
        /\ pc = "sets"

-----------------------------------------------------------------------------
origin == snapshot[1]
top == Last(snapshot)
Fork(stack) == Append(stack, Last(stack))

\* Variant: Revert is not reached.
RevertMissing(stack) == stack

Revert(stack) == Front(stack)

isConsideredEmpty(n, where) == \A p \in podsOn(n, where) : isResidualPod(Pod[p])
getEmptyNodes(ns, where) == {n \in ns : isConsideredEmpty(n, where)}

\* The orderings that a strategy may produce of pods that come in any order.
sortByRequestDesc(request, ps) ==
  {s \in SetToSeqs(ps) : \A i, j \in DOMAIN s : i < j => request[s[i]] >= request[s[j]]}

orderings(strategy, ps) ==
  CASE strategy = "cpu_desc" -> sortByRequestDesc(Request["cpu"], ps)
    [] strategy = "memory_desc" -> sortByRequestDesc(Request["memory"], ps)
    [] strategy = "random" -> SetToSeqs(ps)

createPodAllocationsMap(candidates) == [p \in {q \in Pods : top[q] \in candidates} |-> top[p]]

\* The pods that are taken off the candidates, and the placement without them.
virtuallyEvictPods(candidates) == {p \in Pods : top[p] \in candidates /\ isEvictable(Pod[p])}
UnschedulePods(ps) == [p \in Pods |-> IF p \in ps THEN None ELSE top[p]]

\* generatePermutations: no orderings of no pods.
generatePermutations(ps) == IF ps = {} THEN <<>> ELSE Strategies

\* A pod that cannot be unscheduled stays where it is, and is not scheduled again.
startCandidateSet ==
  /\ pc = "sets" /\ sets # <<>>
  /\ baseline' = [allocations |-> createPodAllocationsMap(Head(sets)), candidates |-> Head(sets),
                  empty |-> getEmptyNodes(Head(sets), top)]
  /\ \E stuck \in SUBSET virtuallyEvictPods(Head(sets)) :
       evicted' = virtuallyEvictPods(Head(sets)) \ stuck
  /\ snapshot' = Append(snapshot, UnschedulePods(evicted'))
  /\ permutations' = generatePermutations(evicted')
  /\ sets' = Tail(sets)
  /\ pc' = "permutations"
  /\ UNCHANGED <<placement, unscheduled, moves, cost, finished, best, outcome, pending>>

\* Run begins with the pods in the next order.
startRun ==
  /\ pc = "permutations" /\ permutations # <<>>
  /\ unscheduled' \in orderings(Head(permutations), evicted)
  /\ permutations' = Tail(permutations)
  /\ snapshot' = Fork(snapshot)
  /\ moves' = <<>> /\ cost' = 0
  /\ pc' = "run"
  /\ UNCHANGED <<placement, sets, baseline, evicted, finished, best, outcome, pending>>

-----------------------------------------------------------------------------
feasibleNodes(p) ==
  {n \in Allowed[p] : \A resource \in Resources :
     requested(resource, n, top) + Request[resource][p] <= Allocatable[resource][n]}

pickHighestScoreNode(score) ==
  {n \in DOMAIN score : \A o \in DOMAIN score : score[o] <= score[n]}

\* Variant: the pod is not added to the node that was chosen for it.
ForceAddPodForgotten(p, n) == top

ForceAddPod(p, n) == [top EXCEPT ![p] = n]

\* One pod is scheduled, and a move recorded if that is to another node.
scheduleNextPod ==
  /\ pc = "run" /\ unscheduled # <<>>
  /\ LET p == Head(unscheduled) IN
     \E score \in [feasibleNodes(p) -> Scores] : \E n \in pickHighestScoreNode(score) :
       /\ snapshot' = Append(Front(snapshot), ForceAddPod(p, n))
       /\ IF n = baseline.allocations[p] THEN UNCHANGED <<moves, cost>>
          ELSE /\ moves' = Append(moves, [pod |-> p, from |-> baseline.allocations[p], to |-> n])
               /\ cost' = cost + getPodMovementCost(Pod[p])
  /\ unscheduled' = Tail(unscheduled)
  /\ UNCHANGED <<placement, sets, baseline, evicted, permutations, finished, best,
                 outcome, pending, pc>>

\* No node is feasible, or a plugin fails, or the node infos cannot be had in the
\* end: the simulation is given up.
failRun ==
  /\ pc = "run"
  /\ snapshot' = Revert(snapshot)
  /\ unscheduled' = <<>>
  /\ pc' = "permutations"
  /\ UNCHANGED <<placement, sets, baseline, evicted, permutations, moves, cost,
                 finished, best, outcome, pending>>

\* Variant: the nodes as they were when their pods had just been evicted.
freshNodesStale == snapshot[2]

freshNodes == top

\* Variant: nodes that were empty before count.
nodesToFreeWithEmpty == getEmptyNodes(baseline.candidates, freshNodes)

nodesToFree == getEmptyNodes(baseline.candidates, freshNodes) \ baseline.empty

computePermutationScore(freed, c) == EmptyNodesWeight * freed - CostWeight * c

\* Variant: the number of nodes is compared.
isBetterByNodes(result, other) == Cardinality(result.nodesToFree) > Cardinality(other.nodesToFree)

isBetter(result, other) == result.score > other.score

\* All pods are placed: the result is compared with the best one so far.
finishRun ==
  /\ pc = "run" /\ unscheduled = <<>>
  /\ LET result == [nodesToFree |-> nodesToFree, cost |-> cost, moves |-> moves,
                    score |-> computePermutationScore(Cardinality(nodesToFree), cost)]
     IN  IF nodesToFree = {} THEN UNCHANGED <<finished, best>>
         ELSE /\ finished' = finished \cup {result}
              /\ best' = IF best = None \/ isBetter(result, best) THEN result ELSE best
  /\ snapshot' = Revert(snapshot)
  /\ pc' = "permutations"
  /\ UNCHANGED <<placement, sets, baseline, evicted, permutations, unscheduled,
                 moves, cost, outcome, pending>>

finishCandidateSet ==
  /\ pc = "permutations" /\ permutations = <<>>
  /\ snapshot' = Revert(snapshot)
  /\ pc' = "sets"
  /\ UNCHANGED <<placement, sets, baseline, evicted, permutations, unscheduled,
                 moves, cost, finished, best, outcome, pending>>

-----------------------------------------------------------------------------
isNotWorth(result) == result.score <= AutoConsolidationThreshold

runOutcome == CASE best = None -> "none"
                [] best # None /\ isNotWorth(best) -> "not-worth"
                [] best # None /\ ~isNotWorth(best) -> IF DryRun THEN "dry-run" ELSE "applied"

\* The best result is applied: those of its PodMoves that could be created are
\* carried out.
conclude ==
  /\ pc = "sets" /\ sets = <<>>
  /\ IF runOutcome # "applied" THEN outcome' = runOutcome /\ UNCHANGED pending
     ELSE /\ pending' \in SUBSET ToSet(best.moves)
          /\ outcome' = IF pending' = ToSet(best.moves) THEN "applied" ELSE "apply-failed"
  /\ pc' = "done"
  /\ UNCHANGED <<placement, sets, simulation, finished, best>>

\* The PodMoves of a plan are created together, and each is carried out by
\* itself: the pod is evicted, and its replacement is pinned to the target node.
Migrate ==
  \E move \in pending :
    /\ placement' = [placement EXCEPT ![move.pod] = move.to]
    /\ pending' = pending \ {move}
    /\ UNCHANGED <<sets, simulation, finished, best, outcome, pc>>

Next == \/ startCandidateSet \/ startRun \/ scheduleNextPod \/ failRun \/ finishRun
        \/ finishCandidateSet \/ conclude \/ Migrate

Spec == Init /\ [][Next]_vars

-----------------------------------------------------------------------------
PlannerTypeOK ==
  /\ placement \in [Pods -> Nodes]
  /\ snapshot \in Seq([Pods -> Nodes \cup {None}]) /\ Len(snapshot) \in 1..3
  /\ evicted \subseteq Pods /\ ToSet(unscheduled) \subseteq evicted
  /\ cost \in Int
  /\ finished \subseteq Result /\ best \in Result \cup {None}
  /\ outcome \in {None, "none", "not-worth", "dry-run", "applied", "apply-failed"}
  /\ pending \subseteq Move
  /\ pc \in {"sets", "permutations", "run", "done"}

\* "Each node set must start from a clean baseline" (main.go), and each simulation
\* from that set's evicted pods, whether the one before it failed or not.
StartsClean ==
  /\ pc = "sets" => snapshot = <<placement>>
  /\ pc = "permutations" =>
       /\ Len(snapshot) = 2 /\ Head(snapshot) = placement
       /\ top = [p \in Pods |-> IF p \in evicted THEN None ELSE placement[p]]

\* Each move is of a pod against whose eviction nothing speaks, whatever reason comes
\* first, from where it is to another node, and no pod is moved twice.
MovesAreReal ==
  best # None /\ pc # "done" =>
    LET m == best.moves IN
    /\ \A i \in DOMAIN m :
         LET pod == Pod[m[i].pod] IN
         /\ m[i].from = placement[m[i].pod] /\ m[i].to # m[i].from
         /\ pod.namespace \notin {"kube-system", PodtetrisNamespace}
         /\ ~completed(pod) /\ ~isFixed(pod)
         /\ pod.controller # "" /\ ToSet(pod.owners) \cap SkippedKinds = {}
    /\ \A i, j \in DOMAIN m : m[i].pod = m[j].pod => i = j

\* A node is in use by the pods that do not belong to the system or to podtetris,
\* save those that a controller runs for a DaemonSet, a Job or the node itself.  A
\* pod that has completed is in use of its node.
inUse(n, where) ==
  \E p \in podsOn(n, where) :
    /\ Pod[p].namespace \notin {"kube-system", PodtetrisNamespace}
    /\ \/ completed(Pod[p])
       \/ Pod[p].controller = "" \/ ToSet(Pod[p].owners) \cap SkippedKinds = {}

\* Once all moves of a plan are carried out, in whatever order, the nodes to free
\* are all those, candidates or not, that were in use before and are not any more:
\* none that was empty before, and none that other moves have filled.
PlanDelivers ==
  outcome = "applied" /\ pending = {} =>
    best.nodesToFree = {n \in Nodes : inUse(n, origin) /\ ~inUse(n, placement)}

\* While the moves are carried out, no node has more than it can hold but for the
\* pods that are still to leave it: with all moves done, none has.
OnlyLeaversOverfill ==
  outcome = "applied" =>
    fitsWithin([p \in Pods |-> IF \E m \in pending : m.pod = p THEN None ELSE placement[p]])

\* The plan that is chosen has the highest score of all simulations that freed a
\* node, and it is worth its moves: nothing is moved for a score that does not
\* exceed the threshold.
BestIsChosen ==
  pc = "done" =>
    /\ IF best = None THEN finished = {}
       ELSE best \in finished /\ \A r \in finished : r.score <= best.score
    /\ pending # {} => EmptyNodesWeight * Cardinality(best.nodesToFree)
                         > CostWeight * best.cost + AutoConsolidationThreshold

(***************************************************************************)
(* What holds in between                                                   *)
(***************************************************************************)
\* Where the pods are once moves of a simulation have been carried out.
moved(ms) ==
  [p \in Pods |-> IF \E m \in ms : m.pod = p THEN (CHOOSE m \in ms : m.pod = p).to ELSE origin[p]]

\* Moves from where the pods were to another node, at most one of each pod.
realMoves(ms) ==
  /\ ms \in Seq(Move)
  /\ \A i \in DOMAIN ms : /\ ms[i].from = origin[ms[i].pod] /\ ms[i].to # ms[i].from
                          /\ isEvictable(Pod[ms[i].pod])
  /\ \A i, j \in DOMAIN ms : ms[i].pod = ms[j].pod => i = j

\* The score of a result is its own, and its moves free what it says, and fit.
honest(result) ==
  /\ result \in Result
  /\ result.score = computePermutationScore(Cardinality(result.nodesToFree), result.cost)
  /\ realMoves(result.moves)
  /\ LET w == moved(ToSet(result.moves)) IN
     /\ result.nodesToFree = getEmptyNodes(Nodes, w) \ getEmptyNodes(Nodes, origin)
     /\ fitsWithin(w)

\* The pods are where they were until the plan is applied, and its moves are all
\* that it changes.
PlacementInv ==
  /\ snapshot \in Seq([Pods -> Nodes \cup {None}]) /\ Len(snapshot) \in 1..3
  /\ origin \in [Pods -> Nodes] /\ fitsWithin(origin)
  /\ placement \in [Pods -> Nodes]
  /\ pc # "done" => placement = origin /\ pending = {} /\ outcome = None
  /\ pc = "done" /\ best # None =>
       /\ pending \subseteq ToSet(best.moves)
       /\ outcome = "applied" => placement = moved(ToSet(best.moves) \ pending)
  /\ outcome \in {None, "none", "not-worth", "dry-run", "applied", "apply-failed"}
  /\ pc \in {"sets", "permutations", "run", "done"}

\* What a simulation starts from is what the evicted pods leave behind.
SnapshotInv ==
  /\ sets \in Seq(SUBSET Nodes) /\ cost \in Int
  /\ pc \in {"sets", "done"} => Len(snapshot) = 1 /\ unscheduled = <<>>
  /\ pc = "permutations" => Len(snapshot) = 2 /\ unscheduled = <<>>
  /\ pc = "run" => Len(snapshot) = 3
  /\ evicted \subseteq Pods
  /\ pc \in {"permutations", "run"} =>
       /\ permutations \in Seq({"cpu_desc", "memory_desc", "random"})
       /\ snapshot[2] = [p \in Pods |-> IF p \in evicted THEN None ELSE origin[p]]
       /\ baseline.candidates \subseteq Nodes
       /\ baseline.empty = getEmptyNodes(baseline.candidates, origin)
       /\ \A p \in evicted : origin[p] \in baseline.candidates /\ isEvictable(Pod[p])
       /\ \A p \in evicted : baseline.allocations[p] = origin[p]

\* The pods that a simulation has placed are where its moves take them, and they
\* fit; the others are nowhere.
SimulationInv ==
  pc = "run" =>
    /\ unscheduled \in Seq(evicted)
    /\ \A i, j \in DOMAIN unscheduled : unscheduled[i] = unscheduled[j] => i = j
    /\ realMoves(moves)
    /\ \A m \in ToSet(moves) : m.pod \in evicted \ ToSet(unscheduled)
    /\ \A p \in Pods : top[p] = IF p \in ToSet(unscheduled) THEN None ELSE moved(ToSet(moves))[p]
    /\ fitsWithin(top)

\* The best result is one of those found, none of which is better.
ResultsInv ==
  /\ \A r \in finished : honest(r)
  /\ IF best = None THEN finished = {}
     ELSE best \in finished /\ \A r \in finished : r.score <= best.score
  /\ pc = "done" /\ (pending # {} \/ outcome = "applied") => best # None /\ ~isNotWorth(best)

PlannerInv == PlacementInv /\ SnapshotInv /\ SimulationInv /\ ResultsInv

(***************************************************************************)
(* What comments and documents say and the code does not do                *)
(***************************************************************************)
\* "Freed nodes = empty(after) - empty(baseline)" (docs/algorithm-plantUML.puml),
\* "freedNodes is how many nodes this plan empties" (consolidationplan_types.go).
FreedNodesAreGained ==
  outcome = "applied" /\ pending = {} =>
    Cardinality(getEmptyNodes(Nodes, placement)) - Cardinality(getEmptyNodes(Nodes, Head(snapshot)))
      = Cardinality(best.nodesToFree)

\* Jobs' pods are "expected to remain on an otherwise empty node" (utils.go): a
\* candidate that a simulation leaves with none but Jobs' and DaemonSets' pods has
\* been freed.
JobsLeaveNodesEmpty ==
  pc = "run" /\ unscheduled = <<>> =>
    \A p \in evicted :
      LET n == baseline.allocations[p] IN
      (\A o \in podsOn(n, top) : Pod[o].controller \in {"Job", "DaemonSet"})
        => n \in nodesToFree

\* "The following Pods types are not evicted: ... Terminating Pods"
\* (docs/algorithm-plantUML.puml).
TerminatingPodsStay ==
  best # None => \A i \in DOMAIN best.moves : ~Pod[best.moves[i].pod].terminating

\* "Calculate the optimal temporal migration sequence", and move the pods one
\* after the other (docs/algorithm-plantUML.puml).
MigrationFits == outcome = "applied" => fitsWithin(placement)
=============================================================================
