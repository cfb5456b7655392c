---------------------------- MODULE CandidateNodes ----------------------------
(***************************************************************************)
(* The planner chooses sets of candidate nodes (src/src/planner/nodes.go   *)
(* and main.go): in each of them the least used nodes by CPU, the least    *)
(* used of the rest by memory, and random ones, drawn again while all of   *)
(* the random ones have fixed pods.                                        *)
(*                                                                         *)
(* sort.Slice is not stable and its input comes from a Go set, so of nodes *)
(* that are used alike any may come first.  Errors of this stage end the   *)
(* run (log.Fatal): pc is then "fatal".                                    *)
(***************************************************************************)
EXTENDS CandidateCounts, Sequences, FiniteSetsExt

CONSTANTS Nodes,               \* nodes that may be in the cluster
          CPU, Memory,         \* what is requested of each node
          Configs              \* the configurations to consider

ASSUME SelectionAssumption == IsFiniteSet(Nodes) /\ Configs \subseteq CandidatesConfig

VARIABLES cfg,      \* the configuration
          nodes,    \* the worker nodes
          fixed,    \* those that have a fixed pod
          counts,   \* candidateNodesCounts
          sets,     \* the candidate sets created so far
          picked,   \* the nodes taken by CPU and memory for the next set
          attempt,  \* attemptNum
          pc

vars == <<cfg, nodes, fixed, counts, sets, picked, attempt, pc>>

Init == /\ cfg \in Configs
        /\ nodes \in SUBSET Nodes
        /\ fixed \in SUBSET nodes
        /\ counts = [byCPU |-> 0, byMemory |-> 0, random |-> 0]
        /\ sets = <<>> /\ picked = {} /\ attempt = 0
        /\ pc = "start"

-----------------------------------------------------------------------------
\* Variant: isFixed fails, and its error is ignored.
allContainFixedPodsUnknown(ns) == FALSE

\* Variant: what is asked holds of no nodes as well.
allContainFixedPodsIfAny(ns) == ns \subseteq fixed

allContainFixedPods(ns) == ns # {} /\ ns \subseteq fixed

\* The possible outcomes of sorting ns by use and taking the first k.
leastUsed(ns, use, k) ==
  {s \in kSubset(k, ns) : \A n \in s, o \in ns \ s : use[n] <= use[o]}

\* Variant: nodes that were taken by CPU can be taken by memory again.
leftByCPUAll(byCPU) == nodes

\* allNodes.Delete(leastUsedByCPU...)
leftByCPU(byCPU) == nodes \ byCPU

getRandomNodes == kSubset(counts.random, nodes \ picked)

\* Without random nodes, or when every node is a candidate, one set is enough.
setsToCreate ==
  IF cfg.random = 0 \/ Total(counts) = Cardinality(nodes) THEN 1 ELSE cfg.setsToCreate

\* Variant: draws are not counted.
nextAttemptUncounted == attempt

nextAttempt == attempt + 1

-----------------------------------------------------------------------------
\* The configuration is checked and the counts are computed.
Resolve ==
  /\ pc = "start"
  /\ IF validateConfig(cfg) /\ Cardinality(nodes) >= 2
     THEN /\ counts' = resolveCandidateNodesCounts(Cardinality(nodes), cfg)
          /\ pc' = "select"
     ELSE pc' = "fatal" /\ UNCHANGED counts
  /\ UNCHANGED <<cfg, nodes, fixed, sets, picked, attempt>>

\* selectCandidateNodes begins: the nodes by CPU and by memory.
selectLeastUsed ==
  /\ pc = "select" /\ Len(sets) < setsToCreate
  /\ IF Cardinality(nodes) < Total(counts) \/ allContainFixedPods(nodes)
     THEN pc' = "fatal" /\ UNCHANGED <<picked, attempt>>
     ELSE \E byCPU \in leastUsed(nodes, CPU, counts.byCPU) :
          \E byMemory \in leastUsed(leftByCPU(byCPU), Memory, counts.byMemory) :
            /\ picked' = byCPU \cup byMemory
            /\ attempt' = 0
            /\ pc' = "draw"
  /\ UNCHANGED <<cfg, nodes, fixed, counts, sets>>

\* One round of its loop: a draw of random nodes, and the set if they will do.
drawRandomNodes ==
  /\ pc = "draw"
  /\ \E random \in getRandomNodes :
       IF allContainFixedPods(random)
       THEN /\ attempt' = nextAttempt
            /\ pc' = IF attempt' >= cfg.selectionMaxRetries THEN "fatal" ELSE "draw"
            /\ UNCHANGED <<sets, picked>>
       ELSE /\ sets' = Append(sets, picked \cup random)
            /\ picked' = {} /\ attempt' = 0
            /\ pc' = "select"
  /\ UNCHANGED <<cfg, nodes, fixed, counts>>

\* There is no room to be made for less than no sets: a panic.
createdAllSets ==
  /\ pc = "select" /\ Len(sets) >= setsToCreate
  /\ pc' = IF setsToCreate < 0 THEN "fatal" ELSE "done"
  /\ UNCHANGED <<cfg, nodes, fixed, counts, sets, picked, attempt>>

Next == Resolve \/ selectLeastUsed \/ drawRandomNodes \/ createdAllSets

Spec == Init /\ [][Next]_vars

\* The planner is a program that runs.
FairSpec == Spec /\ WF_vars(Next)

-----------------------------------------------------------------------------
CandidatesTypeOK ==
  /\ cfg \in Configs /\ nodes \subseteq Nodes /\ fixed \subseteq nodes
  /\ counts \in CandidateNodesCounts
  /\ sets \in Seq(SUBSET nodes) /\ Len(sets) <= Larger(1, cfg.setsToCreate)
  /\ picked \subseteq nodes
  /\ attempt \in 0..Larger(1, cfg.selectionMaxRetries)
  /\ pc \in {"start", "select", "draw", "done", "fatal"}

\* "The counts always sum to the total, and random always gets at least one node
\* when its percentage is non-zero" (nodes.go); a strategy whose percentage is
\* zero gets none, and the nodes of the cluster suffice, so selection never fails
\* for want of nodes.
SharesFit ==
  pc \notin {"start", "fatal"} =>
    /\ Total(counts) = resolveTotal(Cardinality(nodes), cfg)
    /\ Total(counts) \in 1..Cardinality(nodes)
    /\ counts.random = 0 <=> cfg.random = 0
    /\ cfg.byCPU = 0 => counts.byCPU = 0
    /\ cfg.byMemory = 0 => counts.byMemory = 0

\* The strategies never take the same node twice, so every candidate set has the
\* number of nodes that was asked for.
SetsAreWhole == \A i \in DOMAIN sets : Cardinality(sets[i]) = Total(counts)

\* A set that has random nodes has a node without fixed pods: there is something
\* to free in it.
RandomSetsCanBeFreed ==
  counts.random > 0 => \A i \in DOMAIN sets : sets[i] \ fixed # {}

\* The selection fails for nothing but a configuration that is refused or cannot be
\* met, a cluster without a node that has no fixed pods, or draws that were made as
\* often as allowed from enough nodes with fixed pods: never for want of nodes, and
\* never when no random nodes were asked for and none are drawn.
SelectionFailsForAReason ==
  pc = "fatal" =>
    \/ ~validateConfig(cfg) \/ Cardinality(nodes) < 2 \/ setsToCreate < 0
    \/ nodes = fixed
    \/ /\ counts.random \in 1..Cardinality(fixed \ picked)
       /\ attempt = Larger(1, cfg.selectionMaxRetries)

\* The draws end, also when none of them can do.
SelectionEnds == <>(pc \in {"done", "fatal"})

(***************************************************************************)
(* What a comment says and the code does not do                            *)
(***************************************************************************)
\* "byCPU and byMemory are rounded down and random gets the remainder"
\* (config.yaml).
SharesRoundedDown ==
  pc \notin {"start", "fatal"} =>
    /\ counts.byCPU = (Total(counts) * cfg.byCPU) \div 100
    /\ counts.byMemory = (Total(counts) * cfg.byMemory) \div 100

\* "Each set must include at least one Node with no user-fixed Pods"
\* (docs/algorithm-plantUML.puml).
SetsCanBeFreed == \A i \in DOMAIN sets : sets[i] \ fixed # {}

\* "setsToCreate is how many distinct candidate node sets to evaluate"
\* (config.yaml).
SetsAreDistinct == \A i, j \in DOMAIN sets : sets[i] = sets[j] => i = j

\* If there is a node with no user-fixed pods, the sets are created
\* (docs/algorithm-plantUML.puml).
SelectionSucceeds ==
  pc = "fatal" => ~validateConfig(cfg) \/ Cardinality(nodes) < 2 \/ nodes = fixed
=============================================================================
