----------------------------- MODULE PlannerRules -----------------------------
(***************************************************************************)
(* Which pods the planner may move, what a move costs, and which pods do   *)
(* not keep a node from being empty (src/src/planner/rules.go, utils.go).  *)
(*                                                                         *)
(* A pod is [name, namespace, phase, owners, controller, labels,           *)
(* terminating]; owners are the Kinds of its owner references, controller  *)
(* that of the controlling one, "" when there is none.  A compiled regular *)
(* expression and a label selector are the sets of names and labels they   *)
(* match, and Omitted stands for a field that is not set.                  *)
(***************************************************************************)
EXTENDS Integers, Sequences, SequencesExt

CONSTANTS FixedPodsRules,      \* the selectors of fixedPodsRules
          MoveCostRules,       \* the moveCostRules, [selector, cost]
          DefaultMoveCost,
          PodtetrisNamespace,
          Omitted

\* The costs are whole numbers (MoveCostRule).
ASSUME CostAssumption ==
  /\ DefaultMoveCost \in Int
  /\ Len(MoveCostRules) \in Nat
  /\ \A i \in 1..Len(MoveCostRules) : MoveCostRules[i].cost \in Int

matches(selector, pod) ==
  /\ selector.nameRegex = Omitted \/ pod.name \in selector.nameRegex
  /\ selector.namespaces = {} \/ pod.namespace \in selector.namespaces
  /\ selector.namespaceRegex = Omitted \/ pod.namespace \in selector.namespaceRegex
  /\ selector.kinds = {} \/ pod.controller \in selector.kinds
  /\ selector.labelSelector = Omitted \/ pod.labels \in selector.labelSelector

isFixed(pod) == \E i \in DOMAIN FixedPodsRules : matches(FixedPodsRules[i], pod)

\* The first rule that matches decides.
getPodMovementCost(pod) ==
  LET i == SelectInSeq(MoveCostRules, LAMBDA r : matches(r.selector, pod))
  IN  IF i = 0 THEN DefaultMoveCost ELSE MoveCostRules[i].cost

completed(pod) == pod.phase \in {"Succeeded", "Failed"}

\* The Kinds of owners whose pods stay on their nodes; their first decides.
SkippedKinds == {"DaemonSet", "Job", "Node"}
skippedOwner(pod) == SelectInSeq(pod.owners, LAMBDA kind : kind \in SkippedKinds)

\* Why a pod is not evicted: the first reason that holds.
evictionSkipReason(pod) ==
  LET checks == <<[reason |-> "SystemPods", holds |-> pod.namespace = "kube-system"],
                  [reason |-> "PodtetrisNamespace", holds |-> pod.namespace = PodtetrisNamespace],
                  [reason |-> "CompletedPods", holds |-> completed(pod)],
                  [reason |-> "NoController", holds |-> pod.controller = ""],
                  [reason |-> "SkippedOwner", holds |-> skippedOwner(pod) # 0],
                  [reason |-> "FixedPod", holds |-> isFixed(pod)],
                  [reason |-> "", holds |-> TRUE]>>
  IN  checks[SelectInSeq(checks, LAMBDA c : c.holds)].reason

\* Variant: the rules are not asked.
isEvictableUnlessKind(pod) == evictionSkipReason(pod) \in {"", "FixedPod"}

isEvictable(pod) == evictionSkipReason(pod) = ""

\* Variant: pods that have completed are residual too.
isResidualPodOnceCompleted(pod) ==
  evictionSkipReason(pod) \in {"SystemPods", "PodtetrisNamespace", "SkippedOwner", "CompletedPods"}

\* A pod that may remain on a node that is otherwise empty.
isResidualPod(pod) ==
  evictionSkipReason(pod) \in {"SystemPods", "PodtetrisNamespace", "SkippedOwner"}
=============================================================================
