------------------------------- MODULE Cluster -------------------------------
(***************************************************************************)
(* What the evictor and the webhook share: the Kubernetes API server's     *)
(* PodMoves and pods, and what the rest of the cluster does to them.       *)
(*                                                                         *)
(* This part is external to the repository (charts/ installs it on a       *)
(* cluster); it is modelled from how src/src/evictor and src/src/webhook   *)
(* use it.                                                                 *)
(*                                                                         *)
(* A PodMove's resourceVersion is represented by its status: every write   *)
(* that changes a PodMove adds a condition, advances a counter or brings   *)
(* the phase up to date, so a status never comes back once it has changed  *)
(* and "the resourceVersion I read is still the current one" is "the       *)
(* status I read is still the current one".                                *)
(***************************************************************************)
EXTENDS PodMoveApi, FiniteSets

CONSTANTS Moves,         \* PodMoves of one or more plans
          Pods,          \* pod UIDs, those of replacements included
          Owners,        \* controllers (ReplicaSets, StatefulSets) of the pods
          StatefulSets,  \* the owners whose pods get their old name back
          Nodes,
          None,
          Source,        \* Source[m]: spec.podRef, the pod that is moved
          TargetNode,    \* TargetNode[m]: spec.targetNode
          OwnerOf,       \* OwnerOf[p]: the controller of pod p
          Cancellable    \* bound: the PodMoves that may be deleted

ASSUME SetsAssumption == /\ None \notin Moves \cup Pods \cup Nodes
                         /\ StatefulSets \subseteq Owners
                         /\ Cancellable \subseteq Moves
ASSUME SourceAssumption == /\ Source \in [Moves -> Pods]
                           /\ \A m1, m2 \in Moves : Source[m1] = Source[m2] => m1 = m2
ASSUME TargetAssumption == TargetNode \in [Moves -> Nodes]
ASSUME OwnerAssumption == OwnerOf \in [Pods -> Owners]

VARIABLES status,  \* status[m]: the status subresource of PodMove m
          live,    \* the PodMoves that exist; a deleted one keeps its last status
          pods     \* pods[p]: the pod with UID p

clusterVars == <<status, live, pods>>

\* st is "absent" before the pod is persisted, "terminating" once it has a
\* deletionTimestamp and "gone" once it is removed; name is the pod whose
\* metadata.name it bears; label is the value of podtetris.io/podmove.  Phase
\* "Failed" is that of a pod that failed before it ever ran; one that ends after
\* it ran stays "Running", for the code treats Running, Succeeded and Failed
\* alike.
PodState == [st    : {"absent", "live", "terminating", "gone"},
             name  : Pods,
             label : Moves \cup {None},
             node  : Nodes \cup {None},
             phase : {"Pending", "Running", "Failed"}]

ClusterTypeOK == /\ status \in [Moves -> PodMoveStatus]
                 /\ live \subseteq Moves
                 /\ pods \in [Pods -> PodState]

Sources == {Source[m] : m \in Moves}

\* The planner has created the PodMoves and their source pods are running.
ClusterInit ==
  /\ status = [m \in Moves |-> NewPodMove]
  /\ live = Moves
  /\ pods = [p \in Pods |->
               [st    |-> IF p \in Sources THEN "live" ELSE "absent",
                name  |-> p,
                label |-> None,
                node  |-> None,
                phase |-> IF p \in Sources THEN "Running" ELSE "Pending"]]

-----------------------------------------------------------------------------
\* The pods that a read of the pods ps finds under a name: those that are
\* persisted and not yet removed.  There is at most one.
Named(ps, name) ==
  {p \in Pods : ps[p].name = name /\ ps[p].st \in {"live", "terminating"}}

\* The pod a CREATE persists.  The scheduler's choice of a node for a pod that
\* is not pinned is never looked at, so it is left out (None).
NewPod(name, m) ==
  [st    |-> "live",
   name  |-> name,
   label |-> m,
   node  |-> IF m = None THEN None ELSE TargetNode[m],
   phase |-> "Pending"]

\* A user, a node drain or a scale-down deletes a pod; the kubelet has stopped
\* a terminating pod and it is removed.  A pod that is not labelled and has no
\* name that a podRef has is never looked at.
DeletePod(p) ==
  /\ pods[p].st = "live"
  /\ pods[p].label # None \/ pods[p].name \in Sources
  /\ pods' = [pods EXCEPT ![p].st = "terminating"]
  /\ UNCHANGED <<status, live>>

RemovePod(p) ==
  /\ pods[p].st = "terminating"
  /\ pods' = [pods EXCEPT ![p].st = "gone"]
  /\ UNCHANGED <<status, live>>

\* The kubelet runs a pod, or the pod fails before: a pod that is pinned by
\* nodeName bypasses the scheduler, and the kubelet rejects it when it does not
\* fit.  Only the phases of labelled pods are read.
RunPod(p) ==
  /\ pods[p].st = "live" /\ pods[p].label # None /\ pods[p].phase = "Pending"
  /\ pods' = [pods EXCEPT ![p].phase = "Running"]
  /\ UNCHANGED <<status, live>>

FailPod(p) ==
  /\ pods[p].st = "live" /\ pods[p].label # None /\ pods[p].phase = "Pending"
  /\ pods' = [pods EXCEPT ![p].phase = "Failed"]
  /\ UNCHANGED <<status, live>>

\* The PodMove is deleted: its plan was cancelled or garbage collected.
CancelMove(m) ==
  /\ m \in live \cap Cancellable
  /\ live' = live \ {m}
  /\ UNCHANGED <<status, pods>>

ClusterNext == \/ \E p \in Pods : DeletePod(p) \/ RemovePod(p) \/ RunPod(p) \/ FailPod(p)
               \/ \E m \in Moves : CancelMove(m)
=============================================================================
