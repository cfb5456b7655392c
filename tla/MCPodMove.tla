------------------------------ MODULE MCPodMove ------------------------------
(* PodMoveSystem for TLC: pods, moves and nodes are model values, and s1 is *)
(* the source pod of the move m1.                                           *)
EXTENDS PodMoveInvariants, TLC

CONSTANTS m1, s1, p1, p2, n1, n2, h1, h2, rs, sts

SourceOfMoves == m1 :> s1
TargetOfMoves == m1 :> n2

\* Either all pods are a ReplicaSet's, or they are a StatefulSet's.
OfReplicaSet == [p \in Pods |-> rs]
OfStatefulSet == [p \in Pods |-> sts]

HooksAndReplacements == Permutations(Pods \ Sources) \cup Permutations(Hooks)
=============================================================================
