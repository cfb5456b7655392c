-------------------------------- MODULE MCPlans --------------------------------
(* PlanReconciler for TLC: the sources s1 and s2 are on n1 and n3, plans    *)
(* move them to n2 and free their nodes.                                    *)
EXTENDS PlanReconciler, TLC

CONSTANTS pl1, pl2, s1, s2, p1, p2, n1, n2, n3

NodesOfSources == [s \in Sources |-> IF s = s1 THEN n1 ELSE n3]
Targets == [pl \in Plans |-> [s \in Sources |-> n2]]

\* The plans move one pod each, ...
OneMoveEach == [pl \in Plans |-> IF pl = pl1 THEN {s1} ELSE {s2}]

\* ... the second one also moves the pod of the first, ...
OverlappingMoves == [pl \in Plans |-> IF pl = pl1 THEN {s1} ELSE Sources]
OneNodeEach == [pl \in Plans |-> IF pl = pl1 THEN {n1} ELSE {n3}]

\* ... or all move the same ones.
AllMoves == [pl \in Plans |-> Sources]
AllNodes == [pl \in Plans |-> {NodesOfSources[s] : s \in Sources}]
=============================================================================
