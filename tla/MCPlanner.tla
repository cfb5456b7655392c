------------------------------- MODULE MCPlanner -------------------------------
(* Planner for TLC: three nodes with pods of each kind.                     *)
EXTENDS Planner, TLC

CONSTANTS n1, n2, n3, a, b, c, d, e, j, k, q, default, db

AnyPod == [name |-> "pod", namespace |-> default, phase |-> "Running", labels |-> {},
           owners |-> <<"ReplicaSet">>, controller |-> "ReplicaSet", terminating |-> FALSE]

\* Workloads a, b and e, a StatefulSet's c in the namespace db, and a DaemonSet's d.
WorkloadPods == a :> AnyPod @@ b :> [AnyPod EXCEPT !.name = "other"]
  @@ c :> [AnyPod EXCEPT !.namespace = db, !.owners = <<"StatefulSet">>, !.controller = "StatefulSet"]
  @@ e :> [AnyPod EXCEPT !.namespace = db]
  @@ d :> [AnyPod EXCEPT !.owners = <<"DaemonSet">>, !.controller = "DaemonSet"]

\* Pods with several reasons to stay: a finished pod of a Job, one of a ReplicaSet in
\* kube-system that has finished, and one that a DaemonSet owns and does not control.
FinishedJob == [AnyPod EXCEPT !.owners = <<"Job">>, !.controller = "Job", !.phase = "Succeeded"]
PodsWithReasons == (j :> FinishedJob) @@ WorkloadPods
  @@ k :> [AnyPod EXCEPT !.namespace = "kube-system", !.phase = "Failed"]
  @@ q :> [AnyPod EXCEPT !.owners = <<"DaemonSet">>, !.controller = ""]
PodsWithTerminating == [WorkloadPods EXCEPT ![a].terminating = TRUE]

Requests == [resource \in Resources |-> [p \in Pods |->
  (IF resource = "cpu"
   THEN a :> 1 @@ b :> 2 @@ c :> 2 @@ d :> 1 @@ e :> 4 @@ j :> 0 @@ k :> 1 @@ q :> 0
   ELSE a :> 2 @@ b :> 1 @@ c :> 1 @@ d :> 0 @@ e :> 1 @@ j :> 0 @@ k :> 0 @@ q :> 1)[p]]]

\* The nodes differ in what they have, or do not.
UnevenNodes == [resource \in Resources |->
  IF resource = "cpu" THEN n1 :> 5 @@ n2 :> 6 @@ n3 :> 9 ELSE n1 :> 4 @@ n2 :> 5 @@ n3 :> 6]
EvenNodes == [resource \in Resources |-> [n \in Nodes |-> 5]]

\* Where the pods that are not moved may be, as far as that is not everywhere.
Allowance == c :> {n1, n3} @@ d :> {n1} @@ j :> {n3} @@ k :> {n2} @@ q :> {n2, n3}
AllowedOn == [p \in Pods |-> IF p \in DOMAIN Allowance THEN Allowance[p] ELSE {n1, n2, n3}]

AnySelector == [nameRegex |-> Omitted, namespaces |-> {}, namespaceRegex |-> Omitted,
                kinds |-> {}, labelSelector |-> Omitted]

NoRules == <<>>
DatabasesFixed == <<[AnySelector EXCEPT !.kinds = {"StatefulSet"}, !.namespaces = {db}]>>
\* The first rule matches c and e, the second also a.
Costs == <<[selector |-> [AnySelector EXCEPT !.namespaceRegex = {db}], cost |-> 3],
           [selector |-> [AnySelector EXCEPT !.nameRegex = {"pod"}], cost |-> 1]>>

SomeSets == {<<{n1, n2}>>, <<{n1, n2, n3}>>, <<{n1}, {n2, n3}>>, <<{n2}, {n2}>>}
AllNodes == {<<{n1, n2, n3}>>}
\* The random orderings include those of the third strategy, memory_desc.
TwoStrategies == <<"cpu_desc", "random">>
AllStrategies == <<"cpu_desc", "memory_desc", "random">>
=============================================================================
