-------------------------- MODULE ConsolidationPlans --------------------------
(***************************************************************************)
(* ConsolidationPlans and their PodMoves in the API server, the runs of    *)
(* the planner that create them (src/src/planner/consolidation.go and the  *)
(* end of main.go), the garbage collector, and the pods of the cluster.    *)
(*                                                                         *)
(* Each plan is the outcome of a planner run of its own; runs may overlap  *)
(* when they are started by hand (charts/podtetris/values.yaml).  A        *)
(* PodMove is named after the source pod and its UID: moves[s] is the one  *)
(* PodMove that can exist for the pod s.  What a PodMove does to the pods  *)
(* is reduced to what a plan sees of it; PodMoveSystem has the rest.       *)
(***************************************************************************)
EXTENDS Naturals, FiniteSets

CONSTANTS Plans, Nodes, None,
          Sources,      \* pods that may be moved,
          SourceNode,   \*   and where they are
          NewPods,      \* pods that may be created: replacements and others
          MovesOf,      \* the pods that each plan moves,
          TargetNode,   \*   and where to
          NodesToFree,
          MaxErrors     \* bound: errors of the API server

ASSUME PlansAssumption == /\ MovesOf \in [Plans -> SUBSET Sources]
                          /\ NodesToFree \in [Plans -> SUBSET Nodes]
                          /\ SourceNode \in [Sources -> Nodes]
                          /\ TargetNode \in [Plans -> [Sources -> Nodes]]
                          /\ None \notin Plans \cup Nodes \cup {"applied", "apply-failed"}
                          /\ Sources \cap NewPods = {}
                          /\ MaxErrors \in Nat

VARIABLES planner,   \* the planner runs
          plans,     \* the ConsolidationPlans that exist,
          made,      \*   and history: those that ever did
          moves,     \* the PodMoves
          ordered,   \* history: the plans that a PodMove of each pod was created for
          pods,
          errors     \* errors so far

planVars == <<planner, plans, made, moves, ordered>>

Pods == Sources \cup NewPods

RunState == [pc      : {"idle", "chosen", "apply", "done", "killed"},
             todo    : SUBSET Sources,
             failed  : BOOLEAN,
             outcome : {None, "applied", "apply-failed"}]

\* plan is the label of the PodMove and owner its controller reference.  replaced:
\* a replacement has claimed it.
MoveState == [plan : Plans \cup {None}, owner : Plans \cup {None},
              replaced : BOOLEAN, ended : BOOLEAN]
NoMove == [plan |-> None, owner |-> None, replaced |-> FALSE, ended |-> FALSE]

\* labelled: with podtetris.io/podmove.  newer: the plans whose CreationTimestamp
\* is before the pod's.
PodState == [exists : BOOLEAN, node : Nodes \cup {None}, labelled : BOOLEAN,
             newer : SUBSET Plans]
NoPod == [exists |-> FALSE, node |-> None, labelled |-> FALSE, newer |-> {}]
NewPod(node, labelled, newer) ==
  [exists |-> TRUE, node |-> node, labelled |-> labelled, newer |-> newer]

PlansTypeOK == /\ planner \in [Plans -> RunState]
               /\ plans \subseteq made /\ made \subseteq Plans
               /\ moves \in [Sources -> MoveState]
               /\ ordered \in [Sources -> SUBSET Plans]
               /\ pods \in [Pods -> PodState]
               /\ errors \in 0..MaxErrors

PlansInit ==
  /\ planner = [pl \in Plans |->
                  [pc |-> "idle", todo |-> {}, failed |-> FALSE, outcome |-> None]]
  /\ plans = {} /\ made = {}
  /\ moves = [s \in Sources |-> NoMove]
  /\ ordered = [s \in Sources |-> {}]
  /\ pods = [p \in Pods |-> IF p \in Sources THEN NewPod(SourceNode[p], FALSE, {}) ELSE NoPod]
  /\ errors = 0

mayFail == errors < MaxErrors /\ errors' = errors + 1

-----------------------------------------------------------------------------
\* The planner has seen the pods it moves, and has chosen the plan.
choosePlan(pl) ==
  /\ planner[pl].pc = "idle"
  /\ \A s \in MovesOf[pl] : pods[s].exists
  /\ planner' = [planner EXCEPT ![pl].pc = "chosen"]
  /\ UNCHANGED <<plans, made, moves, ordered, pods, errors>>

\* The ConsolidationPlan is created.  When that fails the run ends, although the
\* plan may exist: the answer of the API server can be lost.
createConsolidationPlan(pl) ==
  /\ planner[pl].pc = "chosen"
  /\ \/ /\ plans' = plans \cup {pl}
        /\ planner' = [planner EXCEPT ![pl].pc = "apply", ![pl].todo = MovesOf[pl]]
        /\ UNCHANGED errors
     \/ /\ mayFail
        /\ plans' \in {plans, plans \cup {pl}}
        /\ planner' = [planner EXCEPT ![pl].pc = "done", ![pl].outcome = "apply-failed"]
  /\ made' = made \cup plans'
  /\ UNCHANGED <<moves, ordered, pods>>

\* Variant: the PodMove is created without SetControllerReference.
newPodMoveUnowned(pl) == [plan |-> pl, owner |-> None, replaced |-> FALSE, ended |-> FALSE]

newPodMove(pl) == [plan |-> pl, owner |-> pl, replaced |-> FALSE, ended |-> FALSE]

\* The PodMove of one pod.  One that exists counts as created, whosever it is; one
\* whose creation fails may exist nevertheless.
createPodMoveCRD(pl, s) ==
  /\ planner[pl].pc = "apply" /\ s \in planner[pl].todo
  /\ LET create == IF moves[s] = NoMove
                   THEN /\ moves' = [moves EXCEPT ![s] = newPodMove(pl)]
                        /\ ordered' = [ordered EXCEPT ![s] = @ \cup {pl}]
                   ELSE UNCHANGED <<moves, ordered>>
     IN  \/ /\ create
            /\ planner' = [planner EXCEPT ![pl].todo = @ \ {s}]
            /\ UNCHANGED errors
         \/ /\ mayFail
            /\ create \/ UNCHANGED <<moves, ordered>>
            /\ planner' = [planner EXCEPT ![pl].todo = @ \ {s}, ![pl].failed = TRUE]
  /\ UNCHANGED <<plans, made, pods>>

\* Variant: the failed moves are not looked at.
outcomeOfPlan(run) == "applied"

outcomeOf(run) == IF run.failed THEN "apply-failed" ELSE "applied"

\* Variant: the loop may end before all PodMoves are created.
finishApplyEarly(pl) ==
  /\ planner[pl].pc = "apply"
  /\ planner' = [planner EXCEPT ![pl].pc = "done", ![pl].outcome = outcomeOf(planner[pl])]
  /\ UNCHANGED <<plans, made, moves, ordered, pods, errors>>

finishApply(pl) ==
  /\ planner[pl].pc = "apply" /\ planner[pl].todo = {}
  /\ planner' = [planner EXCEPT ![pl].pc = "done", ![pl].outcome = outcomeOf(planner[pl])]
  /\ UNCHANGED <<plans, made, moves, ordered, pods, errors>>

\* The planner's Job has a deadline (activeDeadlineSeconds) and is not retried.
killPlanner(pl) ==
  /\ planner[pl].pc \in {"chosen", "apply"}
  /\ planner' = [planner EXCEPT ![pl].pc = "killed", ![pl].todo = {}]
  /\ UNCHANGED <<plans, made, moves, ordered, pods, errors>>

\* PodMoves whose plan is gone are deleted, also those it did not live to see.
collectGarbage(s) ==
  /\ moves[s].owner \in Plans \ plans
  /\ moves' = [moves EXCEPT ![s] = NoMove]
  /\ UNCHANGED <<planner, plans, made, ordered, pods, errors>>

-----------------------------------------------------------------------------
\* A PodMove is carried out: its source pod goes, and one replacement is created with
\* the label and pinned to the target node.  Timestamps have seconds: a pod need not be
\* newer than the plans that were created in the same one.
evictSource(s) ==
  /\ moves[s] # NoMove /\ ~moves[s].ended /\ pods[s].exists
  /\ pods' = [pods EXCEPT ![s] = NoPod]
  /\ UNCHANGED <<planVars, errors>>

createReplacement(s) ==
  /\ moves[s] # NoMove /\ ~moves[s].ended /\ ~moves[s].replaced /\ ~pods[s].exists
  /\ \E p \in NewPods, newer \in SUBSET made :
       /\ ~pods[p].exists
       /\ pods' = [pods EXCEPT ![p] = NewPod(TargetNode[moves[s].plan][s], TRUE, newer)]
  /\ moves' = [moves EXCEPT ![s].replaced = TRUE]
  /\ UNCHANGED <<planner, plans, made, ordered, errors>>

\* It may fail at any time; when it succeeds its replacement is beyond Pending.
endMove(s) ==
  /\ moves[s] # NoMove /\ ~moves[s].ended
  /\ moves' = [moves EXCEPT ![s].ended = TRUE]
  /\ UNCHANGED <<planner, plans, made, ordered, pods, errors>>

\* Other pods are created, pinned to a node or not.
createPod(p, n) ==
  /\ p \in NewPods /\ ~pods[p].exists
  /\ \E newer \in SUBSET made : pods' = [pods EXCEPT ![p] = NewPod(n, FALSE, newer)]
  /\ UNCHANGED <<planVars, errors>>

bindPod(p, n) ==
  /\ pods[p].exists /\ pods[p].node = None
  /\ pods' = [pods EXCEPT ![p].node = n]
  /\ UNCHANGED <<planVars, errors>>
=============================================================================
