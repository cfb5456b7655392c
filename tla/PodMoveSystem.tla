---------------------------- MODULE PodMoveSystem ----------------------------
(***************************************************************************)
(* The evictor and the webhook at work on the PodMoves of a cluster: their *)
(* steps interleave, and they meet only in the API server.                 *)
(***************************************************************************)
EXTENDS Evictor, Webhook

vars == <<clusterVars, evictorVars, webhookVars>>

Init == ClusterInit /\ EvictorInit /\ WebhookInit

Next == \/ ClusterNext /\ UNCHANGED <<evictorVars, webhookVars>>
        \/ EvictorNext /\ UNCHANGED webhookVars
        \/ WebhookNext /\ UNCHANGED evictorVars

Spec == Init /\ [][Next]_vars

\* What the evictor's runtime guarantees.  The informers deliver, API calls
\* return, and the work queue is first in, first out: a queued PodMove is
\* taken, also when others are taken in between.  RequeueAfter is computed from
\* the end of the wait, so a PodMove that keeps coming back comes back at last
\* when the wait is over.  Nothing is assumed of the webhook, of the pods'
\* controllers or of the kubelets, and nothing of how a call is answered.
EvictorFairness ==
  /\ \A m \in Moves : SF_vars(Reconcile(m, TRUE) /\ UNCHANGED webhookVars)
  /\ SF_vars(EvictPod(TRUE) /\ UNCHANGED webhookVars)
  /\ WF_vars((writeStatus \/ finishReconcile) /\ UNCHANGED webhookVars)
  /\ WF_vars(SyncMoves /\ UNCHANGED webhookVars)
  /\ WF_vars(SyncPods /\ UNCHANGED webhookVars)

FairSpec == Spec /\ EvictorFairness

-----------------------------------------------------------------------------
(***************************************************************************)
(* Safety                                                                  *)
(***************************************************************************)
\* Every variable holds a value of its type.
TypeOK == ClusterTypeOK /\ EvictorTypeOK /\ WebhookTypeOK

Ended(m) == IsTerminal(status[m].conds)

SourceGone(m) == pods[Source[m]].st \in {"terminating", "gone"}

\* Requests that overlap, replicas with old caches and retried claims never pin
\* two pods to one PodMove (claimReplacement, webhook/podmove.go).
PinnedOnce == \A p, q \in Pods : pods[p].label # None /\ pods[p].label = pods[q].label => p = q

\* A claim and the evictor's verdict that no claim is coming exclude each other,
\* however the claim timeout, the disappearance of the source pod and the
\* requests in flight fall: a pod is never pinned to a PodMove that was given up
\* for want of one.
ClaimBeatsTimeout ==
  \A m \in Moves : status[m].reason \in {"PodNotFound", "ReplacementNotClaimed"} =>
                     /\ "ReplacementClaimed" \notin status[m].conds
                     /\ \A p \in Pods : pods[p].label # m

\* Neither side acts on an eviction that did not happen: a PodMove is marked
\* SourceEvicted, and a replacement is taken for it, only when the very pod of
\* its podRef is on its way out, whichever pod has its name by then.
EvictedMeansGone ==
  \A m \in Moves : status[m].conds \cap {"SourceEvicted", "ReplacementClaimed"} # {} => SourceGone(m)

\* A PodMove that succeeded has moved its workload: the source pod is gone, and
\* a pod pinned to the target node got beyond Pending.
SucceededMeansMoved ==
  \A m \in Moves : "ReplacementSucceeded" \in status[m].conds =>
    /\ SourceGone(m)
    /\ \E p \in Pods : /\ pods[p].label = m
                       /\ pods[p].node = TargetNode[m]
                       /\ pods[p].phase # "Pending"

\* The phase is the one the conditions derive, or the one they derived before
\* the webhook's claim, which does not touch the phase; there is none before the
\* first condition.
PhaseLagsOnlyTheClaim ==
  \A m \in Moves :
    \/ status[m].conds = {} /\ status[m].phase = NoPhase
    \/ status[m].phase = DerivePhase(status[m].conds)
    \/ /\ "ReplacementClaimed" \in status[m].conds
       /\ status[m].phase = DerivePhase(status[m].conds \ {"ReplacementClaimed"})

(***************************************************************************)
(* What a step may never do                                                *)
(***************************************************************************)
\* A PodMove that has ended is never written again: not by a reconcile that
\* read it before, not by the deferred update, not by a claim in flight.
TerminalIsFinal == [][\A m \in Moves : Ended(m) => status'[m] = status[m]]_vars

\* The order of the conditions and the reasons to fail are those of
\* PodMoveLifecycle, whoever writes them.
Lifecycle == INSTANCE PodMoveLifecycle
               WITH conds  <- [m \in Moves |-> status[m].conds],
                    reason <- [m \in Moves |-> status[m].reason],
                    exists <- live
LifecycleSpec == Lifecycle!Spec

(***************************************************************************)
(* Liveness                                                                *)
(***************************************************************************)
\* Every PodMove that is not deleted succeeds or fails, whatever pods, webhooks
\* and the eviction API do (the attempts and timeouts of the reconciler).
EveryMoveEnds == \A m \in Moves : <>(m \notin live \/ Ended(m))

\* The phase that kubectl shows agrees in the end with the conditions.
PhaseConverges == \A m \in Moves : <>[](m \in live => status[m].phase = DerivePhase(status[m].conds))

(***************************************************************************)
(* What a comment says and the code does not do                            *)
(***************************************************************************)
\* "a webhook that claimed first still gets SourceEvicted set (and eviction
\* retried) until the eviction API succeeds" (podmove_controller.go): a claimed
\* PodMove is marked SourceEvicted, unless it fails or is deleted.
ClaimedGetsEvicted ==
  \A m \in Moves : "ReplacementClaimed" \in status[m].conds
                   ~> ("SourceEvicted" \in status[m].conds \/ Ended(m) \/ m \notin live)

\* "podRef identifies the specific pod instance to move" (podmove_types.go): the
\* evictor evicts that pod and no other.
EvictsOnlyTheSource ==
  [][rec.pc = "evict" /\ rec'.pc # "evict" =>
       \A p \in Pods : pods'[p] # pods[p] => p = Source[rec.move]]_vars

\* "the PodMove completed even if the replacement later fails"
\* (podmove_replacement.go): a replacement that counts as success has run.
SucceededHasRun ==
  \A m \in Moves : "ReplacementSucceeded" \in status[m].conds =>
    \E p \in Pods : pods[p].label = m /\ pods[p].phase = "Running"

\* "MaxEvictionAttempts is how many times eviction may fail before the PodMove is
\* marked Failed" (podmove_types.go).
EvictionAttemptsBounded ==
  \A m \in Moves : status[m].evictionAttempts <= MaxEvictionAttempts
=============================================================================
