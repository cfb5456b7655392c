-------------------------- MODULE PodMoveInvariants --------------------------
(***************************************************************************)
(* The inductive invariant of PodMoveSystem: what holds of every copy of a *)
(* status that the evictor and the webhook keep, of the writes that are    *)
(* computed from them, and of the claims.                                  *)
(***************************************************************************)
EXTENDS PodMoveSystem

Over(s) == s.conds \cap {"Failed", "ReplacementSucceeded"} # {}

\* The conditions of a status fit together, and its reason fits them.
Sound(s) ==
  /\ s.conds # {} => "SourceEvicting" \in s.conds
  /\ "ReplacementBound" \in s.conds => {"SourceEvicted", "ReplacementClaimed"} \subseteq s.conds
  /\ "ReplacementSucceeded" \in s.conds => "ReplacementBound" \in s.conds /\ "Failed" \notin s.conds
  /\ s.reason # NoReason <=> "Failed" \in s.conds
  /\ s.reason \in {"PodNotFound", "ReplacementNotClaimed"} => "ReplacementClaimed" \notin s.conds

\* Its phase is behind by a claim at most.
PhaseLags(s) ==
  \/ s.conds = {} /\ s.phase = NoPhase
  \/ s.phase = DerivePhase(s.conds)
  \/ /\ "ReplacementClaimed" \in s.conds
     /\ s.phase = DerivePhase(s.conds \ {"ReplacementClaimed"})

StatusOK(s) == Sound(s) /\ PhaseLags(s)

\* A write of the status n over the status b is a step of the lifecycle.
Step(b, n) ==
  \/ n.conds = b.conds /\ n.reason = b.reason
  \/ /\ ~Over(b)
     /\ \/ \E c \in (Conditions \ {"Failed"}) \ b.conds :
             /\ Lifecycle!Needs(c) \subseteq b.conds
             /\ n.conds = b.conds \cup {c} /\ n.reason = b.reason
        \/ \E r \in Reasons :
             /\ "SourceEvicting" \in b.conds /\ Lifecycle!MayFail(b.conds, r)
             /\ n.conds = b.conds \cup {"Failed"} /\ n.reason = r

\* A step of the system makes one correct write at most, and none to a PodMove
\* that is over, or deletes a PodMove.
Writes(m, n) ==
  /\ m \in live /\ live' = live
  /\ status' = [status EXCEPT ![m] = n]
  /\ StatusOK(n) /\ Step(status[m], n)
  /\ Over(status[m]) => n = status[m]

StatusStep ==
  \/ /\ UNCHANGED status
     /\ live' = live \/ \E m \in live : live' = live \ {m}
  \/ \E m \in Moves, n \in PodMoveStatus : Writes(m, n)

\* The source pod of a PodMove with this status is being evicted.
Evicting(s) == "SourceEvicting" \in s.conds /\ "SourceEvicted" \notin s.conds /\ ~Over(s)

Same(s, t) == s.conds = t.conds /\ s.reason = t.reason

\* The reconcile r writes what is legal over the status it has read, and nothing
\* new once that is over.
RecOK(r) ==
  /\ StatusOK(r.base)
  /\ Step(r.base, r.pm)
  /\ Over(r.base) => SyncPhase(r.pm) = r.base
  /\ r.pc = "evict" => Same(r.pm, r.base) /\ Evicting(r.pm)
  /\ r.pc = "write" /\ r.then = "evict" => Evicting(r.pm)
  /\ r.pc = "write" /\ r.then \in Reasons =>
       /\ Same(r.pm, r.base) /\ ~Over(r.pm)
       /\ "SourceEvicting" \in r.pm.conds /\ Lifecycle!MayFail(r.pm.conds, r.then)

StatusInv == \A m \in Moves : StatusOK(status[m]) /\ StatusOK(cached[m])

RecInv == rec.pc # "idle" => RecOK(rec)

HookInv == \A h \in Hooks : /\ StatusOK(hook[h].base)
                            /\ hook[h].pc = "update" => isOpenForReplacement(hook[h].base.conds)

\* h has claimed m and its pod is not persisted yet.
Pinning(h, m) == hook[h].pc = "reply" /\ hook[h].move = m

Claimed(m) == "ReplacementClaimed" \in status[m].conds

\* Whoever holds a PodMove, a pod or a request, holds it by the claim in its
\* status, and there is one holder.
ClaimInv ==
  \A m \in Moves :
    /\ \A p \in Pods : pods[p].label = m => Claimed(m)
    /\ \A h \in Hooks : Pinning(h, m) => Claimed(m)
    /\ \A g, h \in Hooks : Pinning(g, m) /\ Pinning(h, m) => g = h
    /\ \A h \in Hooks, p \in Pods : Pinning(h, m) => pods[p].label # m
    /\ \A p, q \in Pods : pods[p].label = m /\ pods[q].label = m => p = q

\* Every copy of a status is sound, every write under way is legal over what it
\* was computed from, and every claim has one holder at most.
IInv == TypeOK /\ StatusInv /\ RecInv /\ HookInv /\ ClaimInv

-----------------------------------------------------------------------------
(***************************************************************************)
(* What the statuses say of the pods.  Pods only ever get on, so that what *)
(* was true of a pod once, of the cached pod or when a request was read,   *)
(* is true of it now.                                                      *)
(***************************************************************************)
\* The pod n is the pod o at the same time or later.
Follows(o, n) ==
  o.st # "absent" =>
    /\ n.st # "absent"
    /\ n.name = o.name /\ n.label = o.label /\ n.node = o.node
    /\ o.phase # "Pending" => n.phase = o.phase
    /\ o.st # "live" => n.st \in {"terminating", "gone"}
    /\ o.st = "gone" => n.st = "gone"

\* In the pods ps, the source of m is on its way out; a replacement that is
\* pinned to m's target node got beyond Pending.
LeavingIn(ps, m) == ps[Source[m]].st \in {"terminating", "gone"}

MovedIn(ps, m) ==
  \E p \in Pods : /\ ps[p].st # "absent" /\ ps[p].label = m
                  /\ ps[p].node = TargetNode[m] /\ ps[p].phase # "Pending"

\* What the conditions conds of m say of the pods ps is so.
Tells(ps, m, conds) ==
  /\ conds \cap {"SourceEvicted", "ReplacementClaimed"} # {} => LeavingIn(ps, m)
  /\ "ReplacementSucceeded" \in conds => MovedIn(ps, m)

\* No pod has or will get the name of a source pod while that is still there, a
\* request is for a pod of its own, and a label comes with the target node.
NamesInv ==
  /\ \A m \in Moves :
       LET s == Source[m]
       IN  /\ pods[s].st # "absent" /\ pods[s].name = s
           /\ \A p \in Pods \ {s} : pods[p].name = s => pods[s].st = "gone"
           /\ \A h \in Hooks : hook[h].name = s => pods[s].st = "gone"
  /\ \A h \in Hooks : hook[h].pod # None =>
       /\ pods[hook[h].pod].st = "absent"
       /\ \A g \in Hooks : hook[g].pod = hook[h].pod => g = h
  /\ \A p \in Pods : pods[p].label # None => pods[p].node = TargetNode[pods[p].label]

\* The cached pods are earlier ones, and the source pods are among them.
CacheInv == /\ \A p \in Pods : Follows(podCache[p], pods[p])
            /\ \A m \in Moves : podCache[Source[m]].st # "absent"

\* Every copy of the conditions of a PodMove, the one that is being written
\* included, tells the truth, and a request claims what has been evicted.
TellsInv ==
  /\ \A m \in Moves : /\ Tells(pods, m, status[m].conds)
                      /\ Tells(pods, m, cached[m].conds)
                      /\ \A h \in Hooks : Tells(pods, m, hookCache[h][m])
  /\ rec.pc # "idle" => Tells(pods, rec.move, rec.pm.conds)
  /\ \A h \in Hooks : hook[h].pc \in {"get", "update"} => LeavingIn(pods, hook[h].move)

\* No status, cached status or write under way says more of the source pod and
\* its replacement than what is so, though all of them are computed from caches.
TruthInv == NamesInv /\ CacheInv /\ TellsInv
=============================================================================
