------------------------------ MODULE PodMoveApi ------------------------------
(***************************************************************************)
(* The PodMove custom resource: the part of its status that the evictor    *)
(* and the admission webhook read and write, and the pure functions of     *)
(* src/src/evictor/api/v1 on it.                                           *)
(*                                                                         *)
(* status.conditions is the set of condition types that are True.  No      *)
(* component ever writes a condition with another status, so a condition   *)
(* that is not in the set is one that is not in the list.  Messages,       *)
(* transition times and the reasons of every condition but Failed are left *)
(* out.                                                                    *)
(***************************************************************************)
EXTENDS Naturals

Conditions == {"SourceEvicting", "SourceEvicted", "ReplacementClaimed",
               "ReplacementBound", "ReplacementSucceeded", "Failed"}

PodMovePhases == {"Pending", "Evicting", "Evicted", "Claimed", "Bound",
                  "Succeeded", "Failed"}

\* The reasons a PodMove is marked Failed with.
Reasons == {"PodNotFound", "BlockedByPDB", "EvictionFailed",
            "ReplacementNotClaimed", "ReplacementNotPersisted",
            "ReplacementNotRunning", "ReplacementNotFound"}

NoReason == "none"

\* The phase of a PodMove whose status was never written.
NoPhase == ""

PodMoveStatus == [conds            : SUBSET Conditions,
                  phase            : PodMovePhases \cup {NoPhase},
                  reason           : Reasons \cup {NoReason},
                  evictionAttempts : Nat,
                  persistAttempts  : Nat,
                  runningAttempts  : Nat]

\* A PodMove as the planner creates it, without a status; the default "Pending"
\* of the phase applies only once there is one.
NewPodMove == [conds            |-> {},
               phase            |-> NoPhase,
               reason           |-> NoReason,
               evictionAttempts |-> 0,
               persistAttempts  |-> 0,
               runningAttempts  |-> 0]

-----------------------------------------------------------------------------
\* Variant: the phase of a claimed PodMove is one the CRD does not list.
DerivePhaseUnlisted(conds) ==
  IF "Failed" \in conds THEN "Failed"
  ELSE IF "ReplacementSucceeded" \in conds THEN "Succeeded"
  ELSE IF "ReplacementBound" \in conds THEN "Bound"
  ELSE IF "ReplacementClaimed" \in conds THEN "TargetNodeInjected"
  ELSE IF "SourceEvicted" \in conds THEN "Evicted"
  ELSE IF "SourceEvicting" \in conds THEN "Evicting" ELSE "Pending"

\* The switch of DerivePhase: the first condition that is True gives the phase.
DerivePhase(conds) ==
  IF "Failed" \in conds THEN "Failed"
  ELSE IF "ReplacementSucceeded" \in conds THEN "Succeeded"
  ELSE IF "ReplacementBound" \in conds THEN "Bound"
  ELSE IF "ReplacementClaimed" \in conds THEN "Claimed"
  ELSE IF "SourceEvicted" \in conds THEN "Evicted"
  ELSE IF "SourceEvicting" \in conds THEN "Evicting"
  ELSE "Pending"

IsTerminal(conds) == DerivePhase(conds) \in {"Failed", "Succeeded"}

\* Variant: the phase is left as it was read.
SyncPhaseSkipped(s) == s

\* SyncPhase overwrites the phase from the conditions.
SyncPhase(s) == [s EXCEPT !.phase = DerivePhase(s.conds)]

\* meta.SetStatusCondition(c, True) on the copy in memory.
setCondition(s, c) == [s EXCEPT !.conds = @ \cup {c}]

markFailed(s, r) == [s EXCEPT !.conds = @ \cup {"Failed"}, !.reason = r]
=============================================================================
