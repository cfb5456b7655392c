--------------------------- MODULE PodMoveLifecycle ---------------------------
(***************************************************************************)
(* What a PodMove promises to those who read its status: the order in      *)
(* which its conditions appear (src/src/evictor/api/v1/podmove_types.go),  *)
(* and from where it may fail for which reason.                            *)
(* Several components write these conditions; here each of them appears in *)
(* one step.                                                               *)
(***************************************************************************)
EXTENDS PodMoveApi

CONSTANT Moves

VARIABLES conds,   \* conds[m]: the conditions of the PodMove m that are True
          reason,  \* reason[m]: why it failed
          exists   \* the PodMoves that have not been deleted

vars == <<conds, reason, exists>>

Init == /\ conds = [m \in Moves |-> {}]
        /\ reason = [m \in Moves |-> NoReason]
        /\ exists = Moves

\* The conditions that come before a condition.  The webhook may see that the
\* source pod is gone, and claim, before the evictor has noted it.
Needs(c) ==
  CASE c = "SourceEvicting"                            -> {}
    [] c \in {"SourceEvicted", "ReplacementClaimed"}   -> {"SourceEvicting"}
    [] c = "ReplacementBound"                          -> {"SourceEvicted", "ReplacementClaimed"}
    [] c = "ReplacementSucceeded"                      -> {"ReplacementBound"}

\* Where, by its conditions cs, a PodMove may be when it fails for the reason r.
MayFail(cs, r) ==
  CASE r = "PodNotFound"                        -> cs \cap {"SourceEvicted", "ReplacementClaimed"} = {}
    [] r \in {"BlockedByPDB", "EvictionFailed"} -> "SourceEvicted" \notin cs
    [] r = "ReplacementNotClaimed"              -> "SourceEvicted" \in cs /\ "ReplacementClaimed" \notin cs
    [] r = "ReplacementNotPersisted"            -> "ReplacementClaimed" \in cs /\ "ReplacementBound" \notin cs
    [] r \in {"ReplacementNotRunning", "ReplacementNotFound"}
                                                -> "ReplacementBound" \in cs

Open(m) == m \in exists /\ conds[m] \cap {"Failed", "ReplacementSucceeded"} = {}

\* The PodMove gets one step further, ...
Reach(m, c) == /\ Open(m)
               /\ c \notin conds[m] /\ Needs(c) \subseteq conds[m]
               /\ conds' = [conds EXCEPT ![m] = @ \cup {c}]
               /\ UNCHANGED <<reason, exists>>

\* ... fails, once its eviction has begun, ...
Fail(m, r) == /\ Open(m)
              /\ "SourceEvicting" \in conds[m] /\ MayFail(conds[m], r)
              /\ conds' = [conds EXCEPT ![m] = @ \cup {"Failed"}]
              /\ reason' = [reason EXCEPT ![m] = r]
              /\ UNCHANGED exists

\* ... or is deleted.
Delete(m) == m \in exists /\ exists' = exists \ {m} /\ UNCHANGED <<conds, reason>>

Next == \E m \in Moves :
          \/ \E c \in Conditions \ {"Failed"} : Reach(m, c)
          \/ \E r \in Reasons : Fail(m, r)
          \/ Delete(m)

Spec == Init /\ [][Next]_vars
=============================================================================
