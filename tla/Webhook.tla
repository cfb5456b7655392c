------------------------------- MODULE Webhook -------------------------------
(***************************************************************************)
(* The mutating admission webhook of src/src/webhook: the CREATE of a pod  *)
(* claims an open PodMove of the same owner whose source pod is gone, and  *)
(* the pod is pinned to its target node and labelled with it.              *)
(*                                                                         *)
(* A hook is one admission request in flight.  The deployment runs three   *)
(* replicas, each of which serves requests concurrently, so hooks share    *)
(* nothing but the API server; the informer cache of the replica that      *)
(* serves a request is part of the hook, for only the listing reads it.    *)
(*                                                                         *)
(* Left out: requests with dry-run, whose handler only reads and whose pod *)
(* is not persisted; the global DRY_RUN mode, in which no PodMove is ever  *)
(* claimed; and pods that are created with the label podtetris.io/podmove. *)
(***************************************************************************)
EXTENDS Cluster

CONSTANTS Hooks,
          ClaimTries  \* attempts of retry.RetryOnConflict(retry.DefaultRetry)

ASSUME WebhookAssumption == ClaimTries \in Nat \ {0}

VARIABLES hookCache,  \* hookCache[h][m]: the conditions of m in the PodMove
                      \* cache behind h, {} when m is not open in it
          hook        \* hook[h]: the request

webhookVars == <<hookCache, hook>>

\* pod and name are those of the pod to be created, None when its admission has
\* timed out and only the handler is left.  todo holds the matches not tried
\* yet, move the one that is being claimed and at last the one that the pod is
\* pinned to; base is the status the claim was computed from.
HookState == [pc    : {"idle", "try", "get", "update", "reply"},
              pod   : Pods \cup {None},
              name  : Pods \cup {None},
              todo  : SUBSET Moves,
              move  : Moves \cup {None},
              base  : PodMoveStatus,
              tries : Nat]

NoRequest == [pc |-> "idle", pod |-> None, name |-> None,
              todo |-> {}, move |-> None, base |-> NewPodMove, tries |-> 0]

WebhookTypeOK == /\ hookCache \in [Hooks -> [Moves -> SUBSET Conditions]]
                 /\ hook \in [Hooks -> HookState]
                 /\ \A h \in Hooks :
                      /\ hook[h].pod # None => hook[h].name # None
                      /\ hook[h].pc \in {"get", "update"} => hook[h].move # None

WebhookInit == /\ hookCache = [h \in Hooks |-> [m \in Moves |-> {}]]
               /\ hook = [h \in Hooks |-> NoRequest]

-----------------------------------------------------------------------------
\* Variant: a PodMove that has failed can still be claimed.
isOpenForReplacementFailed(conds) ==
  /\ conds \cap {"ReplacementSucceeded", "ReplacementClaimed"} = {}
  /\ "SourceEvicting" \in conds

isOpenForReplacement(conds) ==
  /\ conds \cap {"Failed", "ReplacementSucceeded", "ReplacementClaimed"} = {}
  /\ "SourceEvicting" \in conds

\* A pod of a StatefulSet replaces the pod that had its name; any other pod
\* replaces any pod of its owner.
replacementMatches(m, p, name) ==
  /\ OwnerOf[Source[m]] = OwnerOf[p]
  /\ OwnerOf[p] \in StatefulSets => name = Source[m]

listOpenPodMoveMatches(h, p, name) ==
  {m \in Moves : replacementMatches(m, p, name) /\ isOpenForReplacement(hookCache[h][m])}

\* Variant: a pod that is still running counts as evicted.
hasBeenEvictedUnchecked(h, m) == TRUE

\* Known from the listed PodMove, or else from a read of the source pod: it is
\* gone, its name is another pod's, or it is terminating.
hasBeenEvicted(h, m) ==
  \/ "SourceEvicted" \in hookCache[h][m]
  \/ ~\E p \in Named(pods, Source[m]) : p = Source[m] /\ pods[p].st = "live"

\* The hook r leaves the candidate it was trying: the next one, or the reply.
nextCandidate(r, todo) ==
  [r EXCEPT !.pc = IF todo = {} THEN "reply" ELSE "try",
            !.todo = todo, !.move = None, !.base = NewPodMove, !.tries = 0]

InFlight(p) == \E h \in Hooks : hook[h].pod = p
NameInFlight(name) == \E h \in Hooks : hook[h].name = name

\* The names the owner of p gives p: a fresh one, or for a StatefulSet that of
\* a pod that is no more.
NamesFor(p) ==
  IF OwnerOf[p] \in StatefulSets
  THEN {n \in Pods : OwnerOf[n] = OwnerOf[p] /\ pods[n].st # "absent"
                     /\ Named(pods, n) = {} /\ ~NameInFlight(n)}
  ELSE {p}

-----------------------------------------------------------------------------
\* The pod p is persisted as h's request asks, pinned to the PodMove m.
Persist(h, m) ==
  pods' = [pods EXCEPT ![hook[h].pod] = NewPod(hook[h].name, m)]

SyncHook(h) ==
  /\ hook[h].pc = "idle"
  /\ hookCache' = [hookCache EXCEPT ![h] =
                     [m \in Moves |-> IF m \in live /\ isOpenForReplacement(status[m].conds)
                                      THEN status[m].conds ELSE {}]]
  /\ hookCache' # hookCache
  /\ UNCHANGED <<hook, status, live, pods>>

\* A controller creates the pod p, and the handler has listed its candidates.
CreateRequest(h, p) ==
  /\ hook[h].pc = "idle"
  /\ pods[p].st = "absent" /\ ~InFlight(p)
  /\ \E name \in NamesFor(p) :
       hook' = [hook EXCEPT ![h] =
                  nextCandidate([NoRequest EXCEPT !.pod = p, !.name = name],
                                listOpenPodMoveMatches(h, p, name))]
  /\ UNCHANGED <<hookCache, status, live, pods>>

\* The candidate's source pod is still there, or cannot be read.
skipCandidate(h, m) ==
  /\ hook[h].pc = "try" /\ m \in hook[h].todo
  /\ "SourceEvicted" \notin hookCache[h][m]
  /\ hook' = [hook EXCEPT ![h] = nextCandidate(@, @.todo \ {m})]
  /\ UNCHANGED <<hookCache, status, live, pods>>

\* The candidate's source pod is evicted: claim it.
tryCandidate(h, m) ==
  /\ hook[h].pc = "try" /\ m \in hook[h].todo
  /\ hasBeenEvicted(h, m)
  /\ hook' = [hook EXCEPT ![h].pc = "get", ![h].move = m, ![h].todo = @ \ {m}]
  /\ UNCHANGED <<hookCache, status, live, pods>>

\* claimReplacement reads the PodMove from the API server.  It gives up when
\* it is deleted or no longer open, or when the read fails.
claimGet(h) ==
  LET m == hook[h].move
  IN  /\ hook[h].pc = "get"
      /\ \/ /\ m \in live /\ isOpenForReplacement(status[m].conds)
            /\ hook' = [hook EXCEPT ![h].pc = "update", ![h].base = status[m]]
         \/ hook' = [hook EXCEPT ![h] = nextCandidate(@, @.todo)]
      /\ UNCHANGED <<hookCache, status, live, pods>>

\* Variant: the claim is written whatever the version of the PodMove is.
claimAcceptedBlindly(h) == hook[h].move \in live

\* The API server accepts the claim if the PodMove is as it was read.
claimAccepted(h) == hook[h].move \in live /\ hook[h].base = status[hook[h].move]

Claim(h) ==
  status' = [status EXCEPT ![hook[h].move] = setCondition(hook[h].base, "ReplacementClaimed")]

\* ... and updates its status.  A conflict is retried from the read on; any
\* other error, which may come after the claim took effect, gives it up.
claimUpdate(h) ==
  LET tries == hook[h].tries + 1
  IN  /\ hook[h].pc = "update"
      /\ \/ /\ claimAccepted(h)
            /\ Claim(h)
            /\ hook' = [hook EXCEPT ![h].pc = "reply", ![h].todo = {},
                                    ![h].base = NewPodMove, ![h].tries = 0]
         \/ /\ hook[h].move \in live /\ ~claimAccepted(h)
            /\ hook' = [hook EXCEPT ![h] =
                 IF tries < ClaimTries
                 THEN [@ EXCEPT !.pc = "get", !.base = NewPodMove, !.tries = tries]
                 ELSE nextCandidate(@, @.todo)]
            /\ UNCHANGED status
         \/ /\ UNCHANGED status \/ (claimAccepted(h) /\ Claim(h))
            /\ hook' = [hook EXCEPT ![h] = nextCandidate(@, @.todo)]
      /\ UNCHANGED <<hookCache, live, pods>>

-----------------------------------------------------------------------------
\* The API server has the answer and persists the pod; the answer of a handler
\* whose request has timed out is dropped.
Admit(h) ==
  /\ hook[h].pc = "reply"
  /\ IF hook[h].pod # None THEN Persist(h, hook[h].move) ELSE UNCHANGED pods
  /\ hook' = [hook EXCEPT ![h] = NoRequest]
  /\ UNCHANGED <<hookCache, status, live>>

\* A later step of admission (a quota, a policy) rejects the pod, or the API
\* server or the creating controller fails: no pod, though a PodMove is claimed.
CreateRejected(h) ==
  /\ hook[h].pc = "reply" /\ hook[h].pod # None
  /\ hook' = [hook EXCEPT ![h] = NoRequest]
  /\ UNCHANGED <<hookCache, status, live, pods>>

\* The webhook does not answer within timeoutSeconds, because it is slow, has
\* crashed or the answer is lost.  failurePolicy Ignore admits the pod as it
\* is; the handler may still be running.
AdmissionTimeout(h) ==
  /\ hook[h].pc # "idle" /\ hook[h].pod # None
  /\ Persist(h, None)
  /\ hook' = [hook EXCEPT ![h].pod = None, ![h].name = None]
  /\ UNCHANGED <<hookCache, status, live>>

WebhookNext ==
  \E h \in Hooks :
     \/ SyncHook(h)
     \/ \E p \in Pods : CreateRequest(h, p)
     \/ \E m \in Moves : skipCandidate(h, m) \/ tryCandidate(h, m)
     \/ claimGet(h) \/ claimUpdate(h)
     \/ Admit(h) \/ CreateRejected(h) \/ AdmissionTimeout(h)
=============================================================================
