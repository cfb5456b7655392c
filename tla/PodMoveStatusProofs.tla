------------------------- MODULE PodMoveStatusProofs -------------------------
(***************************************************************************)
(* PodMoveInvariants!IInv is an invariant of PodMoveSystem, and what       *)
(* follows from it: how a status may change, and who may hold a claim.     *)
(***************************************************************************)
EXTENDS PodMoveSystemProofs, PodMoveInvariants

-----------------------------------------------------------------------------
(***************************************************************************)
(* Statuses                                                                *)
(***************************************************************************)
\* The phase is not part of what a lifecycle step looks at.
LEMMA SyncFields ==
  ASSUME NEW s \in PodMoveStatus
  PROVE  /\ SyncPhase(s).conds = s.conds
         /\ SyncPhase(s).reason = s.reason
         /\ SyncPhase(s).phase = DerivePhase(s.conds)
         /\ SyncPhase(SyncPhase(s)) = SyncPhase(s)
  BY DEF SyncPhase, PodMoveStatus

LEMMA ReachSound ==
  ASSUME NEW b \in PodMoveStatus, NEW n \in PodMoveStatus, Sound(b), ~Over(b),
         NEW c \in (Conditions \ {"Failed"}) \ b.conds,
         Lifecycle!Needs(c) \subseteq b.conds,
         n.conds = b.conds \cup {c}, n.reason = b.reason
  PROVE  Sound(n)
<1>1. CASE c = "SourceEvicting"
  BY <1>1 DEF Sound, Over, Lifecycle!Needs, Reasons, NoReason
<1>2. CASE c = "SourceEvicted"
  BY <1>2 DEF Sound, Over, Lifecycle!Needs, Reasons, NoReason
<1>3. CASE c = "ReplacementClaimed"
  BY <1>3 DEF Sound, Over, Lifecycle!Needs, Reasons, NoReason
<1>4. CASE c = "ReplacementBound"
  BY <1>4 DEF Sound, Over, Lifecycle!Needs, Reasons, NoReason
<1>5. CASE c = "ReplacementSucceeded"
  BY <1>5 DEF Sound, Over, Lifecycle!Needs, Reasons, NoReason
<1> QED BY <1>1, <1>2, <1>3, <1>4, <1>5 DEF Conditions

\* A step of the lifecycle leads from a sound status to a sound one.
LEMMA StepSound ==
  ASSUME NEW b \in PodMoveStatus, NEW n \in PodMoveStatus, Sound(b), Step(b, n)
  PROVE  Sound(n) /\ b.conds \subseteq n.conds
<1>1. CASE Same(n, b)
  BY <1>1 DEF Same, Sound
<1>2. ASSUME ~Over(b), NEW c \in (Conditions \ {"Failed"}) \ b.conds,
             Lifecycle!Needs(c) \subseteq b.conds,
             n.conds = b.conds \cup {c}, n.reason = b.reason
      PROVE  Sound(n) /\ b.conds \subseteq n.conds
  BY <1>2, ReachSound
<1>3. ASSUME ~Over(b), NEW r \in Reasons, "SourceEvicting" \in b.conds,
             Lifecycle!MayFail(b.conds, r),
             n.conds = b.conds \cup {"Failed"}, n.reason = r
      PROVE  Sound(n) /\ b.conds \subseteq n.conds
  <2>1. r # NoReason
    BY DEF Reasons, NoReason
  <2>2. r \in {"PodNotFound", "ReplacementNotClaimed"} => "ReplacementClaimed" \notin b.conds
    BY <1>3 DEF Lifecycle!MayFail
  <2> QED BY <1>3, <2>1, <2>2 DEF Sound, Over
<1> QED BY <1>1, <1>2, <1>3 DEF Step, Same

\* Bringing the phase up to date makes a sound status a correct one.
LEMMA SyncOK ==
  ASSUME NEW s \in PodMoveStatus, Sound(s)
  PROVE  StatusOK(SyncPhase(s))
  BY SyncFields DEF StatusOK, Sound, PhaseLags

\* Two statuses that differ in phase and counters only are alike to a step.
LEMMA StepAlike ==
  ASSUME NEW b, NEW c, NEW n, NEW o, Same(b, c), Same(n, o), Step(b, n)
  PROVE  Step(c, o)
  BY DEF Step, Same, Over

\* There is nothing to bring up to date once the PodMove has ended.
LEMMA OverInSync ==
  ASSUME NEW s \in PodMoveStatus, StatusOK(s), Over(s)
  PROVE  SyncPhase(s) = s
<1>1. DerivePhase(s.conds) = DerivePhase(s.conds \ {"ReplacementClaimed"})
  BY DEF DerivePhase, Over
<1>2. s.phase = DerivePhase(s.conds)
  BY <1>1 DEF StatusOK, PhaseLags, Over
<1> QED BY <1>2 DEF SyncPhase, PodMoveStatus

LEMMA NewPodMoveOK == StatusOK(NewPodMove)
  BY DEF StatusOK, Sound, PhaseLags, NewPodMove, NoReason, Reasons

\* A claim is a step, and leaves the phase behind.
LEMMA ClaimOK ==
  ASSUME NEW s \in PodMoveStatus, StatusOK(s), isOpenForReplacement(s.conds)
  PROVE  /\ StatusOK(setCondition(s, "ReplacementClaimed"))
         /\ Step(s, setCondition(s, "ReplacementClaimed"))
         /\ ~Over(s)
<1> DEFINE n == setCondition(s, "ReplacementClaimed")
<1>1. /\ n.conds = s.conds \cup {"ReplacementClaimed"}
      /\ n.reason = s.reason
      /\ n.phase = s.phase
      /\ n \in PodMoveStatus
  BY StatusOps DEF setCondition, PodMoveStatus, Conditions
<1>2. ~Over(s) /\ "ReplacementClaimed" \notin s.conds /\ "SourceEvicting" \in s.conds
  BY DEF isOpenForReplacement, Over
<1> HIDE DEF n
<1>3. Step(s, n)
  BY <1>1, <1>2 DEF Step, Lifecycle!Needs, Conditions
<1>4. Sound(n)
  BY <1>1, <1>3, StepSound DEF StatusOK
<1>5. n.conds \ {"ReplacementClaimed"} = s.conds
  BY <1>1, <1>2
<1>6. PhaseLags(n)
  BY <1>1, <1>2, <1>5 DEF StatusOK, PhaseLags
<1>7. StatusOK(n) /\ Step(s, n) /\ ~Over(s)
  BY <1>2, <1>3, <1>4, <1>6 DEF StatusOK
<1> QED BY <1>7 DEF n

-----------------------------------------------------------------------------
(***************************************************************************)
(* The reconcile under way                                                 *)
(***************************************************************************)
\* A reconcile that goes on with the deferred function writes what it has.
LEMMA FinishingOK ==
  ASSUME NEW r \in Work, NEW result, RecOK(r)
  PROVE  RecOK(finishing(r, result))
<1>1. /\ finishing(r, result).pc = "finish"
      /\ finishing(r, result).base = r.base
      /\ finishing(r, result).pm = r.pm
  BY DEF finishing, Work, RecState
<1> QED BY <1>1 DEF RecOK

\* A write of pm is correct when pm is a step over what was read.
LEMMA WritingOK ==
  ASSUME NEW r \in Work, NEW pm \in PodMoveStatus, NEW then,
         StatusOK(r.base), ~Over(r.base), Step(r.base, pm),
         then = "evict" => Evicting(pm),
         then \in Reasons => /\ Same(pm, r.base) /\ "SourceEvicting" \in pm.conds
                             /\ Lifecycle!MayFail(pm.conds, then)
  PROVE  RecOK(writing(r, pm, then))
<1>1. /\ writing(r, pm, then).pc = "write"
      /\ writing(r, pm, then).base = r.base
      /\ writing(r, pm, then).pm = pm
      /\ writing(r, pm, then).then = then
  BY DEF writing, Work, RecState
<1>2. Same(pm, r.base) => ~Over(pm)
  BY DEF Same, Over
<1> QED BY <1>1, <1>2 DEF RecOK

\* Marking a PodMove Failed is a step.
LEMMA FailOK ==
  ASSUME NEW r \in Work, NEW reason \in Reasons,
         StatusOK(r.base), ~Over(r.base), Same(r.pm, r.base),
         "SourceEvicting" \in r.base.conds, Lifecycle!MayFail(r.base.conds, reason)
  PROVE  RecOK(writing(r, markFailed(r.pm, reason), "finish"))
<1>1. r.pm \in PodMoveStatus
  BY DEF Work, RecState
<1>2. /\ markFailed(r.pm, reason) \in PodMoveStatus
      /\ markFailed(r.pm, reason).conds = r.base.conds \cup {"Failed"}
      /\ markFailed(r.pm, reason).reason = reason
  BY <1>1, StatusOps DEF markFailed, PodMoveStatus, Same
<1>3. Step(r.base, markFailed(r.pm, reason))
  BY <1>2 DEF Step
<1>4. "finish" \notin Reasons
  BY DEF Reasons
<1> QED BY <1>2, <1>3, <1>4, WritingOK

\* Getting to one more condition is a step.
LEMMA ReachOK ==
  ASSUME NEW r \in Work, NEW c \in Conditions \ {"Failed"}, NEW then \in {"evict", "finish"},
         StatusOK(r.base), ~Over(r.base), Same(r.pm, r.base),
         c \notin r.base.conds, Lifecycle!Needs(c) \subseteq r.base.conds,
         then = "evict" => c = "SourceEvicting" /\ "SourceEvicted" \notin r.base.conds
  PROVE  RecOK(writing(r, setCondition(r.pm, c), then))
<1>1. r.pm \in PodMoveStatus
  BY DEF Work, RecState
<1>2. /\ setCondition(r.pm, c) \in PodMoveStatus
      /\ setCondition(r.pm, c).conds = r.base.conds \cup {c}
      /\ setCondition(r.pm, c).reason = r.base.reason
  BY <1>1, StatusOps DEF setCondition, PodMoveStatus, Same
<1>3. Step(r.base, setCondition(r.pm, c))
  BY <1>2 DEF Step
<1>4. then \notin Reasons
  BY DEF Reasons
<1>5. then = "evict" => Evicting(setCondition(r.pm, c))
  BY <1>2 DEF Evicting, Over
<1> QED BY <1>2, <1>3, <1>4, <1>5, WritingOK

\* An attempt counts towards a failure that may follow.
LEMMA CountAttemptOK ==
  ASSUME NEW r \in Work, NEW pm \in PodMoveStatus, NEW attempt, NEW max,
         NEW reason \in Reasons,
         StatusOK(r.base), ~Over(r.base), Same(pm, r.base),
         "SourceEvicting" \in r.base.conds, Lifecycle!MayFail(r.base.conds, reason)
  PROVE  RecOK(countAttempt(r, pm, attempt, max, reason))
<1>1. Step(r.base, pm)
  BY DEF Step, Same
<1>2. "finish" \notin Reasons /\ "evict" \notin Reasons
  BY DEF Reasons
<1>3. RecOK(writing(r, pm, reason))
  <2>1. "SourceEvicting" \in pm.conds /\ Lifecycle!MayFail(pm.conds, reason)
    BY DEF Same
  <2> QED BY <1>1, <1>2, <2>1, WritingOK
<1>4. RecOK([writing(r, pm, "finish") EXCEPT !.result = "requeue"])
  <2> DEFINE w == writing(r, pm, "finish")
             x == [w EXCEPT !.result = "requeue"]
  <2>1. w \in Work /\ RecOK(w)
    BY <1>1, <1>2, WritingOK, WritingType
  <2>2. x.pc = w.pc /\ x.base = w.base /\ x.pm = w.pm /\ x.then = w.then
    BY <2>1 DEF Work, RecState
  <2> HIDE DEF w
  <2>3. RecOK(x)
    <3> HIDE DEF x
    <3> QED BY <2>1, <2>2 DEF RecOK
  <2> QED BY <2>3 DEF w
<1> QED BY <1>3, <1>4 DEF countAttempt

\* An attempt more is no new condition.
LEMMA Counters ==
  ASSUME NEW s \in PodMoveStatus, NEW n \in Nat
  PROVE  /\ Same([s EXCEPT !.evictionAttempts = n], s)
         /\ Same([s EXCEPT !.persistAttempts = n], s)
         /\ Same([s EXCEPT !.runningAttempts = n], s)
         /\ [s EXCEPT !.evictionAttempts = n] \in PodMoveStatus
         /\ [s EXCEPT !.persistAttempts = n] \in PodMoveStatus
         /\ [s EXCEPT !.runningAttempts = n] \in PodMoveStatus
  BY DEF Same, PodMoveStatus

\* What the answers to an eviction lead to.
LEMMA EvictionOK ==
  ASSUME NEW r \in Work, NEW due \in BOOLEAN, r.pc = "evict", RecOK(r)
  PROVE  /\ RecOK(sourcePodGoneDuringEviction(r))
         /\ \A reason \in {"BlockedByPDB", "EvictionFailed"} :
              RecOK(requeueEviction(r, due, reason))
         /\ RecOK(writing(r, setCondition(r.pm, "SourceEvicted"), "finish"))
         /\ RecOK(writing(r, markFailed(r.pm, "EvictionFailed"), "finish"))
<1>1. /\ StatusOK(r.base) /\ Same(r.pm, r.base) /\ ~Over(r.base)
      /\ "SourceEvicting" \in r.base.conds /\ "SourceEvicted" \notin r.base.conds
      /\ r.pm.conds = r.base.conds
  BY DEF RecOK, Evicting, Same, Over
<1>2. RecOK(writing(r, setCondition(r.pm, "SourceEvicted"), "finish"))
  <2>1. /\ "SourceEvicted" \in Conditions \ {"Failed"}
        /\ Lifecycle!Needs("SourceEvicted") \subseteq r.base.conds
    BY <1>1 DEF Conditions, Lifecycle!Needs
  <2> QED BY <1>1, <2>1, ReachOK
<1>3. RecOK(writing(r, markFailed(r.pm, "EvictionFailed"), "finish"))
  <2>1. "EvictionFailed" \in Reasons /\ Lifecycle!MayFail(r.base.conds, "EvictionFailed")
    BY <1>1 DEF Reasons, Lifecycle!MayFail
  <2> QED BY <1>1, <2>1, FailOK
<1>4. RecOK(sourcePodGoneDuringEviction(r))
  <2>1. CASE "ReplacementClaimed" \in r.pm.conds
    BY <1>2, <2>1 DEF sourcePodGoneDuringEviction
  <2>2. CASE "ReplacementClaimed" \notin r.pm.conds
    <3>1. "PodNotFound" \in Reasons /\ Lifecycle!MayFail(r.base.conds, "PodNotFound")
      BY <1>1, <2>2 DEF Reasons, Lifecycle!MayFail
    <3>2. RecOK(writing(r, markFailed(r.pm, "PodNotFound"), "finish"))
      BY <1>1, <3>1, FailOK
    <3> QED BY <2>2, <3>2 DEF sourcePodGoneDuringEviction
  <2> QED BY <2>1, <2>2
<1>5. ASSUME NEW reason \in {"BlockedByPDB", "EvictionFailed"}
      PROVE  RecOK(requeueEviction(r, due, reason))
  <2> DEFINE attempt == r.pm.evictionAttempts + 1
             pm == [r.pm EXCEPT !.evictionAttempts = attempt]
  <2>1. r.pm \in PodMoveStatus /\ attempt \in Nat
    BY StatusOps DEF Work, RecState
  <2>2. pm \in PodMoveStatus /\ Same(pm, r.base)
    <3> HIDE DEF attempt
    <3> QED BY <1>1, <2>1, Counters DEF Same
  <2>3. reason \in Reasons /\ Lifecycle!MayFail(r.base.conds, reason)
    BY <1>1 DEF Reasons, Lifecycle!MayFail
  <2>4. RecOK(countAttempt(r, pm, attempt, MaxEvictionAttempts, reason))
    <3> HIDE DEF attempt, pm
    <3> QED BY <1>1, <2>2, <2>3, CountAttemptOK
  <2> QED BY <2>4, FinishingOK DEF requeueEviction
<1> QED BY <1>2, <1>3, <1>4, <1>5

\* What follows a write, be it accepted or not.
LEMMA WriteOK ==
  ASSUME NEW r \in Work, r.pc = "write", RecOK(r)
  PROVE  RecOK(written(r)) /\ RecOK(writeFailed(r))
<1> DEFINE new == SyncPhase(r.pm)
           s == [r EXCEPT !.base = new, !.pm = new]
<1>1. r.pm \in PodMoveStatus /\ r.base \in PodMoveStatus
  BY DEF Work, RecState
<1>2. /\ new \in PodMoveStatus /\ StatusOK(new)
      /\ Same(new, r.pm) /\ SyncPhase(new) = new
  BY <1>1, StatusOps, StepSound, SyncOK, SyncFields DEF RecOK, StatusOK, Same
<1>3. /\ s \in Work /\ s.base = new /\ s.pm = new /\ s.pc = "write" /\ s.then = r.then
  BY <1>2 DEF Work, RecState
<1>4. Same(new, new) /\ Step(new, new)
  BY DEF Same, Step
<1>5. RecOK(written(r))
  <2>1. CASE r.then \in Reasons
    <3>1. /\ ~Over(new) /\ "SourceEvicting" \in new.conds
          /\ Lifecycle!MayFail(new.conds, r.then)
      BY <1>2, <2>1 DEF RecOK, Same, Over
    <3>2. RecOK(writing(s, markFailed(new, r.then), "finish"))
      <4> HIDE DEF new, s
      <4> QED BY <1>2, <1>3, <1>4, <2>1, <3>1, FailOK
    <3> QED BY <2>1, <3>2 DEF written
  <2>2. CASE r.then \notin Reasons
    <3> DEFINE w == [s EXCEPT !.pc = r.then, !.then = "finish"]
    <3>1. w.base = new /\ w.pm = new /\ w.pc = r.then /\ r.then \in {"evict", "finish"}
      BY <1>2, <2>2 DEF Work, RecState
    <3>2. w.pc = "evict" => Evicting(new)
      BY <1>2, <3>1 DEF RecOK, Same, Evicting, Over
    <3>3. RecOK(w)
      <4> HIDE DEF new, w
      <4> QED BY <1>2, <1>4, <3>1, <3>2 DEF RecOK
    <3> QED BY <2>2, <3>3 DEF written
  <2> QED BY <2>1, <2>2
<1>6. RecOK(writeFailed(r))
  <2> DEFINE w == writeFailed(r)
  <2>1. w.base = r.base /\ w.pm = new /\ w.pc = "finish"
    BY DEF writeFailed, finishing, Work, RecState
  <2>2. StatusOK(r.base) /\ Step(r.base, new)
    <3>1. Step(r.base, r.pm) /\ Same(r.base, r.base) /\ Same(r.pm, new)
      BY <1>2 DEF RecOK, Same
    <3> QED BY <3>1, StepAlike DEF RecOK
  <2>3. Over(r.base) => SyncPhase(new) = r.base
    BY <1>2 DEF RecOK
  <2>4. RecOK(w)
    <3> HIDE DEF w, new
    <3> QED BY <2>1, <2>2, <2>3 DEF RecOK
  <2> QED BY <2>4
<1> QED BY <1>5, <1>6

\* The reconcile that starts on a PodMove writes over what the cache holds.
LEMMA ReconcileOK ==
  ASSUME TypeOK, StatusInv, RecInv, NEW m \in Moves, NEW due \in BOOLEAN, Reconcile(m, due)
  PROVE  RecInv'
<1> DEFINE b == cached[m]
<1>0. /\ b \in PodMoveStatus /\ StatusOK(b) /\ Copy(m) \in Work
      /\ Copy(m).base = b /\ Copy(m).pm = b /\ Copy(m).pc = "finish"
      /\ Same(b, b) /\ Step(b, b)
      /\ Same(Copy(m).pm, Copy(m).base) /\ StatusOK(Copy(m).base)
  BY CopyType DEF StatusInv, Copy, Idle, Same, Step
<1>1. RecOK(Copy(m))
  BY <1>0, OverInSync DEF RecOK
<1>2. ASSUME ~Has(m, "Failed"), ~Has(m, "ReplacementBound") \/ ~Has(m, "ReplacementSucceeded")
      PROVE  ~Over(b)
  BY <1>0, <1>2 DEF StatusOK, Sound, Over, Has
<1> SUFFICES rec' = rec \/ RecOK(rec')
  <2>1. rec' = rec => RecInv'
    BY DEF RecInv, RecOK
  <2> QED BY <2>1 DEF RecInv
<1>3. CASE ReconcileDeleted(m)
  BY <1>3 DEF ReconcileDeleted
<1>4. CASE ReconcileTerminal(m)
  BY <1>1, <1>4 DEF ReconcileTerminal
<1>5. CASE evictSourcePod(m)
  <2>1. "SourceEvicted" \notin b.conds /\ ~Over(b)
    BY <1>0, <1>5 DEF evictSourcePod, Has, StatusOK, Sound, Over
  <2>2. CASE Has(m, "SourceEvicting")
    <3> DEFINE r == [Copy(m) EXCEPT !.pc = "evict"]
    <3>1. r.pc = "evict" /\ r.base = b /\ r.pm = b
      BY <1>0 DEF Work, RecState
    <3>2. Evicting(b)
      BY <2>1, <2>2 DEF Has, Evicting
    <3>3. RecOK(r)
      <4> HIDE DEF r, b
      <4> QED BY <1>0, <2>1, <3>1, <3>2 DEF RecOK
    <3> QED BY <1>5, <2>2, <3>3 DEF evictSourcePod
  <2>3. CASE ~Has(m, "SourceEvicting")
    <3>1. "SourceEvicting" \notin b.conds /\ "SourceEvicting" \in Conditions \ {"Failed"}
          /\ Lifecycle!Needs("SourceEvicting") \subseteq b.conds
      BY <2>3 DEF Has, Conditions, Lifecycle!Needs
    <3>2. RecOK(writing(Copy(m), setCondition(b, "SourceEvicting"), "evict"))
      <4> HIDE DEF b
      <4> QED BY <1>0, <2>1, <3>1, ReachOK
    <3> QED BY <1>5, <2>3, <3>2 DEF evictSourcePod
  <2> QED BY <2>2, <2>3
<1>6. CASE waitForClaim(m, due)
  <2>1. ~Over(b) /\ "SourceEvicting" \in b.conds
        /\ "SourceEvicted" \in b.conds /\ "ReplacementClaimed" \notin b.conds
    BY <1>0, <1>2, <1>6 DEF waitForClaim, AwaitsReplacement, Has, StatusOK, Sound
  <2>2. "ReplacementNotClaimed" \in Reasons /\ Lifecycle!MayFail(b.conds, "ReplacementNotClaimed")
    BY <2>1 DEF Reasons, Lifecycle!MayFail
  <2>3. RecOK(writing(Copy(m), markFailed(b, "ReplacementNotClaimed"), "finish"))
    <3> HIDE DEF b
    <3> QED BY <1>0, <2>1, <2>2, FailOK
  <2> QED BY <1>0, <1>1, <1>6, <2>3, FinishingOK DEF waitForClaim
<1>7. CASE reconcileClaimedReplacement(m, due)
  <2>1. /\ ~Over(b) /\ "SourceEvicting" \in b.conds
        /\ {"SourceEvicted", "ReplacementClaimed"} \subseteq b.conds
        /\ "ReplacementBound" \notin b.conds
    BY <1>0, <1>2, <1>7 DEF reconcileClaimedReplacement, AwaitsReplacement, Has, StatusOK, Sound
  <2>2. /\ "ReplacementBound" \in Conditions \ {"Failed"}
        /\ Lifecycle!Needs("ReplacementBound") \subseteq b.conds
        /\ "ReplacementNotPersisted" \in Reasons
        /\ Lifecycle!MayFail(b.conds, "ReplacementNotPersisted")
    BY <2>1 DEF Conditions, Lifecycle!Needs, Reasons, Lifecycle!MayFail
  <2>3. RecOK(writing(Copy(m), setCondition(b, "ReplacementBound"), "finish"))
    <3> HIDE DEF b
    <3> QED BY <1>0, <2>1, <2>2, ReachOK
  <2>4. RecOK(reconcileReplacementNotFound(Copy(m), due))
    <3> DEFINE attempt == b.persistAttempts + 1
               pm == [b EXCEPT !.persistAttempts = attempt]
    <3>1. attempt \in Nat
      BY <1>0, StatusOps
    <3>2. pm \in PodMoveStatus /\ Same(pm, b)
      <4> HIDE DEF attempt, b
      <4> QED BY <1>0, <3>1, Counters
    <3>3. RecOK(countAttempt(Copy(m), pm, attempt, MaxPersistAttempts, "ReplacementNotPersisted"))
      <4> HIDE DEF attempt, pm, b
      <4> QED BY <1>0, <2>1, <2>2, <3>2, CountAttemptOK
    <3> QED BY <1>0, <1>1, <3>3, FinishingOK
            DEF reconcileReplacementNotFound, recordFailedPersistAttempt
  <2> QED BY <1>7, <2>3, <2>4 DEF reconcileClaimedReplacement
<1>8. CASE reconcileVerifiedReplacement(m, due)
  <2>1. /\ ~Over(b) /\ "SourceEvicting" \in b.conds /\ "ReplacementBound" \in b.conds
        /\ "ReplacementSucceeded" \notin b.conds
    BY <1>0, <1>8 DEF reconcileVerifiedReplacement, AwaitsReplacement, Has, StatusOK, Sound, Over
  <2>2. /\ "ReplacementSucceeded" \in Conditions \ {"Failed"}
        /\ Lifecycle!Needs("ReplacementSucceeded") \subseteq b.conds
        /\ {"ReplacementNotFound", "ReplacementNotRunning"} \subseteq Reasons
        /\ Lifecycle!MayFail(b.conds, "ReplacementNotFound")
        /\ Lifecycle!MayFail(b.conds, "ReplacementNotRunning")
    BY <2>1 DEF Conditions, Lifecycle!Needs, Reasons, Lifecycle!MayFail
  <2>3. /\ RecOK(writing(Copy(m), markFailed(b, "ReplacementNotFound"), "finish"))
        /\ RecOK(writing(Copy(m), setCondition(b, "ReplacementSucceeded"), "finish"))
    <3> HIDE DEF b
    <3> QED BY <1>0, <2>1, <2>2, FailOK, ReachOK
  <2>4. RecOK(recordFailedRunningAttempt(Copy(m), due))
    <3> DEFINE attempt == b.runningAttempts + 1
               pm == [b EXCEPT !.runningAttempts = attempt]
    <3>1. attempt \in Nat
      BY <1>0, StatusOps
    <3>2. pm \in PodMoveStatus /\ Same(pm, b)
      <4> HIDE DEF attempt, b
      <4> QED BY <1>0, <3>1, Counters
    <3>3. RecOK(countAttempt(Copy(m), pm, attempt, MaxRunningAttempts, "ReplacementNotRunning"))
      <4> HIDE DEF attempt, pm, b
      <4> QED BY <1>0, <2>1, <2>2, <3>2, CountAttemptOK
    <3> QED BY <1>0, <1>1, <3>3, FinishingOK DEF recordFailedRunningAttempt
  <2> QED BY <1>8, <2>3, <2>4 DEF reconcileVerifiedReplacement
<1> QED BY <1>3, <1>4, <1>5, <1>6, <1>7, <1>8 DEF Reconcile

\* Whatever the eviction API answers, the reconcile goes on correctly.
LEMMA EvictPodOK ==
  ASSUME TypeOK, RecInv, NEW due \in BOOLEAN, EvictPod(due)
  PROVE  RecOK(rec') /\ \A p \in Pods : pods'[p].label = pods[p].label
<1>1. rec \in Work /\ rec.pc = "evict" /\ RecOK(rec)
  BY DEF EvictPod, RecInv, TypeOK, EvictorTypeOK, Work
<1>2. /\ RecOK(sourcePodGoneDuringEviction(rec))
      /\ RecOK(requeueEviction(rec, due, "BlockedByPDB"))
      /\ RecOK(requeueEviction(rec, due, "EvictionFailed"))
      /\ RecOK(writing(rec, setCondition(rec.pm, "SourceEvicted"), "finish"))
      /\ RecOK(writing(rec, markFailed(rec.pm, "EvictionFailed"), "finish"))
      /\ RecOK(finishing(rec, "error"))
  BY <1>1, EvictionOK, FinishingOK
<1>3. RecOK(rec')
  BY <1>2 DEF EvictPod, createEviction
<1>4. pods' = pods \/ \E p \in Pods : pods' = [pods EXCEPT ![p].st = "terminating"]
  BY DEF EvictPod, createEviction, Named
<1>5. \A p \in Pods : pods'[p].label = pods[p].label
  BY <1>4 DEF TypeOK, ClusterTypeOK, PodState
<1> QED BY <1>3, <1>5

-----------------------------------------------------------------------------
(***************************************************************************)
(* What a step does to the PodMoves                                        *)
(***************************************************************************)
LEMMA UpdateWrites ==
  ASSUME TypeOK, RecInv, rec.pc # "idle", updateAccepted, live' = live,
         status' = [status EXCEPT ![rec.move] = SyncPhase(rec.pm)]
  PROVE  StatusStep
<1> DEFINE m == rec.move
           n == SyncPhase(rec.pm)
<1>1. /\ m \in Moves /\ m \in live /\ rec.base = status[m] /\ RecOK(rec)
      /\ rec.pm \in PodMoveStatus /\ status[m] \in PodMoveStatus
  BY DEF updateAccepted, RecInv, TypeOK, ClusterTypeOK, EvictorTypeOK, RecState
<1>2. n \in PodMoveStatus /\ Same(rec.pm, n) /\ Same(rec.base, rec.base)
  BY <1>1, StatusOps, SyncFields DEF Same
<1>3. StatusOK(n)
  BY <1>1, StepSound, SyncOK DEF RecOK, StatusOK
<1>4. Step(status[m], n)
  BY <1>1, <1>2, StepAlike DEF RecOK
<1>5. Over(status[m]) => n = status[m]
  BY <1>1 DEF RecOK
<1>6. Writes(m, n)
  BY <1>1, <1>3, <1>4, <1>5 DEF Writes
<1> QED BY <1>1, <1>2, <1>6 DEF StatusStep

LEMMA ClaimWrites ==
  ASSUME TypeOK, StatusInv, HookInv, NEW h \in Hooks, hook[h].pc = "update",
         claimAccepted(h), Claim(h), live' = live
  PROVE  StatusStep /\ hook[h].move \in Moves /\ ~Claimed(hook[h].move)
<1> DEFINE m == hook[h].move
           n == setCondition(status[m], "ReplacementClaimed")
<1>1. /\ m \in Moves /\ m \in live /\ hook[h].base = status[m]
      /\ status[m] \in PodMoveStatus /\ StatusOK(status[m])
      /\ isOpenForReplacement(status[m].conds)
  BY DEF claimAccepted, HookInv, StatusInv, TypeOK, ClusterTypeOK
<1>2. n \in PodMoveStatus
  BY <1>1, StatusOps DEF Conditions
<1>3. Writes(m, n)
  BY <1>1, ClaimOK DEF Claim, Writes
<1>4. ~Claimed(m)
  BY <1>1 DEF isOpenForReplacement, Claimed
<1> QED BY <1>1, <1>2, <1>3, <1>4 DEF StatusStep

LEMMA NextStatus == IInv /\ Next => StatusStep
<1> SUFFICES ASSUME IInv, Next PROVE StatusStep
  OBVIOUS
<1> USE DEF IInv
<1>0. UNCHANGED <<status, live>> => StatusStep
  BY DEF StatusStep
<1>1. CASE ClusterNext
  <2>1. ASSUME NEW m \in Moves, CancelMove(m) PROVE StatusStep
    BY <2>1 DEF CancelMove, StatusStep
  <2> QED BY <1>1, <1>0, <2>1 DEF ClusterNext, DeletePod, RemovePod, RunPod, FailPod
<1>2. CASE EvictorNext
  <2>1. ASSUME NEW m \in Moves, NEW due \in BOOLEAN, Reconcile(m, due)
        PROVE  StatusStep
    BY <1>0, <2>1 DEF Reconcile, ReconcileDeleted, ReconcileTerminal, evictSourcePod, waitForClaim,
                reconcileClaimedReplacement, reconcileVerifiedReplacement, get
  <2>2. CASE writeStatus
    BY <1>0, <2>2, UpdateWrites DEF writeStatus
  <2>3. CASE writeStatusFault
    BY <1>0, <2>3, UpdateWrites DEF writeStatusFault
  <2>4. CASE finishReconcile
    BY <1>0, <2>4, UpdateWrites DEF finishReconcile
  <2>5. CASE finishReconcileFault
    BY <1>0, <2>5, UpdateWrites DEF finishReconcileFault
  <2> QED BY <1>2, <1>0, <2>1, <2>2, <2>3, <2>4, <2>5
          DEF EvictorNext, EvictPod, SyncMoves, SyncPods, Crash
<1>3. CASE WebhookNext
  <2>1. ASSUME NEW h \in Hooks, claimUpdate(h) PROVE StatusStep
    BY <1>0, <2>1, ClaimWrites DEF claimUpdate
  <2> QED BY <1>3, <1>0, <2>1 DEF WebhookNext, SyncHook, CreateRequest, skipCandidate, tryCandidate,
              claimGet, Admit, CreateRejected, AdmissionTimeout
<1> QED BY <1>1, <1>2, <1>3 DEF Next

\* No condition is ever taken back.
LEMMA NextClaimed ==
  ASSUME TypeOK, StatusInv, StatusStep, NEW m \in Moves
  PROVE  /\ StatusOK(status'[m])
         /\ status[m].conds \subseteq status'[m].conds
<1>0. status \in [Moves -> PodMoveStatus] /\ StatusOK(status[m])
  BY DEF TypeOK, ClusterTypeOK, StatusInv
<1>1. CASE UNCHANGED status
  BY <1>0, <1>1
<1>2. ASSUME NEW o \in Moves, NEW n \in PodMoveStatus, Writes(o, n)
      PROVE  StatusOK(status'[m]) /\ status[m].conds \subseteq status'[m].conds
  <2>1. CASE o = m
    BY <1>0, <1>2, <2>1, StepSound DEF Writes, StatusOK
  <2>2. CASE o # m
    BY <1>0, <1>2, <2>2 DEF Writes
  <2> QED BY <2>1, <2>2
<1> QED BY <1>1, <1>2 DEF StatusStep

-----------------------------------------------------------------------------
(***************************************************************************)
(* The invariant                                                           *)
(***************************************************************************)
LEMMA InitInv == Init => IInv
<1> SUFFICES ASSUME Init PROVE IInv
  OBVIOUS
<1>1. TypeOK
  BY InitType
<1>2. StatusInv
  BY NewPodMoveOK DEF Init, ClusterInit, EvictorInit, StatusInv
<1>3. RecInv
  BY DEF Init, EvictorInit, Idle, RecInv
<1>4. HookInv
  BY NewPodMoveOK DEF Init, WebhookInit, NoRequest, HookInv
<1>5. ClaimInv
  BY SetsAssumption DEF Init, ClusterInit, WebhookInit, NoRequest, ClaimInv, Pinning
<1> QED BY <1>1, <1>2, <1>3, <1>4, <1>5 DEF IInv

\* A step of the reconciler reads correct copies and keeps its own correct.
LEMMA EvictorInv ==
  ASSUME IInv, EvictorNext
  PROVE  RecInv'
<1> USE DEF IInv
<1>0. UNCHANGED rec => RecInv'
  BY DEF RecInv, RecOK
<1>1. Idle.pc = "idle"
  BY DEF Idle
<1>2. rec' = Idle => RecInv'
  BY <1>1 DEF RecInv
<1>3. rec.pc # "idle" => rec \in Work /\ RecOK(rec)
  BY DEF RecInv, TypeOK, EvictorTypeOK, Work
<1>4. ASSUME NEW m \in Moves, NEW due \in BOOLEAN, Reconcile(m, due)
      PROVE  RecInv'
  BY <1>4, ReconcileOK
<1>5. ASSUME NEW due \in BOOLEAN, EvictPod(due)
      PROVE  RecInv'
  BY <1>5, EvictPodOK DEF RecInv
<1>6. CASE writeStatus
  BY <1>2, <1>3, <1>6, WriteOK DEF writeStatus, RecInv
<1>7. CASE writeStatusFault
  BY <1>3, <1>7, WriteOK DEF writeStatusFault, RecInv
<1> QED BY <1>0, <1>2, <1>4, <1>5, <1>6, <1>7
        DEF EvictorNext, finishReconcile, finishReconcileFault, SyncMoves, SyncPods, Crash

\* The cache holds statuses that were once those of the API server.
LEMMA NextStatusInv ==
  ASSUME IInv, Next
  PROVE  StatusInv'
<1>1. UNCHANGED cached \/ cached' = status
  BY DEF Next, ClusterNext, EvictorNext, WebhookNext, evictorVars, Reconcile, ReconcileDeleted,
         ReconcileTerminal, evictSourcePod, waitForClaim, reconcileClaimedReplacement,
         reconcileVerifiedReplacement, get, EvictPod, writeStatus, writeStatusFault,
         finishReconcile, finishReconcileFault, SyncMoves, SyncPods, Crash
<1>2. \A m \in Moves : StatusOK(status'[m])
  BY NextStatus, NextClaimed DEF IInv
<1> QED BY <1>1, <1>2 DEF StatusInv, IInv

\* A request that is about to claim a PodMove has read that it is open.
LEMMA NextHookInv ==
  ASSUME IInv, NEW h \in Hooks,
         \/ SyncHook(h)
         \/ \E p \in Pods : CreateRequest(h, p)
         \/ \E m \in Moves : skipCandidate(h, m) \/ tryCandidate(h, m)
         \/ claimGet(h) \/ claimUpdate(h)
         \/ Admit(h) \/ CreateRejected(h) \/ AdmissionTimeout(h)
  PROVE  HookInv'
<1> USE DEF IInv
<1>1. hook \in [Hooks -> HookState] /\ StatusOK(hook[h].base)
  BY DEF TypeOK, WebhookTypeOK, HookInv
<1>2. ASSUME NEW r, hook' = [hook EXCEPT ![h] = r], StatusOK(r.base),
             r.pc = "update" => isOpenForReplacement(r.base.conds)
      PROVE  HookInv'
  BY <1>1, <1>2 DEF HookInv
<1>3. \A r \in HookState, todo \in SUBSET Moves :
        /\ StatusOK(nextCandidate(r, todo).base)
        /\ nextCandidate(r, todo).pc # "update"
  BY NewPodMoveOK DEF nextCandidate, HookState
<1>4. StatusOK(NoRequest.base) /\ NoRequest.pc = "idle"
  BY NewPodMoveOK DEF NoRequest
<1>5. UNCHANGED hook => HookInv'
  BY DEF HookInv
<1>6. CASE SyncHook(h)
  BY <1>5, <1>6 DEF SyncHook
<1>7. ASSUME NEW p \in Pods, CreateRequest(h, p)
      PROVE  HookInv'
  <2>1. PICK name \in NamesFor(p) :
          hook' = [hook EXCEPT ![h] =
                     nextCandidate([NoRequest EXCEPT !.pod = p, !.name = name],
                                   listOpenPodMoveMatches(h, p, name))]
    BY <1>7 DEF CreateRequest
  <2>2. name \in Pods /\ listOpenPodMoveMatches(h, p, name) \in SUBSET Moves
    BY DEF NamesFor, listOpenPodMoveMatches
  <2>3. [NoRequest EXCEPT !.pod = p, !.name = name] \in HookState
    BY <2>2, NoRequestType DEF HookOK, HookState
  <2> QED BY <1>2, <1>3, <2>1, <2>2, <2>3
<1>8. ASSUME NEW m \in Moves, skipCandidate(h, m)
      PROVE  HookInv'
  BY <1>1, <1>2, <1>3, <1>8, HookOKType DEF skipCandidate
<1>9. ASSUME NEW m \in Moves, tryCandidate(h, m)
      PROVE  HookInv'
  <2> DEFINE r == [hook[h] EXCEPT !.pc = "get", !.move = m, !.todo = hook[h].todo \ {m}]
  <2>1. r.pc = "get" /\ r.base = hook[h].base /\ hook' = [hook EXCEPT ![h] = r]
    BY <1>1, <1>9 DEF tryCandidate, HookState
  <2> HIDE DEF r
  <2> QED BY <1>1, <1>2, <2>1
<1>10. CASE claimGet(h)
  <2> DEFINE r == [hook[h] EXCEPT !.pc = "update", !.base = status[hook[h].move]]
  <2>1. \/ /\ hook[h].move \in live /\ isOpenForReplacement(status[hook[h].move].conds)
           /\ hook' = [hook EXCEPT ![h] = r]
        \/ hook' = [hook EXCEPT ![h] = nextCandidate(hook[h], hook[h].todo)]
    BY <1>1, <1>10 DEF claimGet
  <2>2. r.base = status[hook[h].move]
    BY <1>1 DEF HookState
  <2>3. hook[h].move \in live => StatusOK(status[hook[h].move])
    BY DEF StatusInv, TypeOK, ClusterTypeOK
  <2> HIDE DEF r
  <2> QED BY <1>1, <1>2, <1>3, <2>1, <2>2, <2>3, HookOKType
<1>11. CASE claimUpdate(h)
  <2> DEFINE tries == hook[h].tries + 1
             r1 == [hook[h] EXCEPT !.pc = "reply", !.todo = {}, !.base = NewPodMove, !.tries = 0]
             r2 == [hook[h] EXCEPT !.pc = "get", !.base = NewPodMove, !.tries = tries]
             r3 == nextCandidate(hook[h], hook[h].todo)
  <2>1. \E r \in {r1, r2, r3} : hook' = [hook EXCEPT ![h] = r]
    BY <1>1, <1>11 DEF claimUpdate
  <2>2. r1.base = NewPodMove /\ r1.pc = "reply" /\ r2.base = NewPodMove /\ r2.pc = "get"
    BY <1>1 DEF HookState
  <2>3. StatusOK(r3.base) /\ r3.pc # "update"
    BY <1>1, <1>3, HookOKType
  <2> HIDE DEF r1, r2, r3
  <2> QED BY <1>2, <2>1, <2>2, <2>3, NewPodMoveOK
<1>12. CASE Admit(h)
  BY <1>2, <1>4, <1>12 DEF Admit
<1>13. CASE CreateRejected(h)
  BY <1>2, <1>4, <1>13 DEF CreateRejected
<1>14. CASE AdmissionTimeout(h)
  <2> DEFINE r == [hook[h] EXCEPT !.pod = None, !.name = None]
  <2>1. r.pc = hook[h].pc /\ r.base = hook[h].base /\ hook' = [hook EXCEPT ![h] = r]
    BY <1>1, <1>14 DEF AdmissionTimeout, HookState
  <2> HIDE DEF r
  <2> QED BY <1>1, <1>2, <2>1 DEF HookInv
<1> QED BY <1>6, <1>7, <1>8, <1>9, <1>10, <1>11, <1>12, <1>13, <1>14

\* Who holds a PodMove holds it still when no pod gets a label, no request
\* begins to pin one and no condition is taken back.
LEMMA HoldersStay ==
  ASSUME TypeOK, ClaimInv,
         \A m \in Moves : Claimed(m) => Claimed(m)',
         \A p \in Pods, m \in Moves : pods'[p].label = m => pods[p].label = m,
         \A h \in Hooks, m \in Moves : Pinning(h, m)' => Pinning(h, m)
  PROVE  ClaimInv'
  BY DEF ClaimInv

\* A pod is pinned to a PodMove by the one request that has claimed it.
LEMMA AdmitInv ==
  ASSUME IInv, NEW h \in Hooks, Admit(h)
  PROVE  ClaimInv'
<1> USE DEF IInv
<1>0. /\ hook \in [Hooks -> HookState] /\ pods \in [Pods -> PodState]
      /\ UNCHANGED status /\ hook[h].pc = "reply"
      /\ hook' = [hook EXCEPT ![h] = NoRequest]
  BY DEF TypeOK, WebhookTypeOK, ClusterTypeOK, Admit
<1>1. \A m \in Moves : ~Pinning(h, m)'
  BY <1>0 DEF Pinning, NoRequest
<1>2. \A g \in Hooks, m \in Moves : g # h => (Pinning(g, m)' <=> Pinning(g, m))
  BY <1>0 DEF Pinning
<1>3. \A m \in Moves : Claimed(m)' <=> Claimed(m)
  BY <1>0 DEF Claimed
<1>4. CASE hook[h].pod = None
  <2>1. UNCHANGED pods
    BY <1>4 DEF Admit
  <2> QED BY <1>1, <1>2, <1>3, <2>1, HoldersStay
<1>5. CASE hook[h].pod # None
  <2> DEFINE q == hook[h].pod
             o == hook[h].move
  <2>1. q \in Pods /\ pods' = [pods EXCEPT ![q] = NewPod(hook[h].name, o)]
    BY <1>0, <1>5 DEF HookState, Admit, Persist
  <2>2. /\ pods'[q].label = o
        /\ \A p \in Pods \ {q} : pods'[p] = pods[p]
    BY <1>0, <2>1 DEF NewPod
  <2>3. \A m \in Moves : o = m <=> Pinning(h, m)
    BY <1>0 DEF Pinning
  <2> HIDE DEF q, o
  <2>4. ASSUME NEW m \in Moves
        PROVE  /\ \A p \in Pods : pods'[p].label = m => Claimed(m)'
               /\ \A g \in Hooks : Pinning(g, m)' => Claimed(m)'
               /\ \A f, g \in Hooks : Pinning(f, m)' /\ Pinning(g, m)' => f = g
    BY <1>1, <1>2, <1>3, <2>1, <2>2, <2>3 DEF ClaimInv
  <2>5. ASSUME NEW m \in Moves, NEW g \in Hooks, NEW p \in Pods, Pinning(g, m)'
        PROVE  pods'[p].label # m
    <3>1. g # h /\ Pinning(g, m)
      BY <1>1, <1>2, <2>5
    <3>2. p # q => pods'[p].label # m
      BY <2>2, <3>1 DEF ClaimInv
    <3>3. p = q => pods'[p].label # m
      BY <2>2, <2>3, <3>1 DEF ClaimInv
    <3> QED BY <3>2, <3>3
  <2>6. ASSUME NEW m \in Moves, NEW p1 \in Pods, NEW p2 \in Pods,
               pods'[p1].label = m, pods'[p2].label = m
        PROVE  p1 = p2
    <3>1. CASE Pinning(h, m)
      BY <2>2, <2>6, <3>1 DEF ClaimInv
    <3>2. CASE ~Pinning(h, m)
      BY <2>2, <2>3, <2>6, <3>2 DEF ClaimInv
    <3> QED BY <3>1, <3>2
  <2> QED BY <2>4, <2>5, <2>6 DEF ClaimInv
<1> QED BY <1>4, <1>5

\* The claim that the API server accepts has found the PodMove unclaimed, and
\* so without a holder.
LEMMA ClaimUpdateInv ==
  ASSUME IInv, NEW h \in Hooks, claimUpdate(h),
         \A m \in Moves : Claimed(m) => Claimed(m)'
  PROVE  ClaimInv'
<1> USE DEF IInv
<1> DEFINE r == [hook[h] EXCEPT !.pc = "reply", !.todo = {}, !.base = NewPodMove, !.tries = 0]
<1> PICK o \in Moves \cup {None} : o = hook[h].move
  BY HookOKType
<1>0. /\ hook \in [Hooks -> HookState] /\ UNCHANGED pods /\ hook[h].pc = "update"
      /\ status \in [Moves -> PodMoveStatus] /\ live' = live
  BY DEF TypeOK, WebhookTypeOK, ClusterTypeOK, claimUpdate
<1>1. CASE claimAccepted(h) /\ Claim(h) /\ hook' = [hook EXCEPT ![h] = r]
  <2>1. o \in Moves /\ ~Claimed(o)
    BY <1>0, <1>1, ClaimWrites
  <2>2. Claimed(o)'
    <3>1. hook[h].base \in PodMoveStatus
      BY <1>0 DEF HookState
    <3>2. status'[o] = setCondition(hook[h].base, "ReplacementClaimed")
      BY <1>0, <1>1, <2>1 DEF Claim
    <3> QED BY <3>1, <3>2 DEF Claimed, setCondition, PodMoveStatus
  <2>3. \A m \in Moves : Pinning(h, m)' => m = o
    BY <1>0, <1>1 DEF Pinning, HookState
  <2>4. \A g \in Hooks, m \in Moves : g # h => (Pinning(g, m)' <=> Pinning(g, m))
    BY <1>0, <1>1 DEF Pinning
  <2>5. \A m \in Moves : ~Pinning(h, m)
    BY <1>0 DEF Pinning
  <2> HIDE DEF r
  <2> QED BY <1>0, <2>1, <2>2, <2>3, <2>4, <2>5 DEF ClaimInv
<1>2. CASE ~(claimAccepted(h) /\ Claim(h) /\ hook' = [hook EXCEPT ![h] = r])
  <2> DEFINE tries == hook[h].tries + 1
             r2 == [hook[h] EXCEPT !.pc = "get", !.base = NewPodMove, !.tries = tries]
             r3 == nextCandidate(hook[h], hook[h].todo)
  <2>1. \E s \in {r2, r3} : hook' = [hook EXCEPT ![h] = s]
    BY <1>0, <1>2 DEF claimUpdate
  <2>2. r2.pc = "get" /\ r3.move = None
    BY <1>0 DEF HookState, nextCandidate
  <2> HIDE DEF r2, r3
  <2>3. \A g \in Hooks, m \in Moves : Pinning(g, m)' => Pinning(g, m)
    BY <1>0, <2>1, <2>2, SetsAssumption DEF Pinning
  <2> QED BY <1>0, <2>3, HoldersStay
<1> QED BY <1>1, <1>2

LEMMA NextClaimInv ==
  ASSUME IInv, Next
  PROVE  ClaimInv'
<1> USE DEF IInv
<1>0. \A m \in Moves : Claimed(m) => Claimed(m)'
  BY NextStatus, NextClaimed DEF Claimed
<1>1. /\ hook \in [Hooks -> HookState] /\ pods \in [Pods -> PodState]
  BY DEF TypeOK, WebhookTypeOK, ClusterTypeOK
<1>2. CASE ClusterNext /\ UNCHANGED <<evictorVars, webhookVars>>
  <2>1. \A h \in Hooks, m \in Moves : Pinning(h, m)' => Pinning(h, m)
    BY <1>2 DEF webhookVars, Pinning
  <2>2. \A p \in Pods : pods'[p].label = pods[p].label
    BY <1>1, <1>2 DEF ClusterNext, DeletePod, RemovePod, RunPod, FailPod, CancelMove, PodState
  <2> QED BY <1>0, <2>1, <2>2, HoldersStay
<1>3. CASE EvictorNext /\ UNCHANGED webhookVars
  <2>1. \A h \in Hooks, m \in Moves : Pinning(h, m)' => Pinning(h, m)
    BY <1>3 DEF webhookVars, Pinning
  <2>2. UNCHANGED pods \/ \E due \in BOOLEAN : EvictPod(due)
    BY <1>3 DEF EvictorNext, Reconcile, ReconcileDeleted, ReconcileTerminal, evictSourcePod,
           waitForClaim, reconcileClaimedReplacement, reconcileVerifiedReplacement, get,
           writeStatus, writeStatusFault, finishReconcile, finishReconcileFault, SyncMoves,
           SyncPods, Crash
  <2>3. \A p \in Pods : pods'[p].label = pods[p].label
    BY <2>2, EvictPodOK
  <2> QED BY <1>0, <2>1, <2>3, HoldersStay
<1>4. ASSUME NEW h \in Hooks,
             \/ SyncHook(h)
             \/ \E p \in Pods : CreateRequest(h, p)
             \/ \E m \in Moves : skipCandidate(h, m) \/ tryCandidate(h, m)
             \/ claimGet(h) \/ CreateRejected(h) \/ AdmissionTimeout(h)
      PROVE  ClaimInv'
  <2> DEFINE NoPins == \A g \in Hooks, m \in Moves : Pinning(g, m)' => Pinning(g, m)
  <2>a. ASSUME NEW r, hook' = [hook EXCEPT ![h] = r],
               r.pc # "reply" \/ r.move = None \/ (r.pc = hook[h].pc /\ r.move = hook[h].move)
        PROVE  NoPins
    BY <1>1, <2>a, SetsAssumption DEF Pinning
  <2>b. \A r \in HookState, todo \in SUBSET Moves : nextCandidate(r, todo).move = None
    BY DEF nextCandidate, HookState
  <2>c. hook[h] \in HookState /\ hook[h].todo \in SUBSET Moves /\ NoRequest.pc = "idle"
    BY <1>1 DEF HookState, NoRequest
  <2>1. NoPins
    <3>1. CASE SyncHook(h)
      BY <3>1 DEF SyncHook, Pinning
    <3>2. ASSUME NEW p \in Pods, CreateRequest(h, p) PROVE NoPins
      <4>1. PICK name \in NamesFor(p) :
              hook' = [hook EXCEPT ![h] =
                         nextCandidate([NoRequest EXCEPT !.pod = p, !.name = name],
                                       listOpenPodMoveMatches(h, p, name))]
        BY <3>2 DEF CreateRequest
      <4>2. nextCandidate([NoRequest EXCEPT !.pod = p, !.name = name],
                          listOpenPodMoveMatches(h, p, name)).move = None
        BY DEF nextCandidate, NoRequest
      <4> QED BY <2>a, <4>1, <4>2
    <3>3. ASSUME NEW m \in Moves, skipCandidate(h, m) PROVE NoPins
      BY <2>a, <2>b, <2>c, <3>3 DEF skipCandidate
    <3>4. ASSUME NEW m \in Moves, tryCandidate(h, m) PROVE NoPins
      <4> DEFINE r == [hook[h] EXCEPT !.pc = "get", !.move = m, !.todo = hook[h].todo \ {m}]
      <4>1. r.pc = "get" /\ hook' = [hook EXCEPT ![h] = r]
        BY <1>1, <2>c, <3>4 DEF tryCandidate, HookState
      <4> HIDE DEF r
      <4> QED BY <2>a, <4>1
    <3>5. CASE claimGet(h)
      <4> DEFINE r == [hook[h] EXCEPT !.pc = "update", !.base = status[hook[h].move]]
      <4>1. \/ hook' = [hook EXCEPT ![h] = r]
            \/ hook' = [hook EXCEPT ![h] = nextCandidate(hook[h], hook[h].todo)]
        BY <1>1, <3>5 DEF claimGet
      <4>2. r.pc = "update"
        BY <2>c DEF HookState
      <4> HIDE DEF r
      <4> QED BY <2>a, <2>b, <2>c, <4>1, <4>2
    <3>6. CASE CreateRejected(h)
      BY <2>a, <2>c, <3>6 DEF CreateRejected
    <3>7. CASE AdmissionTimeout(h)
      <4> DEFINE r == [hook[h] EXCEPT !.pod = None, !.name = None]
      <4>1. r.pc = hook[h].pc /\ r.move = hook[h].move /\ hook' = [hook EXCEPT ![h] = r]
        BY <1>1, <2>c, <3>7 DEF AdmissionTimeout, HookState
      <4> HIDE DEF r
      <4> QED BY <2>a, <4>1
    <3> QED BY <1>4, <3>1, <3>2, <3>3, <3>4, <3>5, <3>6, <3>7
  <2>2. \A p \in Pods, m \in Moves : pods'[p].label = m => pods[p].label = m
    <3>1. CASE AdmissionTimeout(h)
      <4>1. hook[h].pod \in Pods
            /\ pods' = [pods EXCEPT ![hook[h].pod] = NewPod(hook[h].name, None)]
        BY <2>c, <3>1 DEF AdmissionTimeout, Persist, HookState
      <4>2. NewPod(hook[h].name, None).label = None
        BY DEF NewPod
      <4> QED BY <1>1, <4>1, <4>2, SetsAssumption
    <3>2. CASE ~AdmissionTimeout(h)
      BY <1>4, <3>2 DEF SyncHook, CreateRequest, skipCandidate, tryCandidate, claimGet,
                        CreateRejected
    <3> QED BY <3>1, <3>2
  <2> QED BY <1>0, <2>1, <2>2, HoldersStay
<1>5. CASE WebhookNext /\ UNCHANGED evictorVars
  BY <1>0, <1>4, <1>5, AdmitInv, ClaimUpdateInv DEF WebhookNext
<1> QED BY <1>2, <1>3, <1>5 DEF Next

LEMMA NextInv == IInv /\ [Next]_vars => IInv'
<1> SUFFICES ASSUME IInv, [Next]_vars PROVE IInv'
  OBVIOUS
<1>1. TypeOK'
  BY NextType DEF IInv
<1>2. CASE Next
  <2>1. RecInv'
    <3>1. EvictorNext => RecInv'
      BY EvictorInv
    <3>2. UNCHANGED evictorVars => RecInv'
      BY DEF evictorVars, IInv, RecInv, RecOK
    <3> QED BY <1>2, <3>1, <3>2 DEF Next
  <2>2. HookInv'
    <3>1. WebhookNext => HookInv'
      BY NextHookInv DEF WebhookNext
    <3>2. UNCHANGED webhookVars => HookInv'
      BY DEF webhookVars, IInv, HookInv
    <3> QED BY <1>2, <3>1, <3>2 DEF Next
  <2> QED BY <1>1, <1>2, <2>1, <2>2, NextStatusInv, NextClaimInv DEF IInv
<1>3. CASE UNCHANGED vars
  BY <1>1, <1>3 DEF vars, clusterVars, evictorVars, webhookVars, IInv, StatusInv, RecInv, RecOK,
                    HookInv, ClaimInv, Claimed, Pinning
<1> QED BY <1>2, <1>3

\* The invariant holds for any number of PodMoves, pods, requests in flight,
\* attempts, restarts and failed writes.
THEOREM Invariant == Spec => []IInv
  BY InitInv, NextInv, PTL DEF Spec

-----------------------------------------------------------------------------
(***************************************************************************)
(* What follows from it                                                    *)
(***************************************************************************)
\* No two pods are ever pinned to one PodMove: a claim is accepted only for a
\* PodMove that no pod and no request holds (claimReplacement, webhook/podmove.go).
THEOREM OneReplacement == Spec => []PinnedOnce
<1>1. IInv => PinnedOnce
  BY DEF IInv, TypeOK, ClusterTypeOK, PodState, ClaimInv, PinnedOnce
<1> QED BY <1>1, Invariant, PTL

\* A PodMove that was given up for want of a claim has no claim and no pod: both
\* verdicts are writes over the version that they were reached on.
THEOREM ClaimOrTimeout == Spec => []ClaimBeatsTimeout
<1>1. IInv => ClaimBeatsTimeout
  BY DEF IInv, StatusInv, StatusOK, Sound, ClaimInv, Claimed, ClaimBeatsTimeout
<1> QED BY <1>1, Invariant, PTL

\* The phase that is shown lacks the webhook's claim at most.
THEOREM PhaseLag == Spec => []PhaseLagsOnlyTheClaim
<1>1. IInv => PhaseLagsOnlyTheClaim
  BY DEF IInv, StatusInv, StatusOK, PhaseLags, PhaseLagsOnlyTheClaim
<1> QED BY <1>1, Invariant, PTL

\* A PodMove that has ended keeps its status, whatever is in flight.
THEOREM TerminalStays == Spec => TerminalIsFinal
<1>1. ASSUME IInv, [Next]_vars, NEW m \in Moves, Ended(m)
      PROVE  status'[m] = status[m]
  <2>1. status \in [Moves -> PodMoveStatus] /\ Over(status[m])
    BY <1>1 DEF IInv, TypeOK, ClusterTypeOK, Ended, IsTerminal, DerivePhase, Over
  <2>2. CASE Next
    <3>1. CASE UNCHANGED status
      BY <3>1
    <3>2. ASSUME NEW o \in Moves, NEW n \in PodMoveStatus, Writes(o, n)
          PROVE  status'[m] = status[m]
      BY <2>1, <3>2 DEF Writes
    <3> QED BY <1>1, <2>2, <3>1, <3>2, NextStatus DEF StatusStep
  <2>3. CASE UNCHANGED vars
    BY <2>3 DEF vars, clusterVars
  <2> QED BY <1>1, <2>2, <2>3
<1>2. IInv /\ [Next]_vars => \A m \in Moves : Ended(m) => status'[m] = status[m]
  BY <1>1
<1> QED BY <1>2, Invariant, PTL DEF Spec, TerminalIsFinal

\* The evictor and the webhook together implement PodMoveLifecycle: every step
\* of theirs is one step of one PodMove's lifecycle, or none.
THEOREM Implements == Spec => LifecycleSpec
<1>0. /\ Lifecycle!Conditions = Conditions
      /\ Lifecycle!Reasons = Reasons
      /\ Lifecycle!NoReason = NoReason
  BY DEF Lifecycle!Conditions, Lifecycle!Reasons, Lifecycle!NoReason,
         Conditions, Reasons, NoReason
<1>1. Init => Lifecycle!Init
  BY <1>0 DEF Init, ClusterInit, NewPodMove, Lifecycle!Init
<1>2. ASSUME IInv, [Next]_vars PROVE [Lifecycle!Next]_(Lifecycle!vars)
  <2>0. status \in [Moves -> PodMoveStatus]
    BY <1>2 DEF IInv, TypeOK, ClusterTypeOK
  <2>1. UNCHANGED <<status, live>> => UNCHANGED Lifecycle!vars
    BY DEF Lifecycle!vars
  <2>2. ASSUME NEW m \in live, live' = live \ {m}, UNCHANGED status
        PROVE  Lifecycle!Next
    <3>1. m \in Moves
      BY <1>2 DEF IInv, TypeOK, ClusterTypeOK
    <3>2. Lifecycle!Delete(m)
      BY <2>2 DEF Lifecycle!Delete
    <3> QED BY <3>1, <3>2 DEF Lifecycle!Next
  <2>3. ASSUME NEW m \in Moves, NEW n \in PodMoveStatus, Writes(m, n)
        PROVE  Lifecycle!Next \/ UNCHANGED Lifecycle!vars
    <3> DEFINE conds == [o \in Moves |-> status[o].conds]
               reason == [o \in Moves |-> status[o].reason]
    <3>1. /\ m \in live /\ live' = live /\ Step(status[m], n)
          /\ conds' = [conds EXCEPT ![m] = n.conds]
          /\ reason' = [reason EXCEPT ![m] = n.reason]
      BY <2>0, <2>3 DEF Writes
    <3>2. /\ conds[m] = status[m].conds /\ reason[m] = status[m].reason
          /\ conds = [o \in Moves |-> conds[o]]
          /\ reason = [o \in Moves |-> reason[o]]
      OBVIOUS
    <3> HIDE DEF conds, reason
    <3>a. /\ \A c : Lifecycle!Reach(m, c) <=>
                    /\ m \in live /\ conds[m] \cap {"Failed", "ReplacementSucceeded"} = {}
                    /\ c \notin conds[m] /\ Lifecycle!Needs(c) \subseteq conds[m]
                    /\ conds' = [conds EXCEPT ![m] = @ \cup {c}]
                    /\ UNCHANGED <<reason, live>>
          /\ \A r : Lifecycle!Fail(m, r) <=>
                    /\ m \in live /\ conds[m] \cap {"Failed", "ReplacementSucceeded"} = {}
                    /\ "SourceEvicting" \in conds[m] /\ Lifecycle!MayFail(conds[m], r)
                    /\ conds' = [conds EXCEPT ![m] = @ \cup {"Failed"}]
                    /\ reason' = [reason EXCEPT ![m] = r]
                    /\ UNCHANGED live
      BY DEF Lifecycle!Reach, Lifecycle!Fail, Lifecycle!Open, conds, reason
    <3>3. CASE Same(n, status[m])
      <4>1. conds' = conds /\ reason' = reason
        BY <3>1, <3>2, <3>3 DEF Same
      <4>2. UNCHANGED Lifecycle!vars
        BY <3>1, <4>1 DEF Lifecycle!vars, conds, reason
      <4> QED BY <4>2
    <3>4. ASSUME ~Over(status[m]), NEW c \in (Conditions \ {"Failed"}) \ status[m].conds,
                 Lifecycle!Needs(c) \subseteq status[m].conds,
                 n.conds = status[m].conds \cup {c}, n.reason = status[m].reason
          PROVE  Lifecycle!Next
      <4>1. conds' = [conds EXCEPT ![m] = @ \cup {c}] /\ UNCHANGED reason
        BY <3>1, <3>2, <3>4
      <4>2. Lifecycle!Reach(m, c)
        BY <3>1, <3>2, <3>4, <3>a, <4>1 DEF Over
      <4>3. c \in Lifecycle!Conditions \ {"Failed"}
        BY <1>0
      <4> QED BY <4>2, <4>3 DEF Lifecycle!Next
    <3>5. ASSUME ~Over(status[m]), NEW r \in Reasons, "SourceEvicting" \in status[m].conds,
                 Lifecycle!MayFail(status[m].conds, r),
                 n.conds = status[m].conds \cup {"Failed"}, n.reason = r
          PROVE  Lifecycle!Next
      <4>1. /\ conds' = [conds EXCEPT ![m] = @ \cup {"Failed"}]
            /\ reason' = [reason EXCEPT ![m] = r]
        BY <3>1, <3>2, <3>5
      <4>2. Lifecycle!Fail(m, r)
        BY <3>1, <3>2, <3>5, <3>a, <4>1 DEF Over
      <4>3. r \in Lifecycle!Reasons
        BY <1>0
      <4> QED BY <4>2, <4>3 DEF Lifecycle!Next
    <3> QED BY <3>1, <3>3, <3>4, <3>5 DEF Step, Same
  <2>4. CASE Next
    BY <1>2, <2>1, <2>2, <2>3, <2>4, NextStatus DEF StatusStep
  <2>5. CASE UNCHANGED vars
    BY <2>1, <2>5 DEF vars, clusterVars
  <2> QED BY <1>2, <2>4, <2>5
<1>3. IInv /\ [Next]_vars => [Lifecycle!Next]_(Lifecycle!vars)
  BY <1>2
<1> QED BY <1>1, <1>3, Invariant, PTL DEF Spec, LifecycleSpec, Lifecycle!Spec
=============================================================================
