----------------------------- MODULE PlannerProofs -----------------------------
(***************************************************************************)
(* Proofs about a run of the planner (Planner): its simulations start from *)
(* clean snapshots, the best of their results is chosen, and the moves of  *)
(* that one free the nodes it names and fit.                               *)
(*                                                                         *)
(* The library states induction for operators, which no prover here can    *)
(* instantiate; what is needed of the sums of requests is proved from      *)
(* well-founded minima (WFMin) instead, for sets of sets.                  *)
(***************************************************************************)
EXTENDS Planner, SequenceTheorems, FiniteSetTheorems, TLAPS

-----------------------------------------------------------------------------
(***************************************************************************)
(* Sums of requests                                                        *)
(***************************************************************************)
\* A collection that has a set whenever it has its proper subsets has them all.
LEMMA SubsetInduction ==
  ASSUME NEW S, IsFiniteSet(S), NEW C,
         \A T \in SUBSET S : (\A U \in SUBSET T : U # T => U \in C) => T \in C
  PROVE  SUBSET S \subseteq C
<1> DEFINE missing == (SUBSET S) \ C
<1> SUFFICES ASSUME missing # {} PROVE FALSE
  OBVIOUS
<1>1. IsWellFoundedOn(StrictSubsetOrdering(S), SUBSET S)
  <2>1. FiniteSubsetsOf(S) = SUBSET S
    BY FS_FiniteSubsetsOfFinite, Zenon
  <2>2. IsWellFoundedOn(StrictSubsetOrdering(S), FiniteSubsetsOf(S))
    BY FS_StrictSubsetOrderingWellFounded, Zenon
  <2> QED
    BY <2>1, <2>2, Zenon
<1>2. PICK T \in missing : \A U \in missing : ~(<<U, T>> \in StrictSubsetOrdering(S))
  <2> DEFINE R == StrictSubsetOrdering(S)  D == SUBSET S
  <2>1. missing \subseteq D /\ missing # {} /\ IsWellFoundedOn(R, D)
    BY <1>1
  <2> HIDE DEF missing, R, D
  <2>2. \E T \in missing : \A U \in missing : ~(<<U, T>> \in R)
    BY <2>1, WFMin, SMTT(20)
  <2> QED
    BY <2>2 DEF R
<1>3. ASSUME NEW U \in SUBSET T, U # T
      PROVE  U \in C
  <2>1. <<U, T>> \in StrictSubsetOrdering(S)
    BY <1>3 DEF StrictSubsetOrdering
  <2> QED
    BY <1>2, <2>1
<1> QED
  BY <1>2, <1>3

sumOf(r, S) == MapThenSumSet(LAMBDA p : r[p], S)

\* g has the sums of r over the subsets of S, which take their elements in the
\* order in which CHOOSE gives them.
one(s) == CHOOSE x \in s : TRUE
hasSums(g, r, S) ==
  g = [s \in SUBSET S |-> IF s = {} THEN 0 ELSE r[one(s)] + g[s \ {one(s)}]]

LEMMA SumIsChosen ==
  ASSUME NEW r, NEW S
  PROVE  sumOf(r, S) = (CHOOSE g : hasSums(g, r, S))[S]
BY DEF sumOf, MapThenSumSet, MapThenFoldSet, hasSums, one

\* Two functions that have the sums agree.
LEMMA SumsAgree ==
  ASSUME NEW r, NEW S, NEW T, NEW g, NEW h, IsFiniteSet(S), T \subseteq S,
         hasSums(g, r, S), hasSums(h, r, T)
  PROVE  \A s \in SUBSET T : g[s] = h[s]
<1> DEFINE same == {s \in SUBSET T : g[s] = h[s]}
<1>1. IsFiniteSet(T)
  BY FS_Subset
<1>2. ASSUME NEW s \in SUBSET T, \A u \in SUBSET s : u # s => u \in same
      PROVE  s \in same
  <2>1. CASE s = {}
    BY <2>1 DEF hasSums
  <2>2. CASE s # {}
    <3>1. s \ {one(s)} \in same
      <4>1. one(s) \in s
        BY <2>2 DEF one
      <4> QED
        BY <1>2, <4>1
    <3>2. s \in SUBSET S
      OBVIOUS
    <3>3. g[s] = r[one(s)] + g[s \ {one(s)}]
      BY <2>2, <3>2 DEF hasSums
    <3>4. h[s] = r[one(s)] + h[s \ {one(s)}]
      BY <2>2 DEF hasSums
    <3> QED
      BY <3>1, <3>3, <3>4
  <2> QED
    BY <2>1, <2>2
<1> HIDE DEF same
<1>3. SUBSET T \subseteq same
  BY <1>1, <1>2, SubsetInduction
<1> QED
  BY <1>3 DEF same

\* There is a function that has the sums over the subsets of a finite set.
LEMMA SumsExist ==
  ASSUME NEW r, NEW S, IsFiniteSet(S)
  PROVE  \E g : hasSums(g, r, S)
<1> DEFINE summed == {s \in SUBSET S : \E g : hasSums(g, r, s)}
<1>1. ASSUME NEW T \in SUBSET S, \A s \in SUBSET T : s # T => s \in summed
      PROVE  T \in summed
  <2> DEFINE g == [s \in SUBSET T |->
                     IF s = {} THEN 0 ELSE r[one(s)] + sumOf(r, s \ {one(s)})]
  <2>1. ASSUME NEW s \in SUBSET T, s # {}
        PROVE  g[s \ {one(s)}] = sumOf(r, s \ {one(s)})
    <3> DEFINE u == s \ {one(s)}
    <3>1. u \in SUBSET T /\ u # T
      BY <2>1 DEF one
    <3>2. PICK h : hasSums(h, r, u) /\ sumOf(r, u) = h[u]
      BY <1>1, <3>1, SumIsChosen
    <3>3. CASE u = {}
      BY <3>1, <3>2, <3>3 DEF hasSums
    <3>4. CASE u # {}
      <4> DEFINE v == u \ {one(u)}
      <4>1. v \in SUBSET u /\ v # T /\ v \in SUBSET T
        BY <3>1, <3>4 DEF one
      <4>2. PICK k : hasSums(k, r, v) /\ sumOf(r, v) = k[v]
        BY <1>1, <4>1, SumIsChosen
      <4>3. IsFiniteSet(u)
        BY <3>1, FS_Subset
      <4>4. h[v] = k[v]
        <5>1. \A t \in SUBSET v : h[t] = k[t]
          <6> HIDE DEF u, v
          <6> QED
            BY <3>2, <4>1, <4>2, <4>3, SumsAgree, SMTT(20)
        <5> QED
          BY <5>1
      <4>5. h[u] = r[one(u)] + h[v]
        BY <3>2, <3>4 DEF hasSums
      <4>6. g[u] = r[one(u)] + sumOf(r, v)
        BY <3>1, <3>4
      <4> QED
        BY <3>2, <4>2, <4>4, <4>5, <4>6
    <3> QED
      BY <3>3, <3>4
  <2>2. hasSums(g, r, T)
    BY <2>1 DEF hasSums
  <2> QED
    BY <2>2
<1> HIDE DEF summed
<1>2. SUBSET S \subseteq summed
  BY <1>1, SubsetInduction
<1> QED
  BY <1>2 DEF summed

LEMMA FirstOfSum ==
  ASSUME NEW r, NEW S, IsFiniteSet(S)
  PROVE  sumOf(r, S) = IF S = {} THEN 0 ELSE r[one(S)] + sumOf(r, S \ {one(S)})
<1>1. PICK g : hasSums(g, r, S) /\ sumOf(r, S) = g[S]
  BY SumsExist, SumIsChosen
<1>2. CASE S = {}
  BY <1>1, <1>2 DEF hasSums
<1>3. CASE S # {}
  <2> DEFINE rest == S \ {one(S)}
  <2>1. rest \subseteq S /\ rest \in SUBSET rest /\ IsFiniteSet(rest)
    BY FS_Subset
  <2>2. sumOf(r, S) = r[one(S)] + g[rest]
    BY <1>1, <1>3 DEF hasSums
  <2> HIDE DEF rest
  <2>3. PICK h : hasSums(h, r, rest) /\ sumOf(r, rest) = h[rest]
    BY <2>1, SumsExist, SumIsChosen
  <2>4. \A s \in SUBSET rest : g[s] = h[s]
    BY <1>1, <2>1, <2>3, SumsAgree
  <2>5. sumOf(r, S) = r[one(S)] + sumOf(r, rest)
    BY <2>1, <2>2, <2>3, <2>4
  <2> QED
    BY <1>3, <2>5 DEF rest
<1> QED
  BY <1>2, <1>3

LEMMA SumType ==
  ASSUME NEW r, NEW S, IsFiniteSet(S), \A x \in S : r[x] \in Nat
  PROVE  sumOf(r, S) \in Nat
<1> DEFINE natural == {T \in SUBSET S : sumOf(r, T) \in Nat}
<1>1. ASSUME NEW T \in SUBSET S, \A U \in SUBSET T : U # T => U \in natural
      PROVE  T \in natural
  <2>1. IsFiniteSet(T)
    BY FS_Subset
  <2>2. CASE T = {}
    <3>1. sumOf(r, T) = 0
      BY <2>1, <2>2, FirstOfSum
    <3> QED
      BY <3>1
  <2>3. CASE T # {}
    <3>1. one(T) \in T
      BY <2>3 DEF one
    <3>2. sumOf(r, T \ {one(T)}) \in Nat /\ r[one(T)] \in Nat
      BY <1>1, <3>1
    <3>3. sumOf(r, T) = r[one(T)] + sumOf(r, T \ {one(T)})
      BY <2>1, <2>3, FirstOfSum
    <3> QED
      BY <3>2, <3>3
  <2> QED
    BY <2>2, <2>3
<1> HIDE DEF natural
<1>2. SUBSET S \subseteq natural
  BY <1>1, SubsetInduction
<1>3. S \in SUBSET S
  OBVIOUS
<1> QED
  BY <1>2, <1>3 DEF natural

\* Any element may be taken out of a sum.
LEMMA OneOfSum ==
  ASSUME NEW r, NEW S, IsFiniteSet(S), \A x \in S : r[x] \in Nat, NEW x \in S
  PROVE  sumOf(r, S) = r[x] + sumOf(r, S \ {x})
<1> DEFINE taken == {T \in SUBSET S : \A y \in T : sumOf(r, T) = r[y] + sumOf(r, T \ {y})}
<1>1. ASSUME NEW T \in SUBSET S, \A U \in SUBSET T : U # T => U \in taken
      PROVE  T \in taken
  <2> SUFFICES ASSUME NEW y \in T
               PROVE  sumOf(r, T) = r[y] + sumOf(r, T \ {y})
    OBVIOUS
  <2> DEFINE c == one(T)  withoutY == T \ {y}  withoutC == T \ {c}
             rest == T \ {y, c}
  <2>1. c \in T
    BY DEF one
  <2>2. IsFiniteSet(T)
    BY FS_Subset
  <2>3. sumOf(r, T) = r[c] + sumOf(r, withoutC)
    BY <2>2, FirstOfSum
  <2>4. CASE y = c
    BY <2>3, <2>4
  <2>5. CASE y # c
    <3> HIDE DEF c
    <3>1. /\ y \in withoutC /\ c \in withoutY
          /\ withoutC \ {y} = rest /\ withoutY \ {c} = rest
          /\ withoutC \in taken /\ withoutY \in taken
      BY <1>1, <2>1, <2>5
    <3>2. /\ sumOf(r, withoutC) = r[y] + sumOf(r, rest)
          /\ sumOf(r, withoutY) = r[c] + sumOf(r, rest)
      BY <3>1
    <3>3. r[y] \in Nat /\ r[c] \in Nat /\ sumOf(r, rest) \in Nat
      <4>1. IsFiniteSet(rest) /\ \A z \in rest : r[z] \in Nat
        BY <2>2, FS_Subset
      <4>2. sumOf(r, rest) \in Nat
        <5> HIDE DEF rest
        <5> QED
          BY <4>1, SumType
      <4> QED
        BY <2>1, <4>2
    <3> HIDE DEF withoutC, rest
    <3>4. sumOf(r, T) = r[y] + sumOf(r, withoutY)
      <4> HIDE DEF withoutY
      <4> QED
        BY <2>3, <3>2, <3>3
    <3> QED
      BY <3>4
  <2> QED
    BY <2>4, <2>5
<1> HIDE DEF taken
<1>2. SUBSET S \subseteq taken
  BY <1>1, SubsetInduction
<1>3. S \in SUBSET S
  OBVIOUS
<1> QED
  BY <1>2, <1>3 DEF taken

\* A sum over fewer elements is not larger.
LEMMA SumOfSubset ==
  ASSUME NEW r, NEW S, IsFiniteSet(S), \A x \in S : r[x] \in Nat, NEW T \in SUBSET S
  PROVE  sumOf(r, T) <= sumOf(r, S)
<1> DEFINE larger == {U \in SUBSET S : T \subseteq U => sumOf(r, T) <= sumOf(r, U)}
<1>1. ASSUME NEW U \in SUBSET S, \A V \in SUBSET U : V # U => V \in larger
      PROVE  U \in larger
  <2> SUFFICES ASSUME T \subseteq U
               PROVE  sumOf(r, T) <= sumOf(r, U)
    OBVIOUS
  <2>1. /\ IsFiniteSet(U) /\ IsFiniteSet(T)
        /\ sumOf(r, T) \in Nat
    <3>1. IsFiniteSet(U) /\ IsFiniteSet(T)
      BY FS_Subset
    <3> QED
      BY <3>1, SumType
  <2>2. CASE T = U
    BY <2>1, <2>2
  <2>3. CASE T # U
    <3>1. PICK x \in U : x \notin T
      BY <2>3
    <3> DEFINE V == U \ {x}
    <3>2. V \in SUBSET U /\ V # U /\ T \subseteq V /\ IsFiniteSet(V)
      BY <2>1, <3>1, FS_Subset
    <3>3. sumOf(r, T) <= sumOf(r, V)
      BY <1>1, <3>2
    <3>4. sumOf(r, U) = r[x] + sumOf(r, V)
      BY <2>1, OneOfSum
    <3>5. sumOf(r, V) \in Nat /\ r[x] \in Nat
      <4> HIDE DEF V
      <4> QED
        BY <3>2, SumType
    <3> HIDE DEF V
    <3> QED
      BY <2>1, <3>3, <3>4, <3>5
  <2> QED
    BY <2>2, <2>3
<1> HIDE DEF larger
<1>2. SUBSET S \subseteq larger
  BY <1>1, SubsetInduction
<1>3. S \in SUBSET S
  OBVIOUS
<1> QED
  BY <1>2, <1>3 DEF larger

\* What is requested of a node is the sum over its pods.
LEMMA RequestedIsSum ==
  ASSUME NEW resource, NEW n, NEW where
  PROVE  requested(resource, n, where) = sumOf(Request[resource], podsOn(n, where))
BY DEF requested, sumOf

LEMMA PodsAreFinite ==
  ASSUME NEW n, NEW where
  PROVE  /\ IsFiniteSet(podsOn(n, where))
         /\ podsOn(n, where) \in SUBSET Pods
         /\ \A p \in podsOn(n, where), resource \in Resources : Request[resource][p] \in Nat
<1>1. podsOn(n, where) \in SUBSET Pods
  BY DEF podsOn
<1>2. IsFiniteSet(Pods) /\ Request \in [Resources -> [Pods -> Nat]]
  BY ClusterAssumption
<1>3. IsFiniteSet(podsOn(n, where))
  BY <1>1, <1>2, FS_Subset
<1> HIDE DEF Resources
<1> QED
  BY <1>1, <1>2, <1>3

LEMMA RequestedType ==
  ASSUME NEW resource \in Resources, NEW n \in Nodes, NEW where
  PROVE  requested(resource, n, where) \in Nat /\ Allocatable[resource][n] \in Nat
<1> DEFINE ps == podsOn(n, where)  r == Request[resource]
<1>1. IsFiniteSet(ps) /\ \A p \in ps : r[p] \in Nat
  BY PodsAreFinite
<1>2. requested(resource, n, where) = sumOf(r, ps)
  BY RequestedIsSum
<1> HIDE DEF ps, r
<1>3. sumOf(r, ps) \in Nat
  BY <1>1, SumType
<1>4. Allocatable \in [Resources -> [Nodes -> Nat]]
  BY ClusterAssumption
<1> QED
  BY <1>2, <1>3, <1>4

\* What fits still fits when some of the pods are gone.
LEMMA FitsWithout ==
  ASSUME NEW w, NEW v, fitsWithin(w),
         \A p \in Pods, n \in Nodes : v[p] = n => w[p] = n
  PROVE  fitsWithin(v)
<1> SUFFICES ASSUME NEW n \in Nodes, NEW resource \in Resources
             PROVE  requested(resource, n, v) <= Allocatable[resource][n]
  BY DEF fitsWithin
<1> DEFINE now == podsOn(n, v)  before == podsOn(n, w)  r == Request[resource]
<1>1. /\ IsFiniteSet(before) /\ \A p \in before : r[p] \in Nat
      /\ IsFiniteSet(now) /\ \A p \in now : r[p] \in Nat
  BY PodsAreFinite
<1>2. now \in SUBSET before
  BY DEF podsOn
<1>3. requested(resource, n, w) = sumOf(r, before) /\ requested(resource, n, v) = sumOf(r, now)
  BY RequestedIsSum
<1>4. requested(resource, n, w) <= Allocatable[resource][n]
  BY DEF fitsWithin
<1> HIDE DEF now, before, r
<1>5. sumOf(r, now) <= sumOf(r, before)
  BY <1>1, <1>2, SumOfSubset
<1>6. requested(resource, n, v) <= requested(resource, n, w)
  BY <1>3, <1>5
<1>7. /\ requested(resource, n, w) \in Nat /\ requested(resource, n, v) \in Nat
      /\ Allocatable[resource][n] \in Nat
  BY RequestedType
<1> QED
  BY <1>4, <1>6, <1>7

\* A pod fits on a node that is feasible for it.
LEMMA FitsWith ==
  ASSUME NEW w \in [Pods -> Nodes \cup {None}], NEW p \in Pods, w[p] = None, fitsWithin(w),
         NEW n \in Nodes,
         \A resource \in Resources :
           requested(resource, n, w) + Request[resource][p] <= Allocatable[resource][n]
  PROVE  fitsWithin([w EXCEPT ![p] = n])
<1> DEFINE v == [w EXCEPT ![p] = n]
<1> SUFFICES ASSUME NEW m \in Nodes, NEW resource \in Resources
             PROVE  requested(resource, m, v) <= Allocatable[resource][m]
  BY DEF fitsWithin
<1>1. CASE m # n
  <2>1. podsOn(m, v) = podsOn(m, w)
    BY <1>1, ClusterAssumption DEF podsOn
  <2>2. requested(resource, m, v) = requested(resource, m, w)
    BY <2>1, RequestedIsSum
  <2> QED
    BY <2>2 DEF fitsWithin
<1>2. CASE m = n
  <2> DEFINE now == podsOn(n, v)  r == Request[resource]  most == Allocatable[resource][n]
             sumNow == requested(resource, n, v)  sumBefore == requested(resource, n, w)
  <2>1. p \in now /\ now \ {p} = podsOn(n, w)
    BY ClusterAssumption DEF podsOn
  <2>2. IsFiniteSet(now) /\ \A q \in now : r[q] \in Nat
    BY PodsAreFinite
  <2>3. sumNow = sumOf(r, now) /\ sumBefore = sumOf(r, podsOn(n, w))
    BY RequestedIsSum
  <2>4. sumBefore \in Nat /\ most \in Nat /\ sumBefore + r[p] <= most
    BY RequestedType
  <2> HIDE DEF now, r, most, sumNow, sumBefore
  <2>5. sumOf(r, now) = r[p] + sumOf(r, now \ {p})
    BY <2>1, <2>2, OneOfSum
  <2>6. sumNow = r[p] + sumBefore /\ r[p] \in Nat
    BY <2>1, <2>2, <2>3, <2>5
  <2>7. sumNow <= most
    BY <2>4, <2>6
  <2> QED
    BY <1>2, <2>7 DEF sumNow, most
<1> QED
  BY <1>1, <1>2

-----------------------------------------------------------------------------
(***************************************************************************)
(* The rules                                                               *)
(***************************************************************************)
\* A set of indexes has a least one.
LEMMA LeastIndex ==
  ASSUME NEW I \in SUBSET Nat, I # {}
  PROVE  Min(I) \in I /\ \A j \in I : Min(I) <= j
<1> DEFINE R == OpToRel(<, Nat)
<1>1. IsWellFoundedOn(R, Nat)
  BY NatLessThanWellFounded
<1>2. \E x \in I : \A y \in I : ~(<<y, x>> \in R)
  <2> HIDE DEF R
  <2> QED
    BY <1>1, WFMin
<1>3. PICK x \in I : \A y \in I : ~(<<y, x>> \in R)
  BY <1>2
<1>4. ASSUME NEW y \in I
      PROVE  x <= y
  <2>1. x \in Nat /\ y \in Nat
    OBVIOUS
  <2>2. y < x => <<y, x>> \in R
    BY <2>1 DEF OpToRel
  <2>3. ~(y < x)
    BY <1>3, <2>2
  <2> QED
    BY <2>1, <2>3
<1> QED
  BY <1>4 DEF Min

\* The first reason that holds, one after the other.
reasonOf(pod) ==
  IF pod.namespace = "kube-system" THEN "SystemPods"
  ELSE IF pod.namespace = PodtetrisNamespace THEN "PodtetrisNamespace"
  ELSE IF completed(pod) THEN "CompletedPods"
  ELSE IF pod.controller = "" THEN "NoController"
  ELSE IF skippedOwner(pod) # 0 THEN "SkippedOwner"
  ELSE IF isFixed(pod) THEN "FixedPod" ELSE ""

LEMMA FirstReason ==
  ASSUME NEW pod
  PROVE  evictionSkipReason(pod) = reasonOf(pod)
<1> DEFINE checks == <<[reason |-> "SystemPods", holds |-> pod.namespace = "kube-system"],
                       [reason |-> "PodtetrisNamespace", holds |-> pod.namespace = PodtetrisNamespace],
                       [reason |-> "CompletedPods", holds |-> completed(pod)],
                       [reason |-> "NoController", holds |-> pod.controller = ""],
                       [reason |-> "SkippedOwner", holds |-> skippedOwner(pod) # 0],
                       [reason |-> "FixedPod", holds |-> isFixed(pod)],
                       [reason |-> "", holds |-> TRUE]>>
           I == {i \in 1..Len(checks) : checks[i].holds}
<1>1. evictionSkipReason(pod) = checks[IF I # {} THEN Min(I) ELSE 0].reason
  BY Zenon DEF evictionSkipReason, SelectInSeq
<1>2. Len(checks) = 7
  OBVIOUS
<1>3. ASSUME NEW k \in 1..7, checks[k].holds, \A i \in 1..7 : i < k => ~checks[i].holds
      PROVE  evictionSkipReason(pod) = checks[k].reason
  <2> HIDE DEF checks
  <2>1. k \in I /\ I \subseteq 1..7
    BY <1>2, <1>3, Zenon
  <2>2. \A i \in I : i \in 1..7 /\ checks[i].holds
    BY <1>2
  <2>3. I \in SUBSET Nat /\ I # {}
    BY <2>1
  <2>4. Min(I) \in I /\ Min(I) <= k
    <3> HIDE DEF I
    <3> QED
      BY <2>1, <2>3, LeastIndex
  <2>5. ~(Min(I) < k)
    <3> HIDE DEF I
    <3> QED
      BY <1>3, <2>2, <2>4, Zenon
  <2>6. Min(I) = k
    <3>1. Min(I) \in 1..7 /\ k \in 1..7
      BY <2>2, <2>4, Zenon
    <3> HIDE DEF I
    <3> QED
      BY <2>4, <2>5, <3>1
  <2> QED
    BY <1>1, <2>3, <2>6, Zenon
<1> HIDE DEF I
<1>4. /\ checks[1].holds <=> pod.namespace = "kube-system"
      /\ checks[2].holds <=> pod.namespace = PodtetrisNamespace
      /\ checks[3].holds <=> completed(pod)
      /\ checks[4].holds <=> pod.controller = ""
      /\ checks[5].holds <=> skippedOwner(pod) # 0
      /\ checks[6].holds <=> isFixed(pod)
      /\ checks[7].holds
  OBVIOUS
<1>5. /\ checks[1].reason = "SystemPods" /\ checks[2].reason = "PodtetrisNamespace"
      /\ checks[3].reason = "CompletedPods" /\ checks[4].reason = "NoController"
      /\ checks[5].reason = "SkippedOwner" /\ checks[6].reason = "FixedPod"
      /\ checks[7].reason = ""
  OBVIOUS
<1> HIDE DEF checks
<1>6. CASE checks[1].holds
  <2>1. 1 \in 1..7 /\ \A i \in 1..7 : ~(i < 1)
    OBVIOUS
  <2> QED
    BY <1>3, <1>4, <1>5, <1>6, <2>1, Zenon DEF reasonOf
<1>7. CASE ~checks[1].holds /\ checks[2].holds
  <2>1. 2 \in 1..7 /\ \A i \in 1..7 : i < 2 => i = 1
    OBVIOUS
  <2> QED
    BY <1>3, <1>4, <1>5, <1>7, <2>1, Zenon DEF reasonOf
<1>8. CASE ~checks[1].holds /\ ~checks[2].holds /\ checks[3].holds
  <2>1. 3 \in 1..7 /\ \A i \in 1..7 : i < 3 => i = 1 \/ i = 2
    OBVIOUS
  <2> QED
    BY <1>3, <1>4, <1>5, <1>8, <2>1, Zenon DEF reasonOf
<1>9. CASE /\ ~checks[1].holds /\ ~checks[2].holds /\ ~checks[3].holds
            /\ checks[4].holds
  <2>1. 4 \in 1..7 /\ \A i \in 1..7 : i < 4 => i = 1 \/ i = 2 \/ i = 3
    OBVIOUS
  <2> QED
    BY <1>3, <1>4, <1>5, <1>9, <2>1, Zenon DEF reasonOf
<1>10. CASE /\ ~checks[1].holds /\ ~checks[2].holds /\ ~checks[3].holds
            /\ ~checks[4].holds /\ checks[5].holds
  <2>1. 5 \in 1..7 /\ \A i \in 1..7 : i < 5 => i = 1 \/ i = 2 \/ i = 3 \/ i = 4
    OBVIOUS
  <2> QED
    BY <1>3, <1>4, <1>5, <1>10, <2>1, Zenon DEF reasonOf
<1>11. CASE /\ ~checks[1].holds /\ ~checks[2].holds /\ ~checks[3].holds
            /\ ~checks[4].holds /\ ~checks[5].holds /\ checks[6].holds
  <2>1. 6 \in 1..7 /\ \A i \in 1..7 : i < 6 => i = 1 \/ i = 2 \/ i = 3 \/ i = 4 \/ i = 5
    OBVIOUS
  <2> QED
    BY <1>3, <1>4, <1>5, <1>11, <2>1, Zenon DEF reasonOf
<1>12. CASE /\ ~checks[1].holds /\ ~checks[2].holds /\ ~checks[3].holds
            /\ ~checks[4].holds /\ ~checks[5].holds /\ ~checks[6].holds
  <2>1. 7 \in 1..7 /\ \A i \in 1..7 : i < 7 => i = 1 \/ i = 2 \/ i = 3 \/ i = 4 \/ i = 5 \/ i = 6
    OBVIOUS
  <2> QED
    BY <1>3, <1>4, <1>5, <1>12, <2>1, Zenon DEF reasonOf
<1> QED
  BY <1>6, <1>7, <1>8, <1>9, <1>10, <1>11, <1>12, Zenon

\* An owner is skipped when one of the owners is of a kind that is.
LEMMA SkippedOwners ==
  ASSUME NEW p \in Pods
  PROVE  skippedOwner(Pod[p]) # 0 <=> ToSet(Pod[p].owners) \cap SkippedKinds # {}
<1> DEFINE owners == Pod[p].owners
           K == {k \in 1..Len(owners) : owners[k] \in SkippedKinds}
<1>1. owners \in Seq(STRING)
  BY ClusterAssumption
<1>2. K \in SUBSET Nat /\ 0 \notin K /\ (K # {} <=> ToSet(owners) \cap SkippedKinds # {})
  BY <1>1 DEF ToSet
<1>3. skippedOwner(Pod[p]) = IF K # {} THEN Min(K) ELSE 0
  BY Zenon DEF skippedOwner, SelectInSeq
<1> HIDE DEF K
<1>4. K # {} => Min(K) \in K
  BY <1>2, LeastIndex
<1> QED
  BY <1>2, <1>3, <1>4

\* A pod is evictable when none of the reasons against it holds.
LEMMA EvictablePods ==
  ASSUME NEW p \in Pods, isEvictable(Pod[p])
  PROVE  /\ Pod[p].namespace \notin {"kube-system", PodtetrisNamespace}
         /\ ~completed(Pod[p]) /\ ~isFixed(Pod[p])
         /\ Pod[p].controller # "" /\ ToSet(Pod[p].owners) \cap SkippedKinds = {}
<1>1. reasonOf(Pod[p]) = ""
  BY FirstReason DEF isEvictable
<1> QED
  BY <1>1, SkippedOwners DEF reasonOf

\* A node is considered empty when nothing is in use of it.
LEMMA EmptyIsUnused ==
  ASSUME NEW n, NEW where
  PROVE  isConsideredEmpty(n, where) <=> ~inUse(n, where)
<1>1. ASSUME NEW p \in podsOn(n, where)
      PROVE  isResidualPod(Pod[p]) <=>
               ~(/\ Pod[p].namespace \notin {"kube-system", PodtetrisNamespace}
                 /\ \/ completed(Pod[p]) \/ Pod[p].controller = ""
                    \/ ToSet(Pod[p].owners) \cap SkippedKinds = {})
  <2>1. p \in Pods
    BY DEF podsOn
  <2>2. isResidualPod(Pod[p]) <=>
          reasonOf(Pod[p]) \in {"SystemPods", "PodtetrisNamespace", "SkippedOwner"}
    BY FirstReason DEF isResidualPod
  <2> QED
    BY <2>1, <2>2, SkippedOwners DEF reasonOf
<1> QED
  BY <1>1 DEF isConsideredEmpty, inUse

LEMMA CostsAreWhole ==
  ASSUME NEW pod
  PROVE  getPodMovementCost(pod) \in Int
<1> DEFINE I == {i \in 1..Len(MoveCostRules) : matches(MoveCostRules[i].selector, pod)}
<1>1. CASE I = {}
  BY <1>1, CostAssumption DEF getPodMovementCost, SelectInSeq
<1>2. CASE I # {}
  <2>1. I \in SUBSET Nat
    OBVIOUS
  <2>2. getPodMovementCost(pod) = IF Min(I) = 0 THEN DefaultMoveCost ELSE MoveCostRules[Min(I)].cost
    BY <1>2 DEF getPodMovementCost, SelectInSeq
  <2>3. Min(I) \in I
    <3> HIDE DEF I
    <3> QED
      BY <1>2, <2>1, LeastIndex
  <2> QED
    BY <2>2, <2>3, CostAssumption
<1> QED
  BY <1>1, <1>2

-----------------------------------------------------------------------------
(***************************************************************************)
(* Stacks, orderings and moves                                             *)
(***************************************************************************)
LEMMA FrontOfStack ==
  ASSUME NEW X, NEW s \in Seq(X), Len(s) >= 1
  PROVE  /\ Front(s) \in Seq(X) /\ Len(Front(s)) = Len(s) - 1
         /\ \A i \in 1..Len(s) - 1 : Front(s)[i] = s[i]
<1> DEFINE n == Len(s) - 1
<1>1. n \in Nat /\ \A i \in 1..n : s[i] \in X
  BY LenProperties
<1> HIDE DEF n
<1>2. /\ SubSeq(s, 1, n) \in Seq(X)
      /\ Len(SubSeq(s, 1, n)) = IF 1 <= n THEN n - 1 + 1 ELSE 0
      /\ \A i \in 1..n - 1 + 1 : SubSeq(s, 1, n)[i] = s[1 + i - 1]
  BY <1>1, SubSeqProperties
<1>3. /\ SubSeq(s, 1, n) \in Seq(X) /\ Len(SubSeq(s, 1, n)) = n
      /\ \A i \in 1..n : SubSeq(s, 1, n)[i] = s[i]
  BY <1>1, <1>2
<1> QED
  BY <1>3 DEF Front, n

LEMMA PopOfStack ==
  ASSUME NEW X, NEW s \in Seq(X)
  PROVE  /\ Len(s) = 2 => /\ Front(s) \in Seq(X) /\ Len(Front(s)) = 1
                          /\ Front(s)[1] = s[1]
         /\ Len(s) = 3 => /\ Front(s) \in Seq(X) /\ Len(Front(s)) = 2
                          /\ Front(s)[1] = s[1] /\ Front(s)[2] = s[2]
<1>1. ASSUME Len(s) = 2
      PROVE  Front(s) \in Seq(X) /\ Len(Front(s)) = 1 /\ Front(s)[1] = s[1]
  <2>1. /\ Front(s) \in Seq(X) /\ Len(Front(s)) = Len(s) - 1
        /\ \A i \in 1..Len(s) - 1 : Front(s)[i] = s[i]
    <3>1. Len(s) >= 1
      BY <1>1
    <3> QED
      BY <3>1, FrontOfStack, Zenon
  <2>2. 1 \in 1..Len(s) - 1 /\ Len(s) - 1 = 1
    BY <1>1
  <2> QED
    BY <2>1, <2>2, Zenon
<1>2. ASSUME Len(s) = 3
      PROVE  /\ Front(s) \in Seq(X) /\ Len(Front(s)) = 2
             /\ Front(s)[1] = s[1] /\ Front(s)[2] = s[2]
  <2>1. /\ Front(s) \in Seq(X) /\ Len(Front(s)) = Len(s) - 1
        /\ \A i \in 1..Len(s) - 1 : Front(s)[i] = s[i]
    <3>1. Len(s) >= 1
      BY <1>2
    <3> QED
      BY <3>1, FrontOfStack, Zenon
  <2>2. 1 \in 1..Len(s) - 1 /\ 2 \in 1..Len(s) - 1 /\ Len(s) - 1 = 2
    BY <1>2
  <2> QED
    BY <2>1, <2>2, Zenon
<1> QED
  BY <1>1, <1>2

LEMMA PushOnStack ==
  ASSUME NEW X, NEW s \in Seq(X), NEW x \in X
  PROVE  /\ Append(s, x) \in Seq(X) /\ Len(Append(s, x)) = Len(s) + 1
         /\ Append(s, x)[Len(s) + 1] = x
         /\ Len(s) >= 1 => Append(s, x)[1] = s[1]
         /\ Len(s) >= 2 => Append(s, x)[2] = s[2]
<1>1. Len(s) \in Nat
  BY LenProperties
<1> QED
  BY <1>1, AppendProperties

\* An ordering has each of the pods once.
LEMMA OrderingsAreComplete ==
  ASSUME NEW ps \in SUBSET Pods, NEW strategy \in {"cpu_desc", "memory_desc", "random"},
         NEW s \in orderings(strategy, ps)
  PROVE  /\ s \in Seq(ps) /\ ToSet(s) = ps
         /\ \A i, j \in DOMAIN s : s[i] = s[j] => i = j
<1>1. s \in SetToSeqs(ps)
  BY DEF orderings, sortByRequestDesc
<1> DEFINE D == 1..Cardinality(ps)
<1>2. s \in [D -> ps] /\ \A i, j \in D : i # j => s[i] # s[j]
  BY <1>1 DEF SetToSeqs
<1>3. IsFiniteSet(ps) /\ Cardinality(ps) \in Nat
  BY ClusterAssumption, FS_Subset, FS_CardinalityType
<1>4. IsFiniteSet(D) /\ Cardinality(D) = Cardinality(ps)
  BY <1>3, FS_Interval
<1>5. s \in Surjection(D, ps)
  <2>1. s \in Injection(D, ps)
    BY <1>2 DEF Injection, IsInjective
  <2> HIDE DEF D
  <2> QED
    BY <1>3, <1>4, <2>1, FS_Injection
<1>6. ToSet(s) = ps
  BY <1>2, <1>5 DEF Surjection, ToSet
<1>7. s \in Seq(ps)
  BY <1>2, <1>3
<1> QED
  BY <1>2, <1>6, <1>7

\* What is left of an ordering when its first pod is taken.
LEMMA RestOfOrdering ==
  ASSUME NEW X, NEW s \in Seq(X), s # <<>>,
         \A i, j \in DOMAIN s : s[i] = s[j] => i = j
  PROVE  /\ Head(s) \in ToSet(s) /\ ToSet(Tail(s)) = ToSet(s) \ {Head(s)}
         /\ Tail(s) \in Seq(X)
         /\ \A i, j \in DOMAIN Tail(s) : Tail(s)[i] = Tail(s)[j] => i = j
<1>1. /\ Len(s) \in Nat \ {0} /\ DOMAIN s = 1..Len(s) /\ Head(s) = s[1]
      /\ Tail(s) \in Seq(X) /\ DOMAIN Tail(s) = 1..Len(s) - 1
      /\ \A i \in 1..Len(s) - 1 : Tail(s)[i] = s[i + 1]
  BY HeadTailProperties, EmptySeq, LenProperties
<1>2. Head(s) \in ToSet(s)
  BY <1>1 DEF ToSet
<1>3. \A i, j \in DOMAIN Tail(s) : Tail(s)[i] = Tail(s)[j] => i = j
  BY <1>1
<1>4. ASSUME NEW x \in ToSet(Tail(s))
      PROVE  x \in ToSet(s) \ {Head(s)}
  <2>1. PICK i \in 1..Len(s) - 1 : x = s[i + 1]
    BY <1>1 DEF ToSet
  <2>2. i + 1 \in DOMAIN s /\ 1 \in DOMAIN s /\ i + 1 # 1
    BY <1>1
  <2>3. x # s[1]
    BY <2>1, <2>2
  <2> QED
    BY <1>1, <2>1, <2>2, <2>3 DEF ToSet
<1>5. ASSUME NEW x \in ToSet(s), x # Head(s)
      PROVE  x \in ToSet(Tail(s))
  <2>1. PICK i \in 1..Len(s) : x = s[i] /\ i # 1
    BY <1>1, <1>5 DEF ToSet
  <2>2. i - 1 \in 1..Len(s) - 1 /\ i - 1 + 1 = i
    BY <1>1, <2>1
  <2>3. Tail(s)[i - 1] = x
    BY <1>1, <2>1, <2>2
  <2> QED
    BY <1>1, <2>2, <2>3 DEF ToSet
<1> QED
  BY <1>1, <1>2, <1>3, <1>4, <1>5

\* Moves take their pods, and no others, to where they say.
LEMMA MovedPods ==
  ASSUME NEW ms, realMoves(ms), NEW M \in SUBSET ToSet(ms), NEW p \in Pods
  PROVE  /\ \A m \in M : m.pod = p => moved(M)[p] = m.to
         /\ (\A m \in M : m.pod # p) => moved(M)[p] = origin[p]
<1>1. \A m, o \in M : m.pod = o.pod => m = o
  BY DEF realMoves, ToSet
<1>2. ASSUME NEW m \in M, m.pod = p
      PROVE  moved(M)[p] = m.to
  <2>1. (CHOOSE o \in M : o.pod = p) = m
    BY <1>1, <1>2
  <2>2. moved(M)[p] = (CHOOSE o \in M : o.pod = p).to
    BY <1>2 DEF moved
  <2> QED
    BY <2>1, <2>2
<1>3. ASSUME \A m \in M : m.pod # p
      PROVE  moved(M)[p] = origin[p]
  BY <1>3 DEF moved
<1> QED
  BY <1>2, <1>3

LEMMA OneMoreMove ==
  ASSUME NEW ms, realMoves(ms), NEW mv \in Move,
         mv.from = origin[mv.pod], mv.to # mv.from, isEvictable(Pod[mv.pod]),
         \A m \in ToSet(ms) : m.pod # mv.pod
  PROVE  /\ realMoves(Append(ms, mv))
         /\ ToSet(Append(ms, mv)) = ToSet(ms) \cup {mv}
         /\ \A q \in Pods : moved(ToSet(Append(ms, mv)))[q] =
                              IF q = mv.pod THEN mv.to ELSE moved(ToSet(ms))[q]
<1> DEFINE more == Append(ms, mv)
<1>1. ms \in Seq(Move) /\ Len(ms) \in Nat /\ DOMAIN ms = 1..Len(ms)
  BY LenProperties DEF realMoves
<1>2. /\ more \in Seq(Move) /\ DOMAIN more = 1..Len(ms) + 1
      /\ \A i \in 1..Len(ms) : more[i] = ms[i]
      /\ more[Len(ms) + 1] = mv
  <2>1. Len(more) = Len(ms) + 1
    BY <1>1, AppendProperties
  <2> QED
    BY <1>1, <2>1, AppendProperties, LenProperties
<1>3. ToSet(more) = ToSet(ms) \cup {mv}
  BY <1>1, <1>2 DEF ToSet
<1> HIDE DEF more
<1>4. \A i \in DOMAIN more : \/ i \in DOMAIN ms /\ more[i] = ms[i]
                             \/ i = Len(ms) + 1 /\ more[i] = mv
  BY <1>1, <1>2
<1>5. \A i \in DOMAIN ms : ms[i].pod # mv.pod
  BY DEF ToSet
<1>6. realMoves(more)
  <2>1. \A i \in DOMAIN more : /\ more[i].from = origin[more[i].pod] /\ more[i].to # more[i].from
                               /\ isEvictable(Pod[more[i].pod])
    BY <1>4, Zenon DEF realMoves
  <2>2. \A i, j \in DOMAIN more : more[i].pod = more[j].pod => i = j
    BY <1>4, <1>5, Zenon DEF realMoves
  <2> QED
    BY <1>2, <2>1, <2>2 DEF realMoves
<1>7. ASSUME NEW q \in Pods
      PROVE  moved(ToSet(more))[q] = IF q = mv.pod THEN mv.to ELSE moved(ToSet(ms))[q]
  <2>1. CASE q = mv.pod
    BY <1>3, <1>6, <2>1, MovedPods
  <2>2. CASE q # mv.pod
    <3>1. CASE \E m \in ToSet(ms) : m.pod = q
      BY <1>3, <1>6, <2>2, <3>1, MovedPods
    <3>2. CASE \A m \in ToSet(ms) : m.pod # q
      BY <1>3, <1>6, <2>2, <3>2, MovedPods
    <3> QED
      BY <3>1, <3>2
  <2> QED
    BY <2>1, <2>2
<1> QED
  BY <1>3, <1>6, <1>7 DEF more

LEMMA MovedType ==
  ASSUME NEW ms, realMoves(ms), NEW M \in SUBSET ToSet(ms), origin \in [Pods -> Nodes]
  PROVE  moved(M) \in [Pods -> Nodes]
<1>1. moved(M) = [p \in Pods |-> moved(M)[p]]
  BY DEF moved
<1>2. ASSUME NEW p \in Pods
      PROVE  moved(M)[p] \in Nodes
  <2>1. ToSet(ms) \subseteq Move
    BY DEF realMoves, ToSet
  <2>2. \A m \in M : m.to \in Nodes
    BY <2>1 DEF Move
  <2> QED
    BY <2>2, MovedPods
<1> QED
  BY <1>1, <1>2

-----------------------------------------------------------------------------
(***************************************************************************)
(* The invariant                                                           *)
(***************************************************************************)
Strategy == {"cpu_desc", "memory_desc", "random"}
Placements == [Pods -> Nodes \cup {None}]

\* What is said of moves and results depends on where the pods were at first.
LEMMA OriginKept ==
  ASSUME origin' = origin, NEW r, NEW ms
  PROVE  /\ honest(r)' <=> honest(r)
         /\ realMoves(ms)' <=> realMoves(ms)
         /\ moved(ms)' = moved(ms)
<1>1. \A M : moved(M)' = moved(M)
  BY DEF moved
<1>2. \A s : realMoves(s)' <=> realMoves(s)
  BY DEF realMoves
<1>3. getEmptyNodes(Nodes, origin)' = getEmptyNodes(Nodes, origin)
  BY DEF getEmptyNodes, isConsideredEmpty, podsOn
<1>4. honest(r)' <=> honest(r)
  BY <1>1, <1>2, <1>3 DEF honest
<1> QED
  BY <1>1, <1>2, <1>4

LEMMA PlannerInvInit == Init => PlannerInv
<1> SUFFICES ASSUME Init PROVE PlannerInv
  OBVIOUS
<1>1. /\ placement \in [Pods -> Nodes] /\ fitsWithin(placement)
      /\ snapshot = <<placement>> /\ pc = "sets" /\ best = None
  BY DEF Init
<1>2. /\ origin = placement /\ Len(snapshot) = 1
      /\ snapshot \in Seq(Placements)
  BY <1>1 DEF origin, Placements
<1>3. PlacementInv
  BY <1>1, <1>2 DEF Init, PlacementInv, Placements
<1>4. SnapshotInv
  BY <1>1, <1>2, ConfigAssumption DEF Init, SnapshotInv
<1>5. SimulationInv /\ ResultsInv
  BY <1>1 DEF Init, SimulationInv, ResultsInv
<1> QED
  BY <1>3, <1>4, <1>5 DEF PlannerInv

\* The results stay what they are while simulations go on.
LEMMA ResultsKept ==
  ASSUME ResultsInv, origin' = origin, pc' # "done", UNCHANGED <<finished, best>>
  PROVE  ResultsInv'
BY OriginKept DEF ResultsInv

LEMMA StartOfSet ==
  ASSUME PlannerInv, startCandidateSet
  PROVE  PlannerInv'
<1> USE DEF PlannerInv
<1>1. /\ pc = "sets" /\ sets # <<>> /\ pc' = "permutations"
      /\ evicted' \subseteq virtuallyEvictPods(Head(sets))
      /\ snapshot' = Append(snapshot, UnschedulePods(evicted'))
      /\ permutations' = generatePermutations(evicted')
      /\ sets' = Tail(sets)
      /\ UNCHANGED <<placement, unscheduled, cost, finished, best, outcome, pending>>
  BY DEF startCandidateSet
<1>2. /\ Len(snapshot) = 1 /\ top = origin /\ unscheduled = <<>>
      /\ snapshot \in Seq(Placements) /\ origin \in [Pods -> Nodes]
  BY <1>1 DEF PlacementInv, SnapshotInv, Placements, top, Last, origin
<1>3. Head(sets) \in SUBSET Nodes /\ Tail(sets) \in Seq(SUBSET Nodes)
  BY <1>1, HeadTailProperties DEF SnapshotInv
<1>4. evicted' \subseteq Pods /\ \A p \in evicted' : origin[p] \in Head(sets) /\ isEvictable(Pod[p])
  BY <1>1, <1>2 DEF virtuallyEvictPods
<1> DEFINE base == [p \in Pods |-> IF p \in evicted' THEN None ELSE origin[p]]
<1>5. base = UnschedulePods(evicted') /\ base \in Placements
  BY <1>2 DEF UnschedulePods, Placements
<1> HIDE DEF base
<1>6. /\ snapshot' \in Seq(Placements) /\ Len(snapshot') = 2
      /\ snapshot'[1] = snapshot[1] /\ snapshot'[2] = base
  <2>1. snapshot' = Append(snapshot, base)
    BY <1>1, <1>5
  <2> QED
    BY <1>2, <1>5, <2>1, PushOnStack
<1>7. origin' = origin
  BY <1>6 DEF origin
<1>8. PlacementInv'
  BY <1>1, <1>2, <1>6, <1>7 DEF PlacementInv, Placements
<1>9. SnapshotInv'
  <2>1. permutations' \in Seq(Strategy)
    BY <1>1, ConfigAssumption DEF generatePermutations, Strategy
  <2>2. /\ baseline'.candidates = Head(sets)
        /\ baseline'.empty = getEmptyNodes(Head(sets), origin)
        /\ baseline'.allocations = createPodAllocationsMap(Head(sets))
    BY <1>2 DEF startCandidateSet
  <2>3. \A p \in evicted' : baseline'.allocations[p] = origin[p]
    BY <1>2, <1>4, <2>2 DEF createPodAllocationsMap
  <2>4. (baseline.empty = getEmptyNodes(baseline.candidates, origin))'
    BY <1>7, <2>2 DEF getEmptyNodes, isConsideredEmpty, podsOn
  <2> QED
    BY <1>1, <1>2, <1>3, <1>4, <1>6, <1>7, <2>1, <2>2, <2>3, <2>4 DEF SnapshotInv, base, Strategy
<1>10. SimulationInv' /\ ResultsInv'
  BY <1>1, <1>7, ResultsKept DEF SimulationInv
<1> QED
  BY <1>8, <1>9, <1>10

LEMMA StartOfRun ==
  ASSUME PlannerInv, startRun
  PROVE  PlannerInv'
<1> USE DEF PlannerInv
<1>1. /\ pc = "permutations" /\ permutations # <<>> /\ pc' = "run"
      /\ unscheduled' \in orderings(Head(permutations), evicted)
      /\ permutations' = Tail(permutations)
      /\ snapshot' = Fork(snapshot)
      /\ moves' = <<>> /\ cost' = 0
      /\ UNCHANGED <<placement, sets, baseline, evicted, finished, best, outcome, pending>>
  BY DEF startRun
<1>2. /\ Len(snapshot) = 2 /\ snapshot \in Seq(Placements)
      /\ snapshot[2] = [p \in Pods |-> IF p \in evicted THEN None ELSE origin[p]]
      /\ snapshot[2] \in Placements /\ origin \in [Pods -> Nodes]
      /\ Last(snapshot) = snapshot[2]
  BY <1>1 DEF PlacementInv, SnapshotInv, Placements, Last, origin
<1>3. Head(permutations) \in Strategy /\ Tail(permutations) \in Seq(Strategy)
  BY <1>1, HeadTailProperties DEF SnapshotInv, Strategy
<1>4. /\ unscheduled' \in Seq(evicted) /\ ToSet(unscheduled') = evicted
      /\ \A i, j \in DOMAIN unscheduled' : unscheduled'[i] = unscheduled'[j] => i = j
  <2>1. evicted \in SUBSET Pods
    BY DEF SnapshotInv
  <2> QED
    BY <1>1, <1>3, <2>1, OrderingsAreComplete DEF Strategy
<1>5. /\ snapshot' \in Seq(Placements) /\ Len(snapshot') = 3
      /\ snapshot'[1] = snapshot[1] /\ snapshot'[2] = snapshot[2] /\ snapshot'[3] = snapshot[2]
  <2> DEFINE base == snapshot[2]  pushed == Append(snapshot, base)
  <2>1. snapshot' = pushed
    BY <1>1, <1>2 DEF Fork
  <2>2. snapshot \in Seq(Placements) /\ base \in Placements
    BY <1>2
  <2> HIDE DEF base
  <2>3. /\ pushed \in Seq(Placements) /\ Len(pushed) = Len(snapshot) + 1
        /\ pushed[Len(snapshot) + 1] = base
        /\ Len(snapshot) >= 1 => pushed[1] = snapshot[1]
        /\ Len(snapshot) >= 2 => pushed[2] = snapshot[2]
    <3> HIDE DEF pushed
    <3>1. pushed = Append(snapshot, base)
      BY DEF pushed
    <3> QED
      BY <2>2, <3>1, PushOnStack
  <2> HIDE DEF pushed
  <2> QED
    BY <1>2, <2>1, <2>3 DEF base
<1>6. origin' = origin /\ top' = snapshot[2]
  BY <1>5 DEF origin, top, Last
<1>7. PlacementInv'
  BY <1>1, <1>5, <1>6 DEF PlacementInv, Placements
<1>8. SnapshotInv'
  BY <1>1, <1>3, <1>5, <1>6 DEF SnapshotInv, Strategy
<1>9. SimulationInv'
  <2>1. realMoves(moves)' /\ ToSet(moves') = {}
    BY <1>1 DEF realMoves, ToSet
  <2>2. \A p \in Pods : (moved(ToSet(moves))[p])' = origin[p]
    BY <1>6, <2>1 DEF moved
  <2>3. \A p \in Pods : top'[p] = IF p \in ToSet(unscheduled') THEN None
                                  ELSE (moved(ToSet(moves))[p])'
    BY <1>2, <1>4, <1>6, <2>2
  <2>4. fitsWithin(top')
    <3>1. \A p \in Pods, n \in Nodes : snapshot[2][p] = n => origin[p] = n
      BY <1>2, ClusterAssumption
    <3>2. fitsWithin(origin)
      BY DEF PlacementInv
    <3>3. fitsWithin(snapshot[2])
      BY <3>1, <3>2, FitsWithout
    <3> QED
      BY <1>6, <3>3
  <2>5. fitsWithin(top)'
    BY <2>4
  <2> QED
    BY <1>1, <1>4, <2>1, <2>3, <2>5 DEF SimulationInv
<1>10. ResultsInv'
  BY <1>1, <1>6, ResultsKept
<1> QED
  BY <1>7, <1>8, <1>9, <1>10

LEMMA FailureOfRun ==
  ASSUME PlannerInv, failRun
  PROVE  PlannerInv'
<1> USE DEF PlannerInv
<1>1. /\ pc = "run" /\ pc' = "permutations"
      /\ snapshot' = Front(snapshot) /\ unscheduled' = <<>>
      /\ UNCHANGED <<placement, sets, baseline, evicted, permutations, moves, cost,
                     finished, best, outcome, pending>>
  BY DEF failRun, Revert
<1>2. Len(snapshot) = 3 /\ snapshot \in Seq(Placements)
  BY <1>1 DEF PlacementInv, SnapshotInv, Placements
<1>3. /\ snapshot' \in Seq(Placements) /\ Len(snapshot') = 2
      /\ snapshot'[1] = snapshot[1] /\ snapshot'[2] = snapshot[2]
  BY <1>1, <1>2, PopOfStack
<1>4. origin' = origin
  BY <1>3 DEF origin
<1>5. PlacementInv'
  BY <1>1, <1>3, <1>4 DEF PlacementInv, Placements
<1>6. SnapshotInv'
  BY <1>1, <1>3, <1>4 DEF SnapshotInv
<1>7. SimulationInv' /\ ResultsInv'
  BY <1>1, <1>4, ResultsKept DEF SimulationInv
<1> QED
  BY <1>5, <1>6, <1>7

LEMMA EndOfSet ==
  ASSUME PlannerInv, finishCandidateSet
  PROVE  PlannerInv'
<1> USE DEF PlannerInv
<1>1. /\ pc = "permutations" /\ pc' = "sets" /\ snapshot' = Front(snapshot)
      /\ UNCHANGED <<placement, sets, evicted, unscheduled, cost, finished, best, outcome, pending>>
  BY DEF finishCandidateSet, Revert
<1>2. Len(snapshot) = 2 /\ snapshot \in Seq(Placements)
  BY <1>1 DEF PlacementInv, SnapshotInv, Placements
<1>3. /\ snapshot' \in Seq(Placements) /\ Len(snapshot') = 1
      /\ snapshot'[1] = snapshot[1]
  BY <1>1, <1>2, PopOfStack
<1>4. origin' = origin
  BY <1>3 DEF origin
<1>5. PlacementInv'
  BY <1>1, <1>3, <1>4 DEF PlacementInv, Placements
<1>6. SnapshotInv'
  BY <1>1, <1>3 DEF SnapshotInv
<1>7. SimulationInv' /\ ResultsInv'
  BY <1>1, <1>4, ResultsKept DEF SimulationInv
<1> QED
  BY <1>5, <1>6, <1>7

\* One pod more is where the moves take it, and what was placed still fits.
LEMMA PodScheduled ==
  ASSUME PlannerInv, scheduleNextPod
  PROVE  PlannerInv'
<1> USE DEF PlannerInv
<1> DEFINE p == Head(unscheduled)
<1>1. /\ pc = "run" /\ unscheduled # <<>> /\ unscheduled' = Tail(unscheduled)
      /\ UNCHANGED <<placement, sets, baseline, evicted, permutations, finished, best,
                     outcome, pending, pc>>
  BY DEF scheduleNextPod
<1>2. PICK n \in feasibleNodes(p) :
        /\ snapshot' = Append(Front(snapshot), ForceAddPod(p, n))
        /\ IF n = baseline.allocations[p] THEN UNCHANGED <<moves, cost>>
           ELSE /\ moves' = Append(moves, [pod |-> p, from |-> baseline.allocations[p], to |-> n])
                /\ cost' = cost + getPodMovementCost(Pod[p])
  BY DEF scheduleNextPod, pickHighestScoreNode
<1>3. /\ Len(snapshot) = 3 /\ snapshot \in Seq(Placements)
      /\ top = snapshot[3] /\ top \in Placements /\ origin \in [Pods -> Nodes]
  <2>1. Len(snapshot) = 3 /\ snapshot \in Seq(Placements) /\ origin \in [Pods -> Nodes]
    BY <1>1 DEF PlacementInv, SnapshotInv, Placements
  <2>2. top = snapshot[3]
    BY <2>1 DEF top, Last
  <2>3. 3 \in 1..Len(snapshot)
    BY <2>1
  <2> QED
    BY <2>1, <2>2, <2>3, ElementOfSeq
<1>4. /\ unscheduled \in Seq(evicted) /\ evicted \subseteq Pods
      /\ \A i, j \in DOMAIN unscheduled : unscheduled[i] = unscheduled[j] => i = j
      /\ realMoves(moves) /\ cost \in Int /\ fitsWithin(top)
      /\ \A m \in ToSet(moves) : m.pod \in evicted \ ToSet(unscheduled)
      /\ \A q \in Pods : top[q] = IF q \in ToSet(unscheduled) THEN None
                                  ELSE moved(ToSet(moves))[q]
      /\ \A q \in evicted : isEvictable(Pod[q]) /\ baseline.allocations[q] = origin[q]
  BY <1>1 DEF SnapshotInv, SimulationInv
<1>5. /\ p \in ToSet(unscheduled) /\ ToSet(unscheduled') = ToSet(unscheduled) \ {p}
      /\ unscheduled' \in Seq(evicted)
      /\ \A i, j \in DOMAIN unscheduled' : unscheduled'[i] = unscheduled'[j] => i = j
  BY <1>1, <1>4, RestOfOrdering
<1>6. p \in evicted /\ p \in Pods
  <2>1. ToSet(unscheduled) \subseteq evicted
    BY <1>4 DEF ToSet
  <2> QED
    BY <1>4, <1>5, <2>1
<1> HIDE DEF p
<1>7. /\ n \in Nodes
      /\ \A resource \in Resources :
           requested(resource, n, top) + Request[resource][p] <= Allocatable[resource][n]
  BY <1>2, <1>6, ClusterAssumption DEF feasibleNodes
<1> DEFINE w == ForceAddPod(p, n)
<1>8. w = [top EXCEPT ![p] = n] /\ w \in Placements
  BY <1>3, <1>6, <1>7 DEF ForceAddPod, Placements
<1> HIDE DEF w
<1>9. /\ snapshot' \in Seq(Placements) /\ Len(snapshot') = 3 /\ snapshot'[3] = w
      /\ snapshot'[1] = snapshot[1] /\ snapshot'[2] = snapshot[2]
  <2> DEFINE front == Front(snapshot)  pushed == Append(front, w)
  <2>1. /\ front \in Seq(Placements) /\ Len(front) = 2
        /\ front[1] = snapshot[1] /\ front[2] = snapshot[2]
    BY <1>3, PopOfStack
  <2> HIDE DEF front
  <2>2. /\ pushed \in Seq(Placements) /\ Len(pushed) = Len(front) + 1
        /\ pushed[Len(front) + 1] = w
        /\ Len(front) >= 1 => pushed[1] = front[1]
        /\ Len(front) >= 2 => pushed[2] = front[2]
    <3>1. front \in Seq(Placements) /\ w \in Placements
      BY <1>8, <2>1
    <3> QED
      BY <3>1, PushOnStack, SMTT(30)
  <2>3. snapshot' = pushed
    BY <1>2 DEF front, w
  <2> HIDE DEF pushed
  <2> QED
    BY <2>1, <2>2, <2>3
<1>10. origin' = origin /\ top' = w
  BY <1>9 DEF origin, top, Last
<1>11. PlacementInv'
  BY <1>1, <1>9, <1>10 DEF PlacementInv, Placements
<1>12. cost' \in Int
  BY <1>2, <1>4, CostsAreWhole
<1>13. SnapshotInv'
  BY <1>1, <1>9, <1>10, <1>12 DEF SnapshotInv
<1>14. /\ realMoves(moves')
       /\ \A m \in ToSet(moves') : m.pod \in evicted \ ToSet(unscheduled')
       /\ \A q \in Pods : moved(ToSet(moves'))[q] = IF q = p THEN n ELSE moved(ToSet(moves))[q]
  <2>1. \A m \in ToSet(moves) : m.pod # p
    BY <1>4, <1>5
  <2>2. baseline.allocations[p] = origin[p] /\ origin[p] \in Nodes /\ isEvictable(Pod[p])
    BY <1>3, <1>4, <1>6
  <2>3. CASE n = baseline.allocations[p]
    <3>1. moved(ToSet(moves))[p] = n
      BY <1>4, <1>6, <2>1, <2>2, <2>3, MovedPods
    <3> QED
      BY <1>2, <1>4, <1>5, <2>3, <3>1
  <2>4. CASE n # baseline.allocations[p]
    <3> DEFINE mv == [pod |-> p, from |-> baseline.allocations[p], to |-> n]
    <3>1. /\ mv \in Move /\ mv.pod = p /\ mv.from = origin[p] /\ mv.to = n
          /\ moves' = Append(moves, mv)
      BY <1>2, <1>6, <1>7, <2>2, <2>4 DEF Move, p
    <3> HIDE DEF mv
    <3>2. /\ realMoves(moves') /\ ToSet(moves') = ToSet(moves) \cup {mv}
          /\ \A q \in Pods : moved(ToSet(moves'))[q] =
                               IF q = mv.pod THEN mv.to ELSE moved(ToSet(moves))[q]
      BY <1>4, <2>1, <2>2, <2>4, <3>1, OneMoreMove
    <3> QED
      BY <1>4, <1>5, <1>6, <3>1, <3>2
  <2> QED
    BY <2>3, <2>4
<1>15. fitsWithin(w)
  <2>1. top[p] = None
    BY <1>4, <1>5, <1>6
  <2>2. top \in [Pods -> Nodes \cup {None}]
    BY <1>3 DEF Placements
  <2> QED
    BY <1>4, <1>6, <1>7, <1>8, <2>1, <2>2, FitsWith
<1>16. SimulationInv'
  <2>1. realMoves(moves)' /\ fitsWithin(top)'
    BY <1>10, <1>14, <1>15, OriginKept
  <2>2. \A q \in Pods : (moved(ToSet(moves)))'[q] = IF q = p THEN n ELSE moved(ToSet(moves))[q]
    BY <1>10, <1>14, OriginKept
  <2>3. \A q \in Pods : top'[q] = IF q \in ToSet(unscheduled') THEN None
                                  ELSE (moved(ToSet(moves)))'[q]
    BY <1>3, <1>4, <1>5, <1>8, <1>10, <2>2 DEF Placements
  <2> QED
    BY <1>1, <1>5, <1>14, <2>1, <2>3 DEF SimulationInv
<1>17. ResultsInv'
  BY <1>1, <1>10, ResultsKept
<1> QED
  BY <1>11, <1>13, <1>16, <1>17

LEMMA ScoreType ==
  ASSUME NEW freed \in Nat, NEW c \in Int
  PROVE  computePermutationScore(freed, c) \in Int
<1>1. EmptyNodesWeight \in Int /\ CostWeight \in Int
  BY ConfigAssumption
<1>2. EmptyNodesWeight * freed \in Int /\ CostWeight * c \in Int
  BY <1>1
<1> QED
  BY <1>2 DEF computePermutationScore

\* A simulation that has placed all pods has a result that says what is true.
LEMMA EndOfRun ==
  ASSUME PlannerInv, finishRun
  PROVE  PlannerInv'
<1> USE DEF PlannerInv
<1> DEFINE result == [nodesToFree |-> nodesToFree, cost |-> cost, moves |-> moves,
                      score |-> computePermutationScore(Cardinality(nodesToFree), cost)]
<1>1. /\ pc = "run" /\ unscheduled = <<>> /\ pc' = "permutations"
      /\ snapshot' = Front(snapshot)
      /\ UNCHANGED <<placement, sets, baseline, evicted, permutations, unscheduled,
                     moves, cost, outcome, pending>>
  BY DEF finishRun, Revert
<1>2. \/ UNCHANGED <<finished, best>>
      \/ /\ finished' = finished \cup {result}
         /\ best' = IF best = None \/ isBetter(result, best) THEN result ELSE best
  BY DEF finishRun
<1>3. Len(snapshot) = 3 /\ snapshot \in Seq(Placements)
  BY <1>1 DEF PlacementInv, SnapshotInv, Placements
<1>4. /\ snapshot' \in Seq(Placements) /\ Len(snapshot') = 2
      /\ snapshot'[1] = snapshot[1] /\ snapshot'[2] = snapshot[2]
  BY <1>1, <1>3, PopOfStack
<1>5. origin' = origin
  BY <1>4 DEF origin
<1>6. PlacementInv'
  BY <1>1, <1>4, <1>5 DEF PlacementInv, Placements
<1>7. SnapshotInv'
  BY <1>1, <1>4, <1>5 DEF SnapshotInv
<1>8. honest(result)
  <2>1. /\ realMoves(moves) /\ fitsWithin(top) /\ cost \in Int
        /\ baseline.candidates \subseteq Nodes
        /\ baseline.empty = getEmptyNodes(baseline.candidates, origin)
        /\ \A m \in ToSet(moves) : m.pod \in evicted
        /\ \A p \in evicted : origin[p] \in baseline.candidates
    BY <1>1 DEF SimulationInv, SnapshotInv
  <2>2. top = moved(ToSet(moves))
    <3>1. \A p \in Pods : top[p] = moved(ToSet(moves))[p]
      BY <1>1 DEF SimulationInv, ToSet
    <3>2. top \in Placements
      <4>1. 3 \in 1..Len(snapshot) /\ top = snapshot[3]
        BY <1>3 DEF top, Last
      <4> QED
        BY <1>3, <4>1, ElementOfSeq
    <3>3. moved(ToSet(moves)) \in [Pods -> Nodes]
      BY <2>1, MovedType DEF PlacementInv
    <3> QED
      BY <3>1, <3>2, <3>3 DEF Placements
  <2>3. nodesToFree = getEmptyNodes(Nodes, top) \ getEmptyNodes(Nodes, origin)
    <3>1. ASSUME NEW n \in Nodes, n \notin baseline.candidates
          PROVE  podsOn(n, origin) \subseteq podsOn(n, top)
      <4>1. \A p \in podsOn(n, origin) : p \in Pods /\ \A m \in ToSet(moves) : m.pod # p
        BY <2>1, <3>1 DEF podsOn
      <4>2. \A p \in podsOn(n, origin) : top[p] = origin[p]
        BY <2>1, <2>2, <4>1, MovedPods
      <4> QED
        BY <4>1, <4>2 DEF podsOn
    <3>2. \A n \in Nodes \ baseline.candidates :
            isConsideredEmpty(n, top) => isConsideredEmpty(n, origin)
      BY <3>1 DEF isConsideredEmpty
    <3> QED
      BY <2>1, <3>2 DEF nodesToFree, getEmptyNodes, freshNodes
  <2>4. nodesToFree \in SUBSET Nodes /\ Cardinality(nodesToFree) \in Nat
    <3>1. nodesToFree \in SUBSET Nodes
      BY <2>1 DEF nodesToFree, getEmptyNodes
    <3> QED
      BY <3>1, ClusterAssumption, FS_Subset, FS_CardinalityType
  <2>5. result.score \in Int
    BY <2>1, <2>4, ScoreType
  <2>6. result \in Result
    BY <2>1, <2>4, <2>5 DEF Result, realMoves
  <2> QED
    BY <2>1, <2>2, <2>3, <2>6 DEF honest
<1> HIDE DEF result
<1>9. ResultsInv'
  <2>1. CASE UNCHANGED <<finished, best>>
    BY <1>1, <1>5, <2>1, ResultsKept
  <2>2. CASE /\ finished' = finished \cup {result}
             /\ best' = IF best = None \/ isBetter(result, best) THEN result ELSE best
    <3>1. \A r \in finished' : honest(r)
      BY <1>8, <2>2 DEF ResultsInv
    <3>2. \A r \in finished' : honest(r)'
      BY <1>5, <3>1, OriginKept
    <3>3. \A r \in finished' : r.score \in Int /\ r \in Result
      <4>1. \A r \in finished' : r \in Result
        BY <3>1 DEF honest
      <4> QED
        BY <4>1 DEF Result
    <3>4. best' \in finished' /\ \A r \in finished' : r.score <= best'.score
      BY <2>2, <3>3 DEF ResultsInv, isBetter
    <3>5. best' # None
      BY <3>3, <3>4, ClusterAssumption
    <3> QED
      BY <1>1, <3>2, <3>4, <3>5 DEF ResultsInv
  <2> QED
    BY <1>2, <2>1, <2>2
<1>10. SimulationInv'
  BY <1>1 DEF SimulationInv
<1> QED
  BY <1>6, <1>7, <1>9, <1>10

\* The best result is applied, if it is worth it.
LEMMA EndOfSimulations ==
  ASSUME PlannerInv, conclude
  PROVE  PlannerInv'
<1> USE DEF PlannerInv
<1>1. /\ pc = "sets" /\ pc' = "done"
      /\ UNCHANGED <<placement, sets, snapshot, baseline, evicted, permutations, unscheduled,
                     moves, cost, finished, best>>
  BY DEF conclude, simulation
<1>2. origin' = origin /\ placement = origin /\ pending = {}
  BY <1>1 DEF origin, PlacementInv
<1>3. CASE runOutcome # "applied" /\ outcome' = runOutcome /\ UNCHANGED pending
  <2>1. runOutcome \in {"none", "not-worth", "dry-run"}
    BY <1>3 DEF runOutcome
  <2>2. PlacementInv'
    BY <1>1, <1>2, <1>3, <2>1 DEF PlacementInv, origin
  <2>3. SnapshotInv'
    BY <1>1, <1>2 DEF SnapshotInv
  <2>4. ResultsInv'
    <3>1. \A r \in finished : honest(r)'
      BY <1>2, OriginKept DEF ResultsInv
    <3> QED
      BY <1>1, <1>2, <1>3, <2>1, <3>1 DEF ResultsInv
  <2> QED
    BY <1>1, <2>2, <2>3, <2>4 DEF SimulationInv
<1>4. CASE /\ runOutcome = "applied"
           /\ pending' \in SUBSET ToSet(best.moves)
           /\ outcome' = IF pending' = ToSet(best.moves) THEN "applied" ELSE "apply-failed"
  <2>1. best # None /\ ~isNotWorth(best)
    BY <1>4 DEF runOutcome
  <2>2. PlacementInv'
    <3>1. outcome' = "applied" => ToSet(best.moves) \ pending' = {}
      BY <1>4
    <3>2. moved({}) = origin
      BY DEF moved, PlacementInv
    <3>3. ASSUME outcome' = "applied"
          PROVE  (placement = moved(ToSet(best.moves) \ pending))'
      <4>1. ToSet(best'.moves) \ pending' = {}
        BY <1>1, <3>1, <3>3
      <4>2. moved({})' = origin
        BY <1>2, <3>2, OriginKept
      <4> QED
        BY <1>1, <1>2, <4>1, <4>2
    <3> QED
      BY <1>1, <1>2, <1>4, <3>3 DEF PlacementInv, origin
  <2>3. SnapshotInv'
    BY <1>1, <1>2 DEF SnapshotInv
  <2>4. ResultsInv'
    <3>1. \A r \in finished : honest(r)'
      BY <1>2, OriginKept DEF ResultsInv
    <3> QED
      BY <1>1, <2>1, <3>1 DEF ResultsInv, isNotWorth
  <2> QED
    BY <1>1, <2>2, <2>3, <2>4 DEF SimulationInv
<1> QED
  BY <1>3, <1>4 DEF conclude

LEMMA OneMigration ==
  ASSUME PlannerInv, Migrate
  PROVE  PlannerInv'
<1> USE DEF PlannerInv
<1>1. PICK move \in pending : /\ placement' = [placement EXCEPT ![move.pod] = move.to]
                              /\ pending' = pending \ {move}
                              /\ UNCHANGED <<sets, simulation, finished, best, outcome, pc>>
  BY DEF Migrate
<1>2. pc = "done" /\ best # None /\ origin' = origin
  BY <1>1 DEF PlacementInv, ResultsInv, simulation, origin
<1> DEFINE all == ToSet(best.moves)  done == all \ pending
<1>3. realMoves(best.moves) /\ move \in all /\ pending \subseteq all
  BY <1>2 DEF PlacementInv, ResultsInv, honest
<1>4. move.pod \in Pods /\ move.to \in Nodes
  <2>1. all \subseteq Move
    BY <1>3 DEF realMoves, ToSet
  <2> QED
    BY <1>3, <2>1 DEF Move
<1>5. placement \in [Pods -> Nodes] /\ placement' \in [Pods -> Nodes]
  BY <1>1, <1>4 DEF PlacementInv
<1>6. ASSUME outcome = "applied"
      PROVE  placement' = moved(all \ pending')
  <2> DEFINE next == all \ pending'
  <2>1. next = done \cup {move} /\ done \in SUBSET all /\ next \in SUBSET all
    BY <1>1, <1>3
  <2>2. placement = moved(done)
    BY <1>2, <1>6 DEF PlacementInv
  <2>3. moved(next) \in [Pods -> Nodes]
    BY <1>3, <2>1, MovedType DEF PlacementInv
  <2> HIDE DEF all, done, next
  <2>4. ASSUME NEW q \in Pods
        PROVE  placement'[q] = moved(next)[q]
    <3>1. CASE q = move.pod
      BY <1>1, <1>3, <1>5, <2>1, <3>1, MovedPods DEF all
    <3>2. CASE q # move.pod
      <4>1. placement'[q] = moved(done)[q]
        BY <1>1, <1>5, <2>2, <3>2
      <4>2. CASE \E m \in done : m.pod = q
        BY <1>3, <2>1, <4>1, <4>2, MovedPods DEF all
      <4>3. CASE \A m \in done : m.pod # q
        BY <1>3, <2>1, <3>2, <4>1, <4>3, MovedPods DEF all
      <4> QED
        BY <4>2, <4>3
    <3> QED
      BY <3>1, <3>2
  <2> QED
    BY <1>5, <2>3, <2>4 DEF next
<1>7. PlacementInv'
  <2>1. ASSUME outcome' = "applied"
        PROVE  (placement = moved(ToSet(best.moves) \ pending))'
    <3>1. placement' = moved(all \ pending') /\ best' = best
      BY <1>1, <1>6, <2>1
    <3>2. \A M : moved(M)' = moved(M)
      BY <1>2, OriginKept
    <3> QED
      BY <3>1, <3>2
  <2>2. pending' \subseteq ToSet(best'.moves)
    BY <1>1, <1>3
  <2> QED
    BY <1>1, <1>2, <1>5, <2>1, <2>2 DEF PlacementInv, simulation
<1>8. SnapshotInv' /\ SimulationInv'
  BY <1>1, <1>2 DEF SnapshotInv, SimulationInv, simulation
<1>9. ResultsInv'
  <2>1. \A r \in finished : honest(r)'
    BY <1>2, OriginKept DEF ResultsInv
  <2> QED
    BY <1>1, <2>1 DEF ResultsInv
<1> QED
  BY <1>7, <1>8, <1>9

LEMMA PlannerInvStep == PlannerInv /\ [Next]_vars => PlannerInv'
<1> SUFFICES ASSUME PlannerInv, [Next]_vars PROVE PlannerInv'
  OBVIOUS
<1>1. CASE startCandidateSet
  BY <1>1, StartOfSet
<1>2. CASE startRun
  BY <1>2, StartOfRun
<1>3. CASE scheduleNextPod
  BY <1>3, PodScheduled
<1>4. CASE failRun
  BY <1>4, FailureOfRun
<1>5. CASE finishRun
  BY <1>5, EndOfRun
<1>6. CASE finishCandidateSet
  BY <1>6, EndOfSet
<1>7. CASE conclude
  BY <1>7, EndOfSimulations
<1>8. CASE Migrate
  BY <1>8, OneMigration
<1>9. CASE UNCHANGED vars
  <2>1. /\ origin' = origin /\ top' = top
        /\ UNCHANGED <<placement, sets, snapshot, baseline, evicted, permutations, unscheduled,
                       moves, cost, finished, best, outcome, pending, pc>>
    BY <1>9 DEF vars, simulation, origin, top
  <2>2. PlacementInv' /\ SnapshotInv'
    <3>1. \A M : moved(M)' = moved(M)
      BY <2>1, OriginKept
    <3> QED
      BY <2>1, <3>1 DEF PlannerInv, PlacementInv, SnapshotInv
  <2>3. SimulationInv'
    <3>1. \A ms : realMoves(ms)' <=> realMoves(ms)
      BY <2>1, OriginKept
    <3>2. \A M : moved(M)' = moved(M)
      BY <2>1, OriginKept
    <3> QED
      BY <2>1, <3>1, <3>2 DEF PlannerInv, SimulationInv
  <2>4. ResultsInv'
    <3>1. \A r : honest(r)' <=> honest(r)
      BY <2>1, OriginKept
    <3> QED
      BY <2>1, <3>1 DEF PlannerInv, ResultsInv
  <2> QED
    BY <2>2, <2>3, <2>4 DEF PlannerInv
<1> QED
  BY <1>1, <1>2, <1>3, <1>4, <1>5, <1>6, <1>7, <1>8, <1>9 DEF Next

\* What holds in between a planner's steps holds after each of them, whatever
\* the cluster, the rules, the candidate sets and the weights are.
THEOREM PlannerInvHolds == Spec => []PlannerInv
  BY PlannerInvInit, PlannerInvStep, PTL DEF Spec

-----------------------------------------------------------------------------
(***************************************************************************)
(* What follows from it                                                    *)
(***************************************************************************)
LEMMA BestIsHonest ==
  ASSUME PlannerInv, best # None
  PROVE  honest(best)
BY DEF PlannerInv, ResultsInv

LEMMA PlannerInvTypes == PlannerInv => PlannerTypeOK
<1> SUFFICES ASSUME PlannerInv PROVE PlannerTypeOK
  OBVIOUS
<1>1. ToSet(unscheduled) \subseteq evicted
  <2>1. CASE pc = "run"
    BY <2>1 DEF PlannerInv, SimulationInv, ToSet
  <2>2. CASE pc # "run"
    BY <2>2 DEF PlannerInv, PlacementInv, SnapshotInv, ToSet
  <2> QED
    BY <2>1, <2>2
<1>2. finished \subseteq Result /\ best \in Result \cup {None}
  BY DEF PlannerInv, ResultsInv, honest
<1>3. pending \subseteq Move
  <2>1. CASE best # None
    <3>1. ToSet(best.moves) \subseteq Move
      BY <2>1, BestIsHonest DEF honest, realMoves, ToSet
    <3> QED
      BY <2>1, <3>1 DEF PlannerInv, PlacementInv
  <2>2. CASE best = None
    BY <2>2 DEF PlannerInv, PlacementInv, ResultsInv
  <2> QED
    BY <2>1, <2>2
<1> QED
  BY <1>1, <1>2, <1>3 DEF PlannerInv, PlacementInv, SnapshotInv, PlannerTypeOK

LEMMA PlannerInvClean == PlannerInv => StartsClean
<1> SUFFICES ASSUME PlannerInv PROVE StartsClean
  OBVIOUS
<1>1. /\ snapshot \in Seq(Placements)
      /\ pc # "done" => placement = origin
      /\ placement \in [Pods -> Nodes]
  BY DEF PlannerInv, PlacementInv, Placements
<1>2. CASE pc = "sets"
  <2>1. Len(snapshot) = 1 /\ snapshot[1] = placement /\ placement \in Placements
    BY <1>1, <1>2 DEF PlannerInv, SnapshotInv, origin, Placements
  <2>2. <<placement>> \in Seq(Placements) /\ Len(<<placement>>) = 1 /\ <<placement>>[1] = placement
    BY <2>1
  <2>3. \A i \in 1..Len(snapshot) : snapshot[i] = <<placement>>[i]
    BY <2>1, <2>2
  <2>4. snapshot = <<placement>>
    BY <1>1, <2>1, <2>2, <2>3, SeqEqual, Zenon
  <2> QED
    BY <1>2, <2>4 DEF StartsClean
<1>3. CASE pc = "permutations"
  <2>1. /\ Len(snapshot) = 2 /\ snapshot[1] = placement
        /\ snapshot[2] = [p \in Pods |-> IF p \in evicted THEN None ELSE placement[p]]
    BY <1>1, <1>3 DEF PlannerInv, SnapshotInv, origin
  <2>2. Head(snapshot) = snapshot[1] /\ top = snapshot[2]
    BY <1>1, <2>1 DEF top, Last
  <2> QED
    BY <1>3, <2>1, <2>2 DEF StartsClean
<1> QED
  BY <1>2, <1>3 DEF StartsClean

LEMMA PlannerInvReal == PlannerInv => MovesAreReal
<1> SUFFICES ASSUME PlannerInv, best # None, pc # "done"
             PROVE  LET m == best.moves IN
                    /\ \A i \in DOMAIN m :
                         LET pod == Pod[m[i].pod] IN
                         /\ m[i].from = placement[m[i].pod] /\ m[i].to # m[i].from
                         /\ pod.namespace \notin {"kube-system", PodtetrisNamespace}
                         /\ ~completed(pod) /\ ~isFixed(pod)
                         /\ pod.controller # "" /\ ToSet(pod.owners) \cap SkippedKinds = {}
                    /\ \A i, j \in DOMAIN m : m[i].pod = m[j].pod => i = j
  BY DEF MovesAreReal
<1> DEFINE m == best.moves
<1>1. realMoves(m) /\ placement = origin
  BY BestIsHonest DEF honest, PlannerInv, PlacementInv
<1> HIDE DEF m
<1>2. ASSUME NEW i \in DOMAIN m
      PROVE  LET pod == Pod[m[i].pod] IN
             /\ m[i].from = placement[m[i].pod] /\ m[i].to # m[i].from
             /\ pod.namespace \notin {"kube-system", PodtetrisNamespace}
             /\ ~completed(pod) /\ ~isFixed(pod)
             /\ pod.controller # "" /\ ToSet(pod.owners) \cap SkippedKinds = {}
  <2>1. /\ m[i].from = origin[m[i].pod] /\ m[i].to # m[i].from
        /\ isEvictable(Pod[m[i].pod]) /\ m[i] \in Move
    BY <1>1 DEF realMoves
  <2>2. m[i].pod \in Pods
    BY <2>1 DEF Move
  <2> QED
    BY <1>1, <2>1, <2>2, EvictablePods
<1>3. \A i, j \in DOMAIN m : m[i].pod = m[j].pod => i = j
  BY <1>1 DEF realMoves
<1> QED
  BY <1>2, <1>3 DEF m

LEMMA AppliedIsMoved ==
  ASSUME PlannerInv, outcome = "applied"
  PROVE  /\ best # None /\ honest(best) /\ pending \subseteq ToSet(best.moves)
         /\ placement = moved(ToSet(best.moves) \ pending)
<1>1. pc = "done" /\ best # None
  BY ClusterAssumption DEF PlannerInv, PlacementInv, ResultsInv
<1> QED
  BY <1>1, BestIsHonest DEF PlannerInv, PlacementInv

LEMMA PlannerInvDelivers == PlannerInv => PlanDelivers
<1> SUFFICES ASSUME PlannerInv, outcome = "applied", pending = {}
             PROVE  best.nodesToFree = {n \in Nodes : inUse(n, origin) /\ ~inUse(n, placement)}
  BY DEF PlanDelivers
<1>1. placement = moved(ToSet(best.moves))
  <2>1. ToSet(best.moves) \ pending = ToSet(best.moves)
    OBVIOUS
  <2> QED
    BY <2>1, AppliedIsMoved
<1>2. best.nodesToFree = getEmptyNodes(Nodes, placement) \ getEmptyNodes(Nodes, origin)
  BY <1>1, AppliedIsMoved DEF honest
<1> QED
  BY <1>2, EmptyIsUnused DEF getEmptyNodes

\* The pods that are still to be moved apart, a cluster in the middle of a plan has
\* of its pods a part of those it has at the plan's end.
LEMMA PlannerInvFits == PlannerInv => OnlyLeaversOverfill
<1> DEFINE present == [p \in Pods |-> IF \E m \in pending : m.pod = p THEN None ELSE placement[p]]
           all == ToSet(best.moves)
<1> SUFFICES ASSUME PlannerInv, outcome = "applied"
             PROVE  fitsWithin(present)
  BY DEF OnlyLeaversOverfill
<1>1. /\ realMoves(best.moves) /\ fitsWithin(moved(all)) /\ pending \subseteq all
      /\ placement = moved(all \ pending)
  BY AppliedIsMoved DEF honest
<1>2. ASSUME NEW p \in Pods, NEW n \in Nodes, present[p] = n
      PROVE  moved(all)[p] = n
  <2>1. n # None
    BY ClusterAssumption
  <2>2. placement[p] = n /\ \A m \in pending : m.pod # p
    BY <1>2, <2>1
  <2>3. CASE \E m \in all : m.pod = p
    <3>1. PICK m \in all \ pending : m.pod = p
      BY <2>2, <2>3
    <3>2. moved(all)[p] = m.to /\ moved(all \ pending)[p] = m.to
      BY <1>1, <3>1, MovedPods
    <3> QED
      BY <1>1, <2>2, <3>2
  <2>4. CASE \A m \in all : m.pod # p
    <3>1. moved(all)[p] = origin[p] /\ moved(all \ pending)[p] = origin[p]
      BY <1>1, <2>4, MovedPods
    <3> QED
      BY <1>1, <2>2, <3>1
  <2> QED
    BY <2>3, <2>4
<1> HIDE DEF present, all
<1> QED
  BY <1>1, <1>2, FitsWithout

LEMMA PlannerInvChosen == PlannerInv => BestIsChosen
<1> SUFFICES ASSUME PlannerInv, pc = "done", pending # {}
             PROVE  EmptyNodesWeight * Cardinality(best.nodesToFree)
                      > CostWeight * best.cost + AutoConsolidationThreshold
  BY DEF BestIsChosen, PlannerInv, ResultsInv
<1> DEFINE gain == EmptyNodesWeight * Cardinality(best.nodesToFree)
           loss == CostWeight * best.cost
<1>1. best # None /\ ~isNotWorth(best)
  BY DEF PlannerInv, ResultsInv
<1>2. /\ best.nodesToFree \in SUBSET Nodes /\ best.cost \in Int
      /\ best.score = gain - loss
  BY <1>1, BestIsHonest DEF honest, Result, computePermutationScore
<1>3. Cardinality(best.nodesToFree) \in Nat
  BY <1>2, ClusterAssumption, FS_Subset, FS_CardinalityType
<1>4. EmptyNodesWeight \in Int /\ CostWeight \in Int /\ AutoConsolidationThreshold \in Int
  BY ConfigAssumption
<1>5. gain \in Int /\ loss \in Int
  BY <1>2, <1>3, <1>4
<1>6. ~(gain - loss <= AutoConsolidationThreshold)
  BY <1>1, <1>2 DEF isNotWorth
<1> HIDE DEF gain, loss
<1>7. gain > loss + AutoConsolidationThreshold
  BY <1>4, <1>5, <1>6
<1> QED
  BY <1>7 DEF gain, loss

\* The planner's state keeps its types; the stack of snapshots never has more than
\* the cluster, the evicted pods' and the simulation's (simulation.go).
THEOREM PlannerTypes == Spec => []PlannerTypeOK
  BY PlannerInvHolds, PlannerInvTypes, PTL

\* Each candidate set is simulated from the cluster as it is, and each ordering
\* from that without the evicted pods, whether the simulation before it failed or
\* not (Fork and Revert in main.go and simulation.go).
THEOREM SimulationsStartClean == Spec => []StartsClean
  BY PlannerInvHolds, PlannerInvClean, PTL

\* What a plan moves are pods against whose eviction nothing speaks, each once, from
\* where they are (evictionSkipReason, Run).
THEOREM RealMoves == Spec => []MovesAreReal
  BY PlannerInvHolds, PlannerInvReal, PTL

\* When all moves of a plan have been carried out, in whatever order, the nodes it
\* was to free are those that were in use before and are not any more: none that was
\* empty before the simulation, and none that the simulation filled (getEmptyNodes,
\* the baseline and the fresh node infos of Run).
THEOREM PlansDeliver == Spec => []PlanDelivers
  BY PlannerInvHolds, PlannerInvDelivers, PTL

\* At any time while a plan is carried out, in whatever order, what a node has too
\* much is of pods that are still to leave it (Run adds each pod to the node that it
\* chose before it asks for a node for the next).
THEOREM PlansFit == Spec => []OnlyLeaversOverfill
  BY PlannerInvHolds, PlannerInvFits, PTL

\* The plan that is applied has the highest score, which exceeds the threshold
\* (main.go).
THEOREM TheBestIsChosen == Spec => []BestIsChosen
  BY PlannerInvHolds, PlannerInvChosen, PTL

=============================================================================
