------------------------- MODULE CandidateNodesProofs -------------------------
(***************************************************************************)
(* The shares of the candidate nodes add up, for every configuration that  *)
(* validateConfig accepts and every size of the cluster, and the candidate *)
(* sets are as large as they, and can be freed where nodes are drawn.      *)
(***************************************************************************)
EXTENDS CandidateNodes, FiniteSetTheorems, TLAPS

\* A share of at most 100 percent of n, rounded up or to the nearest.
LEMMA ShareBounds ==
  ASSUME NEW n \in Nat, NEW s \in 0..100
  PROVE  /\ n * s \in Nat
         /\ n * s <= n * 100
         /\ s = 0 => n * s = 0
         /\ s >= 1 => n * s >= n
         /\ s = 100 => n * s = n * 100
  OBVIOUS

LEMMA RoundedUp ==
  ASSUME NEW n \in Nat, NEW s \in 0..100
  PROVE  /\ (n * s + 99) \div 100 \in 0..n
         /\ s = 0 => (n * s + 99) \div 100 = 0
         /\ s >= 1 /\ n >= 1 => (n * s + 99) \div 100 >= 1
<1> DEFINE p == n * s
<1>1. /\ p \in Nat /\ p <= n * 100
      /\ s = 0 => p = 0
      /\ s >= 1 => p >= n
  BY ShareBounds
<1> HIDE DEF p
<1>2. (p + 99) \div 100 \in Nat /\ (p + 99) \div 100 <= n
  BY <1>1
<1>3. s = 0 => (p + 99) \div 100 = 0
  BY <1>1
<1>4. s >= 1 /\ n >= 1 => (p + 99) \div 100 >= 1
  BY <1>1
<1> QED
  BY <1>2, <1>3, <1>4 DEF p

\* The share of the nodes by CPU, whatever random has left.
LEMMA ShareByCPU ==
  ASSUME NEW n \in Nat, NEW s \in 0..100, NEW r \in 0..n
  PROVE  /\ Smaller((n * s + 50) \div 100, n - r) \in 0..n - r
         /\ s = 0 => Smaller((n * s + 50) \div 100, n - r) = 0
<1> DEFINE p == n * s
<1>1. p \in Nat /\ (s = 0 => p = 0)
  BY ShareBounds
<1> HIDE DEF p
<1>2. (p + 50) \div 100 \in Nat /\ (s = 0 => (p + 50) \div 100 = 0)
  BY <1>1
<1>3. n - r \in Nat
  OBVIOUS
<1>4. /\ Smaller((p + 50) \div 100, n - r) \in 0..n - r
      /\ s = 0 => Smaller((p + 50) \div 100, n - r) = 0
  BY <1>2, <1>3 DEF Smaller
<1> QED
  BY <1>4 DEF p

\* The memory share is zero when it is asked to be: random and CPU then take all.
LEMMA NothingLeftForMemory ==
  ASSUME NEW n \in Nat, NEW s \in 0..100, NEW t \in 0..100, s + t = 100
  PROVE  n - (n * t + 99) \div 100 <= (n * s + 50) \div 100
<1> DEFINE p == n * s
           q == n * t
<1>1. p \in Nat /\ q \in Nat
  BY ShareBounds
<1>2. p + q = 100 * n
  <2>1. t = 100 - s
    OBVIOUS
  <2>2. n * (100 - s) = n * 100 - n * s
    OBVIOUS
  <2> QED
    BY <2>1, <2>2
<1> HIDE DEF p, q
<1>3. n - (q + 99) \div 100 <= (p + 50) \div 100
  BY <1>1, <1>2
<1> QED
  BY <1>3 DEF p, q

\* The number of candidate nodes is between one and the size of the cluster.
LEMMA TotalBounds ==
  ASSUME NEW size \in Nat, size >= 1, NEW c \in CandidatesConfig, validateConfig(c)
  PROVE  resolveTotal(size, c) \in 1..size
<1> DEFINE q == (size * c.percent + 50) \div 100
<1>1. /\ c.percent \in 1..100 /\ c.min \in Int /\ c.max \in Int
      /\ c.min >= 1 /\ c.max >= c.min
  BY DEF CandidatesConfig, validateConfig
<1>2. q \in Int
  <2>1. size * c.percent \in Nat
    BY <1>1, ShareBounds
  <2> QED
    BY <2>1
<1> HIDE DEF q
<1>3. Smaller(Smaller(Larger(q, c.min), c.max), size) \in 1..size
  BY <1>1, <1>2 DEF Smaller, Larger
<1> QED
  BY <1>3 DEF resolveTotal, q

\* What "The counts always sum to the total" (nodes.go) says of every
\* configuration and every size.
LEMMA CountsFit ==
  ASSUME NEW size \in Nat, size >= 1, NEW c \in CandidatesConfig, validateConfig(c)
  PROVE  LET counts_ == resolveCandidateNodesCounts(size, c)
         IN  /\ counts_ \in CandidateNodesCounts
             /\ Total(counts_) = resolveTotal(size, c)
             /\ Total(counts_) \in 1..size
             /\ counts_.random = 0 <=> c.random = 0
             /\ c.byCPU = 0 => counts_.byCPU = 0
             /\ c.byMemory = 0 => counts_.byMemory = 0
<1> DEFINE n == resolveTotal(size, c)
           r == randomShare(n, c)
           u == cpuShare(n, c)
<1>1. /\ c.byCPU \in 0..100 /\ c.byMemory \in 0..100 /\ c.random \in 0..100
      /\ c.byCPU + c.byMemory + c.random = 100
  BY DEF CandidatesConfig, validateConfig
<1>2. n \in 1..size /\ n \in Nat
  BY TotalBounds
<1>3. /\ r \in 0..n
      /\ r = 0 <=> c.random = 0
  <2> DEFINE s == c.random
  <2>1. s \in 0..100 /\ n \in Nat /\ n >= 1
    BY <1>1, <1>2
  <2> HIDE DEF n, s
  <2>2. /\ (n * s + 99) \div 100 \in 0..n
        /\ s = 0 => (n * s + 99) \div 100 = 0
        /\ s >= 1 /\ n >= 1 => (n * s + 99) \div 100 >= 1
    BY ONLY <2>1, RoundedUp
  <2>3. r = (n * s + 99) \div 100
    BY DEF randomShare, s
  <2> HIDE DEF r
  <2>4. r \in 0..n /\ (r = 0 <=> s = 0)
    BY <2>1, <2>2, <2>3
  <2> QED
    BY <2>4 DEF s
<1>4. /\ u \in 0..n - r
      /\ c.byCPU = 0 => u = 0
  <2>1. /\ Smaller((n * c.byCPU + 50) \div 100, n - r) \in 0..n - r
        /\ c.byCPU = 0 => Smaller((n * c.byCPU + 50) \div 100, n - r) = 0
    <3> DEFINE s == c.byCPU
    <3>1. s \in 0..100 /\ n \in Nat /\ r \in 0..n
      BY <1>1, <1>2, <1>3
    <3> HIDE DEF n, r, s
    <3>2. /\ Smaller((n * s + 50) \div 100, n - r) \in 0..n - r
          /\ s = 0 => Smaller((n * s + 50) \div 100, n - r) = 0
      BY ONLY <3>1, ShareByCPU
    <3> QED
      BY <3>2 DEF s
  <2> QED
    BY <2>1 DEF cpuShare
<1>5. c.byMemory = 0 => n - r - u = 0
  <2>1. SUFFICES ASSUME c.byMemory = 0 PROVE u = n - r
    BY <1>2, <1>3, <1>4
  <2>2. c.byCPU + c.random = 100
    BY <1>1, <2>1
  <2>3. n - (n * c.random + 99) \div 100 <= (n * c.byCPU + 50) \div 100
    <3> HIDE DEF n
    <3> QED
      BY <1>1, <1>2, <2>2, NothingLeftForMemory
  <2>4. (n * c.byCPU + 50) \div 100 \in Int
    <3>1. n * c.byCPU \in Nat
      <4> HIDE DEF n
      <4> QED
        BY <1>1, <1>2, ShareBounds
    <3> QED
      BY <3>1
  <2>5. r = (n * c.random + 99) \div 100
    BY DEF randomShare
  <2>6. u = Smaller((n * c.byCPU + 50) \div 100, n - r)
    BY DEF cpuShare
  <2> DEFINE v == (n * c.byCPU + 50) \div 100
  <2> HIDE DEF n, r, u, v
  <2>7. n - r <= v /\ v \in Int /\ u = Smaller(v, n - r)
    BY <2>3, <2>4, <2>5, <2>6 DEF v
  <2> QED
    BY <2>7, <1>2, <1>3 DEF Smaller
<1>6. resolveCandidateNodesCounts(size, c) = [byCPU |-> u, byMemory |-> n - r - u, random |-> r]
  BY DEF resolveCandidateNodesCounts
<1> HIDE DEF n, r, u
<1> QED
  BY <1>2, <1>3, <1>4, <1>5, <1>6 DEF Total, CandidateNodesCounts, n

-----------------------------------------------------------------------------
\* The counts are the ones of a checked configuration.
CountsInv ==
  pc \notin {"start", "fatal"} =>
    /\ validateConfig(cfg) /\ Cardinality(nodes) >= 2
    /\ counts = resolveCandidateNodesCounts(Cardinality(nodes), cfg)

SelectionInv ==
  /\ cfg \in CandidatesConfig /\ nodes \subseteq Nodes
  /\ CountsInv

LEMMA SelectionInvInit == Init => SelectionInv
  BY SelectionAssumption DEF Init, SelectionInv, CountsInv

LEMMA SelectionInvStep == SelectionInv /\ [Next]_vars => SelectionInv'
<1> SUFFICES ASSUME SelectionInv, [Next]_vars
             PROVE  SelectionInv'
  OBVIOUS
<1> USE DEF SelectionInv, CountsInv
<1>1. CASE Resolve
  BY <1>1 DEF Resolve
<1>2. CASE selectLeastUsed
  BY <1>2 DEF selectLeastUsed
<1>3. CASE drawRandomNodes
  BY <1>3 DEF drawRandomNodes
<1>4. CASE createdAllSets
  BY <1>4 DEF createdAllSets
<1>5. CASE UNCHANGED vars
  BY <1>5 DEF vars
<1> QED
  BY <1>1, <1>2, <1>3, <1>4, <1>5 DEF Next

LEMMA SelectionInvFits == SelectionInv => SharesFit
<1> SUFFICES ASSUME SelectionInv, pc \notin {"start", "fatal"}
             PROVE  /\ Total(counts) = resolveTotal(Cardinality(nodes), cfg)
                    /\ Total(counts) \in 1..Cardinality(nodes)
                    /\ counts.random = 0 <=> cfg.random = 0
                    /\ cfg.byCPU = 0 => counts.byCPU = 0
                    /\ cfg.byMemory = 0 => counts.byMemory = 0
  BY DEF SharesFit
<1> DEFINE size == Cardinality(nodes)
<1>1. /\ validateConfig(cfg) /\ size >= 2 /\ cfg \in CandidatesConfig
      /\ counts = resolveCandidateNodesCounts(size, cfg)
  BY DEF SelectionInv, CountsInv
<1>2. size \in Nat
  BY SelectionAssumption, FS_Subset, FS_CardinalityType DEF SelectionInv
<1> HIDE DEF size
<1>3. size >= 1
  BY <1>1, <1>2
<1>4. /\ Total(counts) = resolveTotal(size, cfg)
      /\ Total(counts) \in 1..size
      /\ counts.random = 0 <=> cfg.random = 0
      /\ cfg.byCPU = 0 => counts.byCPU = 0
      /\ cfg.byMemory = 0 => counts.byMemory = 0
  BY <1>1, <1>2, <1>3, CountsFit
<1> QED
  BY <1>4 DEF size

\* The shares of the three strategies add up to the number of candidate nodes,
\* which the cluster has, and a strategy gets none when its percentage is zero
\* (resolveCandidateNodesCounts): for every cluster and every configuration.
THEOREM SharesAlwaysFit == Spec => []SharesFit
<1>1. Spec => []SelectionInv
  BY SelectionInvInit, SelectionInvStep, PTL DEF Spec
<1> QED
  BY <1>1, SelectionInvFits, PTL

-----------------------------------------------------------------------------
(***************************************************************************)
(* The candidate sets                                                      *)
(***************************************************************************)
\* What is true of the sets created so far, and of the one under way.
SetsInv ==
  /\ cfg \in Configs /\ fixed \subseteq nodes
  /\ counts \in CandidateNodesCounts
  /\ picked \subseteq nodes
  /\ pc \in {"start", "select", "draw", "done", "fatal"}
  /\ pc = "start" => sets = <<>>
  /\ pc = "draw" => /\ Cardinality(picked) = counts.byCPU + counts.byMemory
                    /\ Len(sets) < Larger(1, cfg.setsToCreate)
  /\ attempt \in 0..Larger(1, cfg.selectionMaxRetries)
  /\ pc = "draw" => attempt = 0 \/ attempt < cfg.selectionMaxRetries
  /\ sets \in Seq(SUBSET nodes) /\ Len(sets) <= Larger(1, cfg.setsToCreate)
  /\ SetsAreWhole
  /\ RandomSetsCanBeFreed
  /\ SelectionFailsForAReason

\* Two sets of nodes without a common one have the nodes of both.
LEMMA DisjointSets ==
  ASSUME NEW s, NEW t, s \subseteq Nodes, t \subseteq Nodes, s \cap t = {}
  PROVE  Cardinality(s \cup t) = Cardinality(s) + Cardinality(t)
<1>1. IsFiniteSet(s) /\ IsFiniteSet(t)
  BY SelectionAssumption, FS_Subset
<1>2. Cardinality(s) \in Nat /\ Cardinality(t) \in Nat
  BY <1>1, FS_CardinalityType
<1>3. Cardinality(s \cap t) = 0
  BY FS_EmptySet, Zenon
<1>4. Cardinality(s \cup t) = Cardinality(s) + Cardinality(t) - Cardinality(s \cap t)
  BY <1>1, FS_Union
<1> DEFINE both == Cardinality(s \cup t)  common == Cardinality(s \cap t)
           ofS == Cardinality(s)  ofT == Cardinality(t)
<1>5. both = ofS + ofT - common /\ common = 0 /\ ofS \in Nat /\ ofT \in Nat
  BY <1>2, <1>3, <1>4
<1> HIDE DEF both, common, ofS, ofT
<1>6. both = ofS + ofT
  BY <1>5
<1> QED
  BY <1>6 DEF both, ofS, ofT

LEMMA SetsInvInit == Init => SetsInv
<1> SUFFICES ASSUME Init PROVE SetsInv
  OBVIOUS
<1> USE SelectionAssumption DEF Init
<1>1. counts \in CandidateNodesCounts
  BY DEF CandidateNodesCounts
<1>2. SetsAreWhole /\ RandomSetsCanBeFreed /\ SelectionFailsForAReason
  BY DEF SetsAreWhole, RandomSetsCanBeFreed, SelectionFailsForAReason
<1>3. cfg.setsToCreate \in Int /\ cfg.selectionMaxRetries \in Int
  BY DEF CandidatesConfig
<1> QED
  BY <1>1, <1>2, <1>3 DEF SetsInv, Larger

\* One more set, the nodes of which were picked and drawn.
LEMMA OneMoreSet ==
  ASSUME SelectionInv, SetsInv, pc = "draw",
         NEW random \in getRandomNodes, ~allContainFixedPods(random),
         sets' = Append(sets, picked \cup random),
         UNCHANGED <<nodes, fixed, counts>>
  PROVE  /\ sets' \in Seq(SUBSET nodes) /\ Len(sets') <= Larger(1, cfg.setsToCreate)
         /\ SetsAreWhole' /\ RandomSetsCanBeFreed'
<1> DEFINE new == picked \cup random
<1>1. /\ random \in SUBSET (nodes \ picked) /\ Cardinality(random) = counts.random
      /\ picked \in SUBSET nodes /\ nodes \in SUBSET Nodes
      /\ counts \in CandidateNodesCounts /\ sets \in Seq(SUBSET nodes)
  BY DEF getRandomNodes, kSubset, SetsInv, SelectionInv
<1>2. Cardinality(new) = Total(counts)
  <2>1. Cardinality(new) = Cardinality(picked) + Cardinality(random)
    <3>1. picked \subseteq Nodes /\ random \subseteq Nodes /\ picked \cap random = {}
      BY <1>1
    <3> QED
      BY <3>1, DisjointSets, Zenon
  <2> QED
    BY <1>1, <2>1 DEF SetsInv, Total, CandidateNodesCounts
<1>3. counts.random > 0 => new \ fixed # {}
  <2>1. random = {} => Cardinality(random) = 0
    BY FS_EmptySet, Zenon
  <2>2. counts.random > 0 => random # {}
    BY <1>1, <2>1 DEF CandidateNodesCounts
  <2> QED
    BY <2>2 DEF allContainFixedPods
<1>4. new \in SUBSET nodes
  BY <1>1
<1> HIDE DEF new
<1>5. /\ sets' \in Seq(SUBSET nodes) /\ Len(sets') = Len(sets) + 1
      /\ \A i \in DOMAIN sets' : \/ i \in DOMAIN sets /\ sets'[i] = sets[i]
                                 \/ sets'[i] = new
  <2>1. sets' = Append(sets, new)
    BY DEF new
  <2> QED
    BY <1>1, <1>4, <2>1
<1>6. Len(sets) \in Nat /\ Len(sets) < Larger(1, cfg.setsToCreate) /\ Larger(1, cfg.setsToCreate) \in Int
  BY <1>1 DEF SetsInv, SelectionInv, CandidatesConfig, Larger
<1>7. SetsAreWhole'
  <2>1. Total(counts)' = Total(counts)
    BY DEF Total
  <2>2. \A i \in DOMAIN sets : Cardinality(sets[i]) = Total(counts)
    BY DEF SetsInv, SetsAreWhole
  <2> QED
    BY <1>2, <1>5, <2>1, <2>2, Zenon DEF SetsAreWhole
<1>8. RandomSetsCanBeFreed'
  BY <1>3, <1>5 DEF SetsInv, RandomSetsCanBeFreed
<1> QED
  BY <1>5, <1>6, <1>7, <1>8

LEMMA SetsInvStep == SelectionInv /\ SetsInv /\ [Next]_vars => SetsInv'
<1> SUFFICES ASSUME SelectionInv, SetsInv, [Next]_vars
             PROVE  SetsInv'
  OBVIOUS
<1> USE SelectionAssumption
<1>1. CASE Resolve
  <2>1. counts' \in CandidateNodesCounts
    <3>1. CASE validateConfig(cfg) /\ Cardinality(nodes) >= 2
      <4>1. Cardinality(nodes) \in Nat /\ cfg \in CandidatesConfig
        BY FS_Subset, FS_CardinalityType DEF SelectionInv
      <4> QED
        BY <1>1, <3>1, <4>1, CountsFit DEF Resolve
    <3>2. CASE ~(validateConfig(cfg) /\ Cardinality(nodes) >= 2)
      BY <1>1, <3>2 DEF Resolve, SetsInv
    <3> QED
      BY <3>1, <3>2
  <2>2. sets' = <<>> /\ pc' \in {"select", "fatal"}
    BY <1>1 DEF Resolve, SetsInv
  <2>3. SetsAreWhole' /\ RandomSetsCanBeFreed'
    BY <2>2 DEF SetsAreWhole, RandomSetsCanBeFreed
  <2>4. SelectionFailsForAReason'
    <3>1. Cardinality(nodes) \in Nat
      BY FS_Subset, FS_CardinalityType DEF SelectionInv
    <3>2. pc' = "fatal" => ~validateConfig(cfg) \/ Cardinality(nodes) < 2
      BY <1>1, <3>1 DEF Resolve
    <3>3. cfg' = cfg /\ nodes' = nodes
      BY <1>1 DEF Resolve
    <3> QED
      BY <3>2, <3>3 DEF SelectionFailsForAReason, validateConfig
  <2> QED
    BY <1>1, <2>1, <2>2, <2>3, <2>4 DEF Resolve, SetsInv
<1>2. CASE selectLeastUsed
  <2>1. SetsAreWhole' /\ RandomSetsCanBeFreed'
    BY <1>2 DEF selectLeastUsed, SetsInv, SetsAreWhole, RandomSetsCanBeFreed
  <2>2. CASE /\ Cardinality(nodes) < Total(counts) \/ allContainFixedPods(nodes)
             /\ pc' = "fatal" /\ UNCHANGED <<picked, attempt>>
    <3>1. ~(Cardinality(nodes) < Total(counts))
      <4>1. Total(counts) \in 1..Cardinality(nodes)
        BY <1>2, SelectionInvFits DEF selectLeastUsed, SharesFit
      <4>2. Cardinality(nodes) \in Nat
        BY FS_Subset, FS_CardinalityType DEF SelectionInv
      <4> QED
        BY <4>1, <4>2
    <3>2. nodes = fixed
      BY <2>2, <3>1 DEF allContainFixedPods, SetsInv
    <3>3. SelectionFailsForAReason'
      BY <1>2, <3>2 DEF selectLeastUsed, SelectionFailsForAReason
    <3> QED
      BY <1>2, <2>1, <2>2, <3>3 DEF selectLeastUsed, SetsInv
  <2>3. ASSUME NEW byCPU \in leastUsed(nodes, CPU, counts.byCPU),
               NEW byMemory \in leastUsed(leftByCPU(byCPU), Memory, counts.byMemory),
               picked' = byCPU \cup byMemory, attempt' = 0, pc' = "draw"
        PROVE  SetsInv'
    <3>1. /\ byCPU \in SUBSET nodes /\ Cardinality(byCPU) = counts.byCPU
          /\ byMemory \in SUBSET (nodes \ byCPU) /\ Cardinality(byMemory) = counts.byMemory
          /\ nodes \in SUBSET Nodes
      BY DEF leastUsed, kSubset, leftByCPU, SelectionInv
    <3>2. Cardinality(picked') = counts.byCPU + counts.byMemory
      <4>1. byCPU \subseteq Nodes /\ byMemory \subseteq Nodes /\ byCPU \cap byMemory = {}
        BY <3>1
      <4>2. Cardinality(byCPU \cup byMemory) = Cardinality(byCPU) + Cardinality(byMemory)
        BY <4>1, DisjointSets, Zenon
      <4> QED
        BY <2>3, <3>1, <4>2
    <3>3. Len(sets) < Larger(1, cfg.setsToCreate)
      <4>1. Len(sets) \in Nat /\ Len(sets) < setsToCreate /\ setsToCreate \in {1, cfg.setsToCreate}
        BY <1>2 DEF selectLeastUsed, setsToCreate, SetsInv
      <4>2. cfg.setsToCreate \in Int
        BY DEF SelectionInv, CandidatesConfig
      <4> QED
        BY <4>1, <4>2 DEF Larger
    <3>4. cfg.selectionMaxRetries \in Int
      BY DEF SelectionInv, CandidatesConfig
    <3>5. attempt' \in 0..Larger(1, cfg.selectionMaxRetries) /\ SelectionFailsForAReason'
      BY <2>3, <3>4 DEF Larger, SelectionFailsForAReason
    <3> QED
      BY <1>2, <2>1, <2>3, <3>1, <3>2, <3>3, <3>5 DEF selectLeastUsed, SetsInv
  <2> QED
    BY <1>2, <2>2, <2>3 DEF selectLeastUsed
<1>3. CASE drawRandomNodes
  <2>1. PICK random \in getRandomNodes :
          IF allContainFixedPods(random)
          THEN /\ attempt' = nextAttempt
               /\ pc' = IF attempt' >= cfg.selectionMaxRetries THEN "fatal" ELSE "draw"
               /\ UNCHANGED <<sets, picked>>
          ELSE /\ sets' = Append(sets, picked \cup random)
               /\ picked' = {} /\ attempt' = 0
               /\ pc' = "select"
    BY <1>3 DEF drawRandomNodes
  <2>2. pc = "draw" /\ UNCHANGED <<cfg, nodes, fixed, counts>>
    BY <1>3 DEF drawRandomNodes
  <2>3. cfg.selectionMaxRetries \in Int /\ attempt \in Nat
    BY DEF SelectionInv, CandidatesConfig, SetsInv
  <2>4. CASE allContainFixedPods(random)
    <3>1. /\ attempt' = attempt + 1 /\ (attempt = 0 \/ attempt < cfg.selectionMaxRetries)
          /\ pc' = IF attempt' >= cfg.selectionMaxRetries THEN "fatal" ELSE "draw"
      BY <2>1, <2>2, <2>4 DEF SetsInv, nextAttempt
    <3>2. /\ attempt' \in 0..Larger(1, cfg.selectionMaxRetries)
          /\ pc' = "draw" => attempt' < cfg.selectionMaxRetries
          /\ pc' = "fatal" => attempt' = Larger(1, cfg.selectionMaxRetries)
          /\ pc' \in {"draw", "fatal"}
      BY <2>3, <3>1 DEF Larger
    <3>3. counts.random \in 1..Cardinality(fixed \ picked)
      <4>1. /\ random \subseteq fixed \ picked /\ random # {}
            /\ Cardinality(random) = counts.random
        BY <2>4 DEF allContainFixedPods, getRandomNodes, kSubset
      <4>2. IsFiniteSet(fixed \ picked)
        BY FS_Subset DEF SelectionInv, SetsInv
      <4>3. /\ IsFiniteSet(random) /\ Cardinality(random) <= Cardinality(fixed \ picked)
        BY <4>1, <4>2, FS_Subset
      <4>4. Cardinality(random) \in Nat /\ Cardinality(random) # 0
        BY <4>1, <4>3, FS_CardinalityType, FS_EmptySet
      <4>5. Cardinality(fixed \ picked) \in Nat
        BY <4>2, FS_CardinalityType
      <4> QED
        BY <4>1, <4>3, <4>4, <4>5
    <3>4. SetsAreWhole' /\ RandomSetsCanBeFreed'
      BY <2>1, <2>2, <2>4 DEF SetsInv, SetsAreWhole, RandomSetsCanBeFreed
    <3>5. SelectionFailsForAReason'
      BY <2>1, <2>2, <2>4, <3>2, <3>3 DEF SelectionFailsForAReason
    <3> QED
      BY <2>1, <2>2, <2>4, <3>2, <3>4, <3>5 DEF SetsInv
  <2>5. CASE ~allContainFixedPods(random)
    <3>1. /\ sets' \in Seq(SUBSET nodes) /\ Len(sets') <= Larger(1, cfg.setsToCreate)
          /\ SetsAreWhole' /\ RandomSetsCanBeFreed'
      BY <2>1, <2>2, <2>5, OneMoreSet
    <3>2. attempt' \in 0..Larger(1, cfg.selectionMaxRetries) /\ SelectionFailsForAReason'
      BY <2>1, <2>3, <2>5 DEF Larger, SelectionFailsForAReason
    <3> QED
      BY <2>1, <2>2, <2>5, <3>1, <3>2 DEF SetsInv
  <2> QED
    BY <2>4, <2>5
<1>4. CASE createdAllSets
  <2>1. SelectionFailsForAReason'
    BY <1>4 DEF createdAllSets, SelectionFailsForAReason, setsToCreate, Total
  <2> QED
    BY <1>4, <2>1 DEF createdAllSets, SetsInv, SetsAreWhole, RandomSetsCanBeFreed
<1>5. CASE UNCHANGED vars
  BY <1>5 DEF vars, SetsInv, SetsAreWhole, RandomSetsCanBeFreed, SelectionFailsForAReason,
              setsToCreate, Total
<1> QED
  BY <1>1, <1>2, <1>3, <1>4, <1>5 DEF Next

LEMMA SetsInvAlways == Spec => [](SelectionInv /\ SetsInv)
  BY SelectionInvInit, SelectionInvStep, SetsInvInit, SetsInvStep, PTL DEF Spec

\* The variables of the selection keep their types: no more sets are created
\* than asked for, and no more draws made than allowed.
THEOREM SelectionTypes == Spec => []CandidatesTypeOK
<1>1. SelectionInv /\ SetsInv => CandidatesTypeOK
  BY DEF SelectionInv, SetsInv, CandidatesTypeOK
<1> QED
  BY <1>1, SetsInvAlways, PTL

\* No node is taken twice for one set (selectCandidateNodes): every set has as
\* many nodes as the three strategies together were asked for.
THEOREM WholeSets == Spec => []SetsAreWhole
<1>1. SetsInv => SetsAreWhole
  BY DEF SetsInv
<1> QED
  BY <1>1, SetsInvAlways, PTL

\* A set with random nodes has a node without fixed pods: the draws are repeated
\* until one does (getRandomNodes, allContainFixedPods).
THEOREM RandomSetsFreeable == Spec => []RandomSetsCanBeFreed
<1>1. SetsInv => RandomSetsCanBeFreed
  BY DEF SetsInv
<1> QED
  BY <1>1, SetsInvAlways, PTL

\* The selection ends in an error for one of four reasons: never for want of nodes,
\* whatever the shares, and never over the empty draw of a set without random nodes
\* (createCandidateNodesSets, selectCandidateNodes, allContainFixedPods).
THEOREM FailuresHaveReasons == Spec => []SelectionFailsForAReason
<1>1. SetsInv => SelectionFailsForAReason
  BY DEF SetsInv
<1> QED
  BY <1>1, SetsInvAlways, PTL
=============================================================================
