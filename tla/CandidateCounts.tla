---------------------------- MODULE CandidateCounts ----------------------------
(***************************************************************************)
(* How many candidate nodes the planner takes, and how it shares them      *)
(* between its three strategies (src/src/planner/config.go and nodes.go).  *)
(*                                                                         *)
(* The numbers of the configuration are Go ints as they were read from a   *)
(* file, so they may be negative until validateConfig has seen them; the   *)
(* products stay far below the width of an int.                            *)
(***************************************************************************)
EXTENDS Integers

CandidatesConfig == [percent : Int, min : Int, max : Int,
                     byCPU : Int, byMemory : Int, random : Int,
                     setsToCreate : Int, selectionMaxRetries : Int]

CandidateNodesCounts == [byCPU : Nat, byMemory : Nat, random : Nat]

\* Nothing is asked of setsToCreate and selectionMaxRetries.
validateConfig(c) ==
  /\ c.percent \in 1..100
  /\ c.min >= 1 /\ c.max >= c.min
  /\ c.byCPU >= 0 /\ c.byMemory >= 0 /\ c.random >= 0
  /\ c.byCPU + c.byMemory + c.random = 100

Smaller(a, b) == IF a < b THEN a ELSE b
Larger(a, b) == IF a < b THEN b ELSE a

\* The number of candidate nodes in a cluster of size nodes.
resolveTotal(size, c) ==
  Smaller(Smaller(Larger((size * c.percent + 50) \div 100, c.min), c.max), size)

\* Variant: the random share is rounded down.
randomShareRoundedDown(total, c) == (total * c.random) \div 100

\* The random share is rounded up, ...
randomShare(total, c) == (total * c.random + 99) \div 100

\* Variant: the nearest number, although the random nodes may have taken it.
cpuShareUncapped(total, c) == (total * c.byCPU + 50) \div 100

\* ... the CPU share to the nearest, but no more than random has left, ...
cpuShare(total, c) ==
  Smaller((total * c.byCPU + 50) \div 100, total - randomShare(total, c))

\* ... and memory takes the rest.
resolveCandidateNodesCounts(size, c) ==
  LET total == resolveTotal(size, c)
  IN  [byCPU    |-> cpuShare(total, c),
       byMemory |-> total - randomShare(total, c) - cpuShare(total, c),
       random   |-> randomShare(total, c)]

Total(counts) == counts.byCPU + counts.byMemory + counts.random
=============================================================================
