--------------------------- MODULE MCCandidateNodes ---------------------------
(* CandidateNodes for TLC: nodes that are used alike and unlike, and the    *)
(* configurations around the roundings.                                     *)
EXTENDS CandidateNodes, TLC

CONSTANTS n1, n2, n3, n4

\* n2 and n3 are tied by CPU, n1 and n2 by memory, and the orders disagree.
CPUOf == n1 :> 1 @@ n2 :> 2 @@ n3 :> 2 @@ n4 :> 3
MemoryOf == n1 :> 2 @@ n2 :> 2 @@ n3 :> 1 @@ n4 :> 3

Mixes == {<<40, 40, 20>>, <<50, 50, 0>>, <<0, 100, 0>>, <<100, 0, 0>>, <<0, 0, 100>>,
          <<49, 50, 1>>, <<50, 0, 50>>, <<0, 50, 50>>, <<25, 25, 50>>, <<66, 33, 1>>,
          <<50, 50, 1>>, <<101, -1, 0>>}

Config(percent, min, max, mix, limits) ==
  [percent |-> percent, min |-> min, max |-> max,
   byCPU |-> mix[1], byMemory |-> mix[2], random |-> mix[3],
   setsToCreate |-> limits[1], selectionMaxRetries |-> limits[2]]

\* Percentages that round down, up and to a half, and the limits.
AllConfigs == {Config(p, r[1], r[2], x, <<2, 2>>) : p \in {0, 1, 37, 50, 100},
                                                    r \in {<<1, 4>>, <<2, 3>>, <<3, 2>>}, x \in Mixes}

\* Numbers of sets and of draws that nothing checks.
OddLimits == {Config(50, 1, 4, x, l) : x \in Mixes, l \in {<<-1, 1>>, <<0, -1>>, <<1, 0>>, <<3, 3>>}}

TestedConfigs == AllConfigs \cup OddLimits

\* The configuration of values.yaml.
DefaultConfig == {Config(30, 3, 20, <<40, 40, 20>>, <<2, 2>>)}

\* The same without random nodes.
NoRandomConfig == {Config(30, 3, 20, <<50, 50, 0>>, <<2, 2>>)}
=============================================================================
