SPECIFICATION FairSpec
CONSTANTS
  n1 = n1  n2 = n2  n3 = n3  n4 = n4
  Nodes = {n1, n2, n3, n4}
  CPU <- CPUOf
  Memory <- MemoryOf
  Configs <- TestedConfigs
CHECK_DEADLOCK FALSE
INVARIANTS CandidatesTypeOK SharesFit SetsAreWhole RandomSetsCanBeFreed SelectionFailsForAReason
PROPERTIES SelectionEnds
