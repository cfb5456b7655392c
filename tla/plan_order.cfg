SPECIFICATION Spec
CONSTANTS
  n1 = n1  n2 = n2  n3 = n3  a = a  b = b  c = c  d = d  e = e  j = j  k = k  q = q
  default = default  db = db  None = None  Omitted = Omitted
  Nodes = {n1, n2, n3}
  Pods = {a, b, c, e}
  Pod <- WorkloadPods
  Request <- Requests
  Allocatable <- EvenNodes
  Allowed <- AllowedOn
  Scores = {0, 1}
  CandidateSets <- AllNodes
  Strategies <- AllStrategies
  EmptyNodesWeight = 800
  CostWeight = 1
  AutoConsolidationThreshold = 0
  DryRun = FALSE
  FixedPodsRules <- NoRules
  MoveCostRules <- Costs
  DefaultMoveCost = 10
  PodtetrisNamespace = "podtetris"
CHECK_DEADLOCK FALSE
INVARIANTS MigrationFits
