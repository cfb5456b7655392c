SPECIFICATION Spec
CONSTANTS
  n1 = n1  n2 = n2  n3 = n3  a = a  b = b  c = c  d = d  e = e  j = j  k = k  q = q
  default = default  db = db  None = None  Omitted = Omitted
  Nodes = {n1, n2, n3}
  Pods = {a, b}
  Pod <- PodsWithTerminating
  Request <- Requests
  Allocatable <- EvenNodes
  Allowed <- AllowedOn
  Scores = {0, 1}
  CandidateSets <- SomeSets
  Strategies <- AllStrategies
  EmptyNodesWeight = 2
  CostWeight = 1
  AutoConsolidationThreshold = 0
  DryRun = FALSE
  FixedPodsRules <- DatabasesFixed
  MoveCostRules <- Costs
  DefaultMoveCost = 2
  PodtetrisNamespace = "podtetris"
CHECK_DEADLOCK FALSE
INVARIANTS TerminatingPodsStay
