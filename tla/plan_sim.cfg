SPECIFICATION Spec
CONSTANTS
  n1 = n1  n2 = n2  n3 = n3  a = a  b = b  c = c  d = d  e = e  j = j  k = k  q = q
  default = default  db = db  None = None  Omitted = Omitted
  Nodes = {n1, n2, n3}
  Pods = {a, b, c, d, e, j, k, q}
  Pod <- PodsWithReasons
  Request <- Requests
  Allocatable <- UnevenNodes
  Allowed <- AllowedOn
  Scores = {0, 1}
  CandidateSets <- SomeSets
  Strategies <- TwoStrategies
  EmptyNodesWeight = 4
  CostWeight = 1
  AutoConsolidationThreshold = 0
  DryRun = FALSE
  FixedPodsRules <- DatabasesFixed
  MoveCostRules <- Costs
  DefaultMoveCost = 2
  PodtetrisNamespace = "podtetris"
CHECK_DEADLOCK FALSE
INVARIANTS PlannerTypeOK StartsClean MovesAreReal PlanDelivers OnlyLeaversOverfill BestIsChosen PlannerInv
