SPECIFICATION Spec
CONSTANTS
  pl1 = pl1  pl2 = pl2  s1 = s1  s2 = s2  p1 = p1  p2 = p2
  n1 = n1  n2 = n2  n3 = n3  None = None
  Plans = {pl1, pl2}
  Nodes = {n1, n2, n3}
  Sources = {s1, s2}
  SourceNode <- NodesOfSources
  NewPods = {p1}
  MovesOf <- OverlappingMoves
  TargetNode <- Targets
  NodesToFree <- OneNodeEach
  MaxErrors = 0
  MaxRestarts = 0
  MaxListErrors = 0
CHECK_DEADLOCK FALSE
INVARIANTS PlanTypeOK UndisturbedPlansLive AppliedIsComplete
