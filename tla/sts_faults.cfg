SPECIFICATION Spec
CONSTANTS
  m1 = m1  s1 = s1  p1 = p1  p2 = p2  h1 = h1  h2 = h2
  n1 = n1  n2 = n2  rs = rs  sts = sts  None = None
  Moves = {m1}
  Pods = {s1, p1}
  Source <- SourceOfMoves
  Hooks = {h1}
  Owners = {rs, sts}
  StatefulSets = {sts}
  OwnerOf <- OfStatefulSet
  Nodes = {n1, n2}
  TargetNode <- TargetOfMoves
  Cancellable = {m1}
  MaxEvictionAttempts = 2
  MaxPersistAttempts = 2
  MaxRunningAttempts = 2
  MaxFaults = 1
  ClaimTries = 2
CHECK_DEADLOCK FALSE
INVARIANTS ClaimBeatsTimeout SucceededMeansMoved IInv TruthInv
PROPERTIES LifecycleSpec
