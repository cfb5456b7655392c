SPECIFICATION Spec
CONSTANTS
  m1 = m1  s1 = s1  p1 = p1  p2 = p2  h1 = h1  h2 = h2
  n1 = n1  n2 = n2  rs = rs  sts = sts  None = None
  Moves = {m1}
  Pods = {s1, p1, p2}
  Source <- SourceOfMoves
  Hooks = {h1, h2}
  Owners = {rs, sts}
  StatefulSets = {sts}
  OwnerOf <- OfReplicaSet
  Nodes = {n1, n2}
  TargetNode <- TargetOfMoves
  Cancellable = {}
  MaxEvictionAttempts = 1
  MaxPersistAttempts = 1
  MaxRunningAttempts = 1
  MaxFaults = 0
  ClaimTries = 1
CHECK_DEADLOCK FALSE
INVARIANTS PinnedOnce ClaimBeatsTimeout
PROPERTIES TerminalIsFinal
SYMMETRY HooksAndReplacements
