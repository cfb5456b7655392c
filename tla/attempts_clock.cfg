SPECIFICATION FairSpec
CONSTANTS
  MaxAttempts = 3
  Interval = 3
  Delays = {1, 3, 5}
  Skew = 1
  MaxFaults = 1
  MaxTime = 14
CHECK_DEADLOCK FALSE
INVARIANTS ClockTypeOK NeverTooEarly AlwaysAwaited
PROPERTIES AttemptsEnd
