SPECIFICATION Spec
CONSTANTS
  MaxAttempts = 3
  Interval = 3
  Delays = {1, 3, 5}
  Skew = 0
  MaxFaults = 0
  MaxTime = 14
CHECK_DEADLOCK FALSE
PROPERTIES AttemptsLastAnInterval
