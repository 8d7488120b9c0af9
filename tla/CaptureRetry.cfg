SPECIFICATION Spec
CONSTANTS
  Attempts = {1, 2}
  Scheduled = {1, 2}
  Bytes = {b1, b2}
  Keep = 1
  MaxClock = 2
  MaxTools = 1
  MaxKills = 1
  MayReuse = FALSE
INVARIANT
  Retryable
SYMMETRY Interchangeable
CHECK_DEADLOCK FALSE
