SPECIFICATION Spec
CONSTANTS
  Timers = {t1}
  Urgent = {t1}
  SelfArming = {}
  Dispatchers = {d1, d2}
  BatchSize = 2
  MaxAttempts = 5
  MaxArmings = 1
  MaxFaults = 5
INVARIANTS StaleLeaseIsClaimable
CHECK_DEADLOCK FALSE
