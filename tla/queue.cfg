SPECIFICATION FairSpec
CONSTANTS
  Timers = {t1, t2}
  Urgent = {t1}
  SelfArming = {t2}
  Dispatchers = {d1, d2}
  BatchSize = 1
  MaxAttempts = 3
  MaxArmings = 2
  MaxFaults = 3
INVARIANTS TypeOK ActsOncePerArming NoneStrandedYet
PROPERTIES KeepsTheService EveryNeedMet
CHECK_DEADLOCK FALSE
