SPECIFICATION FairSpec
CONSTANTS
  Rows = {1, 2, 3}
  Poison = {1, 2}
  Relays = {p1}
  Timers = {t1, t2}
  BatchSize = 2
  MaxAttempts = 1
  MaxFaults = 1
INVARIANTS
  NothingLost
  AttemptsWithinOverlap
  CopiesAccounted
PROPERTIES
  Settled
CHECK_DEADLOCK FALSE
