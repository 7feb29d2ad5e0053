SPECIFICATION FairSpec
CONSTANTS
  Calls = {c1, c2}
  Rejected = {c2}
  Instances = {i1, i2}
  Reconcilers = {r1}
  Nobody = Nobody
  Tries = 2
  Batch = 2
  Overrun = FALSE
  MaxFaults = 2
  Limit = 1
  Costs = {1}
INVARIANTS
  TypeOK
  NoRowVanishes
  CounterExplained
PROPERTIES
  AllowanceHolds
  CounterCatchesUp
  SpoolSettles
CHECK_DEADLOCK FALSE
