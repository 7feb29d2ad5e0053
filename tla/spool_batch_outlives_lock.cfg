SPECIFICATION LedgerSpec
CONSTANTS
  Calls = {c1, c2}
  Rejected = {}
  Instances = {i1, i2}
  Nobody = Nobody
  Tries = 2
  Batch = 2
  Overrun = TRUE
  MaxFaults = 1
INVARIANTS
  NoRowVanishes
CHECK_DEADLOCK FALSE
