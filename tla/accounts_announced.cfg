SPECIFICATION FairSpec
CONSTANTS
  Calls = {c1, c2}
  Refreshers = {r1}
  Publishers = {p1, p2}
  Month = 1
  MaxTime = 1
  MaxFaults = 1
INVARIANTS
  TypeOK
  HistoryIsATimeline
PROPERTIES
  KeepsThePromise
  EveryChangeIsAnnounced
  NoSnapshotOutlivesItsTime
CHECK_DEADLOCK FALSE
