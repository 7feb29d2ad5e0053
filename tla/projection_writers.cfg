SPECIFICATION Spec
CONSTANTS
  Handlers = {h1, h2}
  Readers = {r1}
  MaxTime = 1
  MaxRevision = 1
SYMMETRY Symmetry
INVARIANTS
  AckedIsHeld
  ReadThroughIsCurrent
PROPERTIES
  RowMovesForward
CHECK_DEADLOCK FALSE
