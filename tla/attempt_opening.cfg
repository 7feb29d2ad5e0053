SPECIFICATION Spec
CONSTANTS
    Requests = {r1, r2}
    Edits = {e1, e2}
    PhoneDraws = {d1}
    Allowed = 1
    Null = Null
SYMMETRY MCSymmetry
INVARIANTS
    DeletedIsSwept
PROPERTIES
    NoFreshStartBesideWork
    SittingsWithinLimit
    LoserFindsWinner
CHECK_DEADLOCK FALSE
