SPECIFICATION Spec
CONSTANTS
    u1 = u1
    u2 = u2
    r1 = r1
    r2 = r2
    Users = {u1, u2}
    Requests = {r1, r2}
    Invites = {i1}
    None = None
    MaxRows = 2
    MaxCommands = 5
SYMMETRY MCSymmetry
INVARIANTS
    AcceptedHasJoined
    AdmittedHasJoined
    ActiveHasSeat
PROPERTIES
    OwnColumnsSurvive
CHECK_DEADLOCK FALSE
