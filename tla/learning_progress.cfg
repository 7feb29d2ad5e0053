SPECIFICATION Spec
CONSTANTS
    exercise = exercise
    gap = gap
    h1 = h1
    h2 = h2
    None = None
    Attempts = {1, 2}
    Dates <- MCDates
    Handlers = {h1, h2}
    Requests = {q1}
    Contents = {exercise, gap}
    OwnCard = exercise
    Touched <- MCTouched
    Limit = 1
    Horizon = 2
    Bound = 3
SYMMETRY MCSymmetry
INVARIANTS
    TypeOK
    DayNotOverbooked
    CountExplained
    HumanPassStands
    ScoreIsLatest
CHECK_DEADLOCK FALSE
