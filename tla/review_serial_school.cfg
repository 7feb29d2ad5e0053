SPECIFICATION Spec
CONSTANTS
    t1 = t1
    t2 = t2
    a1 = a1
    a2 = a2
    c1 = c1
    c2 = c2
    Null = Null
    Machine = Machine
    Teachers <- MCTeachers
    AiCalls <- MCAiCalls
    Calls = {c1, c2}
    Runs <- Serial
    Modes = {TRUE, FALSE}
    AtSchool = TRUE
    MaxChecks = 1
    TermLength = 1
    ClaimTTL = 1
    MaxAnswers = 2
    MaxTime = 1
SYMMETRY MCSymmetry
INVARIANTS
    MemoryRatedOnce
    ReviewBehindVerdict
    ChecksWithinBudget
    RowWellFormed
    SavedBeforePublished
    DisputeCountedOnce
PROPERTIES
    TeacherVerdictStands
    TermYieldsToOpenCard
    PromiseKept
CHECK_DEADLOCK FALSE
