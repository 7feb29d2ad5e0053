SPECIFICATION Spec
CONSTANTS
    t1 = t1
    t2 = t2
    a1 = a1
    a2 = a2
    c1 = c1
    c2 = c2
    Null = Null
    Machine = Machine
    Teachers <- MCOneTeacher
    AiCalls <- MCOneCall
    Calls = {c1, c2}
    Runs <- ClaimBeside
    Modes = {FALSE}
    AtSchool = TRUE
    MaxChecks = Null
    TermLength = 1
    ClaimTTL = 1
    MaxAnswers = 1
    MaxTime = 0
PROPERTIES
    TeacherVerdictStands
CHECK_DEADLOCK FALSE
