SPECIFICATION Spec
CONSTANTS
    t1 = t1
    t2 = t2
    a1 = a1
    a2 = a2
    c1 = c1
    c2 = c2
    Null = Null
    Machine = Machine
    Teachers <- MCOneTeacher
    AiCalls <- MCOneCall
    Calls = {c1}
    Runs <- Unattended
    Modes = {TRUE}
    AtSchool = TRUE
    MaxChecks = Null
    TermLength = 1
    ClaimTTL = 1
    MaxAnswers = 2
    MaxTime = 1
PROPERTIES
    TermClosesWhatWasRead
CHECK_DEADLOCK FALSE
