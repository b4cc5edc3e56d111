CONSTANTS
    s1 = s1
    s2 = s2
    own = own
    davinci = davinci
    w1 = w1
    w2 = w2
    Sessions = {s1}
    ToolKey = own
    Runtime = davinci
    Workers = {w1, w2}
    MaxRuns = 2
    MaxOps = 2
    MaxLate = 1
SPECIFICATION Spec
CHECK_DEADLOCK FALSE
INVARIANTS
    TypeOK
    IdleVmIsOff
    StatusTrue
