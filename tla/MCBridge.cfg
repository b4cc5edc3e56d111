CONSTANTS
    m = m
    t1 = t1
    Callers = {m, t1}
    Main = m
    MaxId = 6
    MaxChunks = 2
SPECIFICATION FairSpec
CHECK_DEADLOCK FALSE
INVARIANTS
    TypeOK
    OwnWholeAnswer
    NoOrphans
PROPERTIES
    CallsEnd
