CONSTANTS
    Signals = {s1, s2}
    attempts = 2
    idle_timeout = 1
SPECIFICATION FairSpec
CHECK_DEADLOCK FALSE
INVARIANTS
    TypeOK
    CutOnlyIfOld
    RunsOnce
PROPERTIES
    Answered
