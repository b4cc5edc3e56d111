CONSTANTS
    w1 = w1
    w2 = w2
    Workers = {w1, w2}
    MaxOps = 4
    MaxSessions = 3
SPECIFICATION Spec
CHECK_DEADLOCK FALSE
INVARIANTS
    TypeOK
    RunsAtMostOnce
    CreateAdopts
    RecoversAlone
