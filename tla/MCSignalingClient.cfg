CONSTANTS
    MaxRequests = 3
SPECIFICATION FairSpec
CHECK_DEADLOCK FALSE
INVARIANTS
    TypeOK
PROPERTIES
    InStep
    AwaitEnds
