CONSTANTS
    serve_forever = TRUE
    MaxTasks = 2
    MaxCalls = 2
    MaxEvents = 1
SPECIFICATION FairSpec
CHECK_DEADLOCK FALSE
INVARIANTS
    TypeOK
    OwnToolResult
    StreamWellFormed
PROPERTIES
    ComesBack
