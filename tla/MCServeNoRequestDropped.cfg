CONSTANTS
    serve_forever = TRUE
    MaxTasks = 2
    MaxCalls = 1
    MaxEvents = 1
SPECIFICATION Spec
CHECK_DEADLOCK FALSE
INVARIANT NoRequestDropped
