CONSTANTS
    s1 = s1
    s2 = s2
    s3 = s3
    p = p
    q = q
    Threads = {s1, s2, s3}
    Prompts = {p, q}
    max_messages = 3
    max_sessions = 2
    MaxRuns = 4
SPECIFICATION SpecMemory
CHECK_DEADLOCK FALSE
INVARIANTS
    MemoryTypeOK
    ContextInOrder
    RecentThreadsKept
