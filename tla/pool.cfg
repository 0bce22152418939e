SPECIFICATION FairSpec
CONSTANTS
    d1 = d1
    d2 = d2
    b1 = b1
    m1 = m1
    c1 = c1
    DefaultWorkers = {d1, d2}
    BackgroundWorkers = {b1}
    Clients = {m1}
    Coroutines = {c1}
    NULL = NULL
    ShutdownState = "ShuttingDown"
    Sessions <- ThreeSessions
INVARIANTS Consistent LocalWorkDrained IdleMeansDone
PROPERTIES EverythingEnds
CHECK_DEADLOCK FALSE
