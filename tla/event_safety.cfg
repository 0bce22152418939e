SPECIFICATION Spec
CONSTANTS
    Coroutines = {c1}
    SimpleTasks = {s1}
    Workers = {w1, w2}
    Counters = {p1}
    Attachers = {a1}
    Cancellers = {k1}
    Destroyers = {d1}
    NULL = NULL
    InitCount = 1
    MaxCount = 2
    ScopeRange = 256
    CountRange = 16
    Rounds = 1
    Downs = 2
    Ups = 1
INVARIANTS Consistent NoStrandedWaiter
PROPERTIES ImplementsWaitEvent
CHECK_DEADLOCK FALSE
