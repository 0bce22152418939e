SPECIFICATION FairSpec
CONSTANTS
    c1 = c1
    c2 = c2
    c3 = c3
    w1 = w1
    w2 = w2
    k1 = k1
    x1 = x1
    d1 = d1
    Coroutines = {c1, c2, c3}
    Workers = {w1, w2}
    Cancellers = {k1}
    Closers = {x1}
    Destroyers = {d1}
    NULL = NULL
    CountRange = 16
    Rounds = 1
    Sessions <- ThreeSessions
    QuietDestroy = TRUE
INVARIANTS Consistent MutualExclusion DestroyedFree
PROPERTY EveryoneDone
CHECK_DEADLOCK FALSE
