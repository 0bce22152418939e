SPECIFICATION ValueFairSpec
CONSTANTS
    Coroutines = {c1, c2}
    SimpleTasks = {}
    Workers = {w1}
    Counters = {p1}
    Attachers = {}
    Cancellers = {k1}
    Destroyers = {d1}
    NULL = NULL
    Contents = {v}
    Unset = Unset
    InitCount = 1
    MaxCount = 1
    ScopeRange = 256
    CountRange = 16
    Rounds = 1
    Downs = 1
    Ups = 0
INVARIANTS DestroyedQuiet NeverUnset
PROPERTIES ZeroWakesAll CancelEndsWait
CHECK_DEADLOCK FALSE
