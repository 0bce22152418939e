SPECIFICATION FairSpec
CONSTANTS
    c1 = c1
    c2 = c2
    c3 = c3
    Coroutines = {c1, c2, c3}
    Workers = {w1, w2}
    Cancellers = {k1}
    Resetters = {r1}
    Destroyers = {d1}
    NULL = NULL
    Capacity = 3
    Rounds = 2
    Sessions <- FilledOrCancelled
INVARIANTS Consistent RoundSafety CountedWaiters DestroyedQuiet
PROPERTY CancelReleasesAll
CHECK_DEADLOCK FALSE
