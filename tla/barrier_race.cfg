SPECIFICATION Spec
CONSTANTS
    c1 = c1
    c2 = c2
    c3 = c3
    Coroutines = {c1, c2}
    Workers = {w1, w2}
    Cancellers = {k1}
    Resetters = {}
    Destroyers = {}
    NULL = NULL
    Capacity = 2
    Rounds = 1
    Sessions <- FilledAndCancelled
INVARIANTS NoNullWaiter
CHECK_DEADLOCK FALSE
