SPECIFICATION Spec
CONSTANTS
    Holders = {h1}
    Cancellers = {}
    Detachers = {}
    NULL = NULL
    Waits = 1
    Children = 0
INVARIANTS NoAbort
CHECK_DEADLOCK FALSE
