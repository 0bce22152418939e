SPECIFICATION FairSpec
CONSTANTS
    Holders = {h1, h2}
    Cancellers = {h1}
    Detachers = {h2}
    NULL = NULL
    Waits = 2
    Children = 1
INVARIANTS OnlyLateCancelAborts DestroyedLast OwnedUntilComplete PausedForCancel
PROPERTY NothingLeaks
CHECK_DEADLOCK FALSE
