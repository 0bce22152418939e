SPECIFICATION FairSpec
CONSTANTS
    NumTasks = 2
    Handovers = 3
    RootInside = FALSE
    NULL = NULL
INVARIANTS CountsExact WaitsForAll FreedLast
PROPERTY ThreadReturns
CHECK_DEADLOCK FALSE
