SPECIFICATION Spec
CONSTANTS
    Yields = 1
    Awaits = 1
    Children = 0
    CancelGenerators = TRUE
INVARIANTS ScheduledNotDone
CHECK_DEADLOCK FALSE
