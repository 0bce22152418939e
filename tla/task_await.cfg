SPECIFICATION FairSpec
CONSTANTS
    Yields = 3
    Awaits = 5
    Children = 2
    CancelGenerators = FALSE
INVARIANTS TypeOK ResumedOnce FreedLast
PROPERTIES ValuesInOrder AllEnds
CHECK_DEADLOCK FALSE
