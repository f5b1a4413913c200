SPECIFICATION Spec
CONSTANTS
    Keys = {1, 2, 3, 4, 5, 6, 7, 8}
    NULL = NULL
INVARIANTS TypeOK TreeExact RedBlack WalkReachesFirst
PROPERTIES WalkEnds ImplementsDeadlineSet
CHECK_DEADLOCK FALSE
