CONSTANTS
    Conn = {a, b}
    NoConn = NoConn
    Faults = {"remoteClose", "closeError"}
    QueueBound = 1
SPECIFICATION MCSpec
SYMMETRY ConnSymmetry
INVARIANTS UnrestHasCause LiveHandleIsWatched LiveHandleIsShown FlagMatchesDocks CalmViewConsistent
PROPERTIES RowsInOrder
CHECK_DEADLOCK FALSE
