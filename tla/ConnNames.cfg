CONSTANTS
    Elem = {e1, e2}
    None = None
    Names = {x, y}
    Local = {L}
    Budget = 2
SPECIFICATION Spec
INVARIANTS LiveConnectionIsInHand ListedIsSaved
PROPERTIES RefreshEnds
CHECK_DEADLOCK FALSE
