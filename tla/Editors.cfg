CONSTANTS
    AloneEdits = 2
    AloneOps = 2
    ListEdits = 2
    ListOps = 3
    SmallForm = 8
    TabEdits = 1
    Opens = 2
    Changes = 1
SPECIFICATION Spec
INVARIANTS DevicesAreKept ShownIsSaved NothingHiddenIsWritten
PROPERTIES SavedIsStored
CHECK_DEADLOCK FALSE
