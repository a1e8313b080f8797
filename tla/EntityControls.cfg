CONSTANTS
    Name = {n1, n2}
    NoName = NoName
    Kinds <- EveryKind
    MaxEvents = 2
SPECIFICATION Spec
INVARIANTS ShownIsTrue CrashNeedsRelist
PROPERTIES MenuActsOnItsEntity ListComesBack
CHECK_DEADLOCK FALSE
