CONSTANTS
    Conn = {a, b}
    NoConn = NoConn
    NControls = 2
    Watched = {1}
    Paces <- BothPaces
SPECIFICATION Spec
INVARIANTS HandshakeHasCause DisabledListIsAwaited QuietListIsTrue
PROPERTIES HandshakeEnds ProcessingEnds
CHECK_DEADLOCK FALSE
