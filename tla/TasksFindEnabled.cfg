CONSTANTS
    Conn = {a, b}
    NoConn = NoConn
    NControls = 2
    Watched = {1}
    Paces <- OnlyHurry
SPECIFICATION Spec
PROPERTIES EnabledWhenUpdated
CHECK_DEADLOCK FALSE
