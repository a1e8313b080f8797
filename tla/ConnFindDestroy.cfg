CONSTANTS
    Conn = {a}
    NoConn = NoConn
    Faults = {}
    QueueBound = 1
SPECIFICATION MCSpec
INVARIANTS NoThreadDestroyed
CHECK_DEADLOCK FALSE
