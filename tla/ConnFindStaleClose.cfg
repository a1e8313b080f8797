CONSTANTS
    Conn = {a, b}
    NoConn = NoConn
    Faults = {"remoteClose"}
    QueueBound = 1
SPECIFICATION MCSpec
PROPERTIES CloseClearsOwnDocks
CHECK_DEADLOCK FALSE
