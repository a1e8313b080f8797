CONSTANTS
    Conn = {a}
    NoConn = NoConn
    Faults = {}
    QueueBound = 0
SPECIFICATION AppSpec
PROPERTIES RestartStopsLoop
CHECK_DEADLOCK FALSE
