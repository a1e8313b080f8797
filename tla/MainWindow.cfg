CONSTANTS
    a = a
    b = b
    Conn = {a, b}
    NoConn = NoConn
    Shadows <- OnePrefix
    Tries = 2
    Budget = 3
    Listed = {a}
    Faults = {"remoteClose", "closeError"}
    QueueBound = 1
SPECIFICATION MainSpec
INVARIANTS NothingOutlivesConnection WindowIsOfItsConnection OwnerKeepsHandle
PROPERTIES AbortNeedsHaste ViewerSettles ExitEnds RestartEnds BusyEnds LossIsShown
CHECK_DEADLOCK FALSE
