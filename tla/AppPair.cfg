CONSTANTS
    Conn = {a, b}
    NoConn = NoConn
    Faults = {"closeError"}
    QueueBound = 1
    Requests <- NameAndPassword
    MaxTurn = 3
SPECIFICATION AppSpec
CONSTRAINT InTime
SYMMETRY ConnSymmetry
INVARIANTS CleanExit LiveHandleIsListed CredentialsAreOwn NullNeedsDelay
CHECK_DEADLOCK FALSE
