CONSTANTS
    m1 = m1
    m2 = m2
    m3 = m3
    Msg <- ThreeMsgs
    MaxIn = 1
    MaxConn = 3
    MaxRetries = 1
    MaxFaults = 1
    Arriving <- OnlyClose
SPECIFICATION SafeSpec
INVARIANTS TypeOK SingleReader OnlyRequeueStalls
PROPERTIES ImplementsSession
SYMMETRY Symmetry
CHECK_DEADLOCK FALSE
