CONSTANTS
    m1 = m1
    m2 = m2
    m3 = m3
    Msg <- ThreeMsgs
    MaxIn = 0
    MaxConn = 2
    MaxRetries = 0
    MaxFaults = 2
    Arriving <- Kind
SPECIFICATION SafeSpec
INVARIANTS NeverStuckRequeue
SYMMETRY Symmetry
CHECK_DEADLOCK FALSE
