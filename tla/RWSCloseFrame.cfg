CONSTANTS
    m1 = m1
    m2 = m2
    m3 = m3
    Msg <- NoMsg
    MaxIn = 1
    MaxConn = 1
    MaxRetries = 0
    MaxFaults = 0
    Arriving <- Kind
SPECIFICATION RecvSpec
PROPERTIES CloseFrameEndsRecv
CHECK_DEADLOCK FALSE
