CONSTANTS
    m1 = m1
    m2 = m2
    m3 = m3
    Msg <- OneMsg
    MaxIn = 2
    MaxConn = 2
    MaxRetries = 0
    MaxFaults = 0
    Arriving <- DataAndReset
SPECIFICATION RecvSpec
INVARIANTS IncomingInOrder
PROPERTIES BrokenIsLeft CloseStopsAll DropStopsAll
CHECK_DEADLOCK FALSE
