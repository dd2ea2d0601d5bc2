CONSTANTS
    m1 = m1
    m2 = m2
    m3 = m3
    Msg <- TwoMsgs
    MaxIn = 0
    MaxConn = 2
    MaxRetries = 0
    MaxFaults = 2
    Arriving <- Kind
SPECIFICATION Spec
INVARIANTS LiveWriter ConnectedIsServed AtMostOnce
PROPERTIES ImplementsDelivery FlushedWithoutFaults BrokenIsLeft CloseStopsAll DropStopsAll
CHECK_DEADLOCK FALSE
