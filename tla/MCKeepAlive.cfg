CONSTANTS
    m1 = m1
    m2 = m2
    Msg <- TwoMsgs
    MaxIn = 3
SPECIFICATION Spec
INVARIANTS TypeOK IncomingInOrder FailedSendIsNotSent
PROPERTIES ImplementsLink DisconnectStopsWriteLoop DropStopsBothLoops
CHECK_DEADLOCK FALSE
