CONSTANTS
    d1 = d1
    d2 = d2
    r1 = r1
    DataSource <- OneSource
    Failed <- NoneFails
    Request <- OneRequest
    CheckRetries = 0
    MaxRetries = 0
    MaxConn = 1
    MaxTicks = 1
    MaxSignals = 1
SPECIFICATION Spec
PROPERTIES SigintEndsDaemon
CHECK_DEADLOCK FALSE
