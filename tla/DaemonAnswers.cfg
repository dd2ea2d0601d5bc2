CONSTANTS
    d1 = d1
    d2 = d2
    r1 = r1
    DataSource <- OneSource
    Failed <- NoneFails
    Request <- OneRequest
    CheckRetries = 1
    MaxRetries = 1
    MaxConn = 2
    MaxTicks = 1
    MaxSignals = 1
SPECIFICATION Spec
PROPERTIES RequestIsAnswered RetryIsMade
CHECK_DEADLOCK FALSE
