CONSTANTS
    d1 = d1
    d2 = d2
    r1 = r1
    DataSource <- TwoSources
    Failed <- SecondFails
    Request <- OneRequest
    CheckRetries = 1
    MaxRetries = 0
    MaxConn = 1
    MaxTicks = 2
    MaxSignals = 1
SPECIFICATION SafeSpec
INVARIANTS TypeOK RelayIsUpToDate OfflineIsFinal ListsAreComplete AnsweredOnce GaugeCountsCalls
CHECK_DEADLOCK FALSE
