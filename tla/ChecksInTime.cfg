CONSTANTS
    d1 = d1
    d2 = d2
    DataSource <- TwoSources
    Interval <- FiveMinutes
    InitialDelay <- TenSeconds
    Num = 3
    Den = 2
    CheckTimes <- UpTo20s
    Horizon <- ElevenMinutes
SPECIFICATION Spec
INVARIANTS TypeOK NoRetryPastDuration OneSeries
CHECK_DEADLOCK FALSE
