CONSTANTS
    Scans = {m, i}
    Manual = {m}
    Initial = {i}
    Workers = {w1, w2}
    MaxAssets = 2
    MaxRetries = 1
    MonthlyScans = 2
    PlatformScans = 1
    Budget = 2
    MaxRedeliveries = 1
SPECIFICATION FairSpec
INVARIANT AttemptsAccounted
PROPERTIES RedeliveryIsNoOp JobsEnd
CHECK_DEADLOCK FALSE
