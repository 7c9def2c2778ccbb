SPECIFICATION BusySpec
CONSTANTS
    FailureThreshold = 2
    HalfOpenMax = 1
    Task = {t1, t2}
    Key = {k1}
    NoKey = NoKey
    MaxRetries = 2
    Slow = FALSE
    Cancellable = FALSE
    MaxFailures = 3
    MaxStops = 0
PROPERTIES
    BreakerRecovers
