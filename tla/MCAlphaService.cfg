SPECIFICATION Spec
CONSTANTS
    FailureThreshold = 2
    HalfOpenMax = 1
    Task = {t1, t2}
    Key = {k1}
    NoKey = NoKey
    MaxRetries = 2
    Slow = TRUE
    Cancellable = TRUE
    MaxFailures = 3
    MaxStops = 1
INVARIANTS
    TypeOK
    KeyExclusive
    TrialsBounded
    DrainedIsQuiet
PROPERTIES
    OpenHolds
    RequestEnds
