SPECIFICATION FairSpec
CONSTANTS
    BufferSize = 2
    ShutdownFlush = FALSE
    MaxStatements = 4
    MaxFailures = 2
    MaxStops = 1
INVARIANTS TypeOK NothingDropped AuditOnceWithoutFailure
PROPERTIES EventuallyDurable StoreIsQueue ExitKeeps
CHECK_DEADLOCK FALSE
