SPECIFICATION Spec
CONSTANTS
    scan = scan
    report = report
    Job <- MCJob
    Trading <- MCTrading
    Priority <- MCPriority
    MaxRetries = 1
    MaxQueue = 2
INVARIANTS
    TypeOK
PROPERTIES
    DueServed
    TriggerServed
    StopEnds
