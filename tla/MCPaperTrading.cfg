CONSTANTS
    Ticker = {A}
    A = A
    Capital = 2
    OrderLots = 1
    Gross = {}
    Weekend = {1}
    Deposits = {1}
    Prompt = TRUE
    LastTime = 6
    MaxCrashes = 1
    MaxRequests = 1
    MaxDeposited = 1
SPECIFICATION HistorySpec
INVARIANTS TypeOK NoDoublePurchase  
PROPERTIES CatchUpEnds PhasesInOrder
CHECK_DEADLOCK FALSE
