\* An approval gate that nobody can approve.
SPECIFICATION FairSpec
CONSTANTS
    e1 = e1
    e2 = e2
    Executors = {e1}
    Plans <- OneGate
    MaxRetries = 0
    MaxSteps = 4
    Counted = {}
    Creators <- ServerOnly
    Resumers <- ServerOnly
    StoreIsExclusive = TRUE
    Budget <- NoBudget
CHECK_DEADLOCK FALSE
PROPERTIES
    EveryCallReturns
