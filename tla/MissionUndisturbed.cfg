\* One executor, no fault: the contract of a mission.
SPECIFICATION FairSpec
CONSTANTS
    e1 = e1
    e2 = e2
    Executors = {e1}
    Plans <- ContractPlans
    MaxRetries = 2
    MaxSteps = 6
    Counted = {}
    Creators <- Both
    Resumers <- ServerOnly
    StoreIsExclusive = TRUE
    Budget <- NoBudget
CHECK_DEADLOCK FALSE
PROPERTIES
    ImplementsContract
