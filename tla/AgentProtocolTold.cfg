\* The last event of a stream and the mission it is about disagree.
SPECIFICATION ProtocolSpec
CONSTANTS
    e1 = e1
    e2 = e2
    Executors = {e1}
    Plans <- PlansWithoutGate
    MaxRetries = 0
    MaxSteps = 6
    Counted = {}
    Creators <- ServerOnly
    Resumers <- ServerOnly
    StoreIsExclusive = TRUE
    Budget <- NoBudget
CHECK_DEADLOCK FALSE
INVARIANTS
    ToldIsTrue
