\* A created and a resumed execution and a cancel, in any order: handles
\* on the store coexist.
SPECIFICATION Spec
CONSTANTS
    e1 = e1
    e2 = e2
    Executors = {e1, e2}
    Plans <- AllPlans
    MaxRetries = 1
    MaxSteps = 6
    Counted = {}
    Creators <- ServerOnly
    Resumers <- ServerOnly
    StoreIsExclusive = FALSE
    Budget <- ManyBudget
SYMMETRY Symmetry
CHECK_DEADLOCK FALSE
INVARIANTS
    OrderRespected
    SequentialCompletion
    RevisionChain
    FailureJustified
