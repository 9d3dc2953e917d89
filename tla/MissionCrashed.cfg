\* A crash between the two saves that end a failed DAG, then a resume.
SPECIFICATION Spec
CONSTANTS
    e1 = e1
    e2 = e2
    Executors = {e1}
    Plans <- OneFork
    MaxRetries = 0
    MaxSteps = 4
    Counted = {}
    Creators <- ServerOnly
    Resumers <- ServerOnly
    StoreIsExclusive = TRUE
    Budget <- CrashBudget
CHECK_DEADLOCK FALSE
INVARIANTS
    CompletedMeansNoFailure
