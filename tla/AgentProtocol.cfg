\* An exclusive store: faults, restarts, resumes, a cancel and a delete.
SPECIFICATION ProtocolSpec
CONSTANTS
    e1 = e1
    e2 = e2
    Executors = {e1, e2}
    Plans <- PlansWithoutGate
    MaxRetries = 1
    MaxSteps = 6
    Counted = {1, 2, 3, 4}
    Creators <- ServerOnly
    Resumers <- Anyone
    StoreIsExclusive = TRUE
    Budget <- FaultyBudget
CHECK_DEADLOCK FALSE
INVARIANTS
    AttemptsBounded
    NoDagDeadlock
    EndIsFinal
PROPERTIES
    TerminalIsFinal
    EveryCallReturns
