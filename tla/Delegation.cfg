\* Two overlapping calls of every kind, panics of jobs, and one collect.
SPECIFICATION FairSpec
CONSTANTS
    d1 = d1
    d2 = d2
    coder = coder
    critic = critic
    None = None
    Calls = {d1, d2}
    Agents = {coder, critic}
    Requests <- AllRequests
    MaxRetries = 1
    MaxCollects = 1
CHECK_DEADLOCK FALSE
INVARIANTS
    OneConversation
    NothingLost
    WaitedForAll
PROPERTIES
    ContextGrows
    CallsEnd
    CollectEnds
