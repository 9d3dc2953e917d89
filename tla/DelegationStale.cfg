\* A specialist created while another call updates the contexts.
SPECIFICATION FairSpec
CONSTANTS
    d1 = d1
    d2 = d2
    coder = coder
    critic = critic
    None = None
    Calls = {d1, d2}
    Agents = {coder, critic}
    Requests <- AllRequests
    MaxRetries = 1
    MaxCollects = 0
CHECK_DEADLOCK FALSE
PROPERTY
    TurnsSeeFinishedWork
