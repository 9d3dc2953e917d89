\* The connection is lost while a turn waits for an answer.
SPECIFICATION FairSpec
CONSTANTS
    MaxTurns = 1
    MaxRequests = 1
    MaxTokens = 0
    OutCap = 2
    AnswerCap = 4
    WireCap = 1
CHECK_DEADLOCK FALSE
PROPERTY
    ClosedEndsWaiting
