\* A turn is cancelled while it waits for an answer.
SPECIFICATION Spec
CONSTANTS
    MaxTurns = 2
    MaxRequests = 1
    MaxTokens = 0
    OutCap = 2
    AnswerCap = 4
    WireCap = 1
CHECK_DEADLOCK FALSE
INVARIANT
    AnswersMatch
