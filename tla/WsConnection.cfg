\* Two turns with an approval and a token each, over full channels.
SPECIFICATION FairSpec
CONSTANTS
    MaxTurns = 2
    MaxRequests = 1
    MaxTokens = 1
    OutCap = 1
    AnswerCap = 1
    WireCap = 1
CHECK_DEADLOCK FALSE
INVARIANTS
    NewestTurnOnly
    AnswersMatchUnlessStrayed
    ReportIsLast
PROPERTIES
    TurnsEndUnlessAwaiting
    ReleasedUnlessAwaited
