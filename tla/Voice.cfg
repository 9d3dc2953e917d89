SPECIFICATION VoiceSpec
CONSTANTS
    StoreIsExclusive = FALSE
    Sids <- MCSids
    Turns <- MCSids
    None = None
    Watched = {1}
    MaxUtterances = 2
    MaxSentences = 1
    AudioLimit = 1
    TokenLimit = 1
    QueueLimit = 2
INVARIANTS
    StopsAfterCancel
PROPERTIES
    ConnectionEnds
CHECK_DEADLOCK FALSE
