SPECIFICATION VoiceSpec
CONSTANTS
    StoreIsExclusive = TRUE
    Sids <- MCSids
    Turns <- MCSids
    None = None
    Watched = {1}
    MaxUtterances = 1
    MaxSentences = 1
    AudioLimit = 2
    TokenLimit = 1
    QueueLimit = 1
INVARIANTS
    ReaderGoesOn
CHECK_DEADLOCK FALSE
