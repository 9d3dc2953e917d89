SPECIFICATION Spec
CONSTANTS
    r1 = r1
    r2 = r2
    alice = alice
    bob = bob
    bot = bot
    other = other
    Requests <- OneRequest
    Users <- TwoUsers
    Sids <- MCSids
    Turns <- MCTurns
    Bots <- OneBot
    Inbox <- OneInbox
    Allowed <- OneAllowed
    MaxPerMinute = 1
    MaxRestarts = 2
    None = None
INVARIANTS
    NothingSkipped
PROPERTIES
    ConversationsKept
    UpdatesHandled
CHECK_DEADLOCK FALSE
