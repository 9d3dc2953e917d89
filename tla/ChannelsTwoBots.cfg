SPECIFICATION Spec
CONSTANTS
    r1 = r1
    r2 = r2
    alice = alice
    bob = bob
    bot = bot
    other = other
    Requests <- OneRequest
    Users <- OneUser
    Sids <- MCSids
    Turns <- MCTurns
    Bots <- TwoBots
    Inbox <- TwoInboxes
    Allowed <- TwoAllowed
    MaxPerMinute = 2
    MaxRestarts = 1
    None = None
PROPERTIES
    ConversationsKept
CHECK_DEADLOCK FALSE
