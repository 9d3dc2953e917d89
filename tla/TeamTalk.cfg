SPECIFICATION TalkSpec
CONSTANTS
    lead = lead
    extra = extra
    namesake = namesake
    Namesake = namesake
    c1 = c1
    c2 = c2
    Lead = lead
    Members <- MCMembers
    Spawnable <- MCSpawnable
    Profiles <- MCProfiles
    SpawnCalls <- MCCalls
    Capacity = 1
    MaxPerTurn = 1
    MaxSpawned = 1
    PeerDialogue = TRUE
    MaxClock = 2
    Unset = Unset
SYMMETRY CallSymmetry
INVARIANTS
    LatestKept
    SpeaksWithinLimit
    SpawnsBounded
CHECK_DEADLOCK FALSE
