\* Two schedules, an editor, crashes and failed saves, ticks of any length.
SPECIFICATION FairSpec
CONSTANTS
    Names = {"daily", "weekly"}
    Editors = {"x"}
    Ticker = "tick"
    None = None
    Occurs = {2, 3}
    Period = 2
    Window = 3
    MaxTime = 6
    MaxEdits = 3
    MaxFaults = 1
CHECK_DEADLOCK FALSE
INVARIANTS
    TypeOK
    RunsOnce
    NoGap
PROPERTIES
    RunsEventually
