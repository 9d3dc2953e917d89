\* A schedule is deleted while a tick runs.
SPECIFICATION Spec
CONSTANTS
    Names = {"daily"}
    Editors = {"x"}
    Ticker = "tick"
    None = None
    Occurs = {2, 3, 5}
    Period = 2
    Window = 3
    MaxTime = 6
    MaxEdits = 2
    MaxFaults = 0
CHECK_DEADLOCK FALSE
INVARIANT
    EditsKept
