SPECIFICATION Spec
CONSTANTS
    a = a
    r1 = r1
    r2 = r2
    None = None
    Unset = Unset
    Ips <- MCIps
    Requests <- MCRequests
    MaxFailures = 2
    Window = 3
    Quota <- MCQuota
    Period <- MCPeriod
    Routes <- MCRoutes
    MaxTime = 5
INVARIANTS
    GuessesBounded
    WindowRespected
SYMMETRY Symmetry
