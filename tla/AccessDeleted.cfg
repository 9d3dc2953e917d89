SPECIFICATION Spec
CONSTANTS
    k1 = k1
    k2 = k2
    r1 = r1
    r2 = r2
    Requests <- MCRequests
    Tenants = {t1}
    Keys <- MCKeys
    Prefixes <- MCPrefixes
    PrefixOf <- MCPrefixOf
    KeyRoles = {1, 3}
    MaxRequests = 4
    MaxFaults = 1
    None = None
SYMMETRY Symmetry
PROPERTIES
    DeletedStays
CHECK_DEADLOCK FALSE
