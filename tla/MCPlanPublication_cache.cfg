SPECIFICATION MCSpec
CONSTANTS
    Processes = {p, q}
    First = p
    Requests <- AllRequests
    Registry <- Profiles
    Path <- OnePerContext
    None = None
    MaxFaults = 0
INVARIANTS
    BundlesIgnoreTheCache
CHECK_DEADLOCK FALSE
