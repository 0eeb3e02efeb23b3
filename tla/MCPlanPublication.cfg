SPECIFICATION MCSpec
CONSTANTS
    Processes = {p, q}
    First = p
    Requests <- AllRequests
    Registry <- Profiles
    Path <- TwoFiles
    None = None
    MaxFaults = 1
INVARIANTS
    BundlesAreSound
PROPERTIES
    PlansAreImmutable
    OneSpaceIsPublished
CHECK_DEADLOCK FALSE
