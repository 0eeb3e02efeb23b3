SPECIFICATION MCSpec
CONSTANTS
    None = None
    Another = Another
    p = p
    q = q
    Procs <- TwoProcs
    Generated <- SomeSpaces
    Trades <- SomeTrades
    Requests <- SomeRequests
    Budget = 2
    StopAfters = {0, 1}
    MaxFaults = 2
    Damages <- AllDamages
INVARIANT CommitsAreSound
PROPERTY ExportsAreOfTheRun
PROPERTY PatienceIsRewarded
CHECK_DEADLOCK FALSE
