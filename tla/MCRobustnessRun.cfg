SPECIFICATION MCSpec
CONSTANTS
    CandidateIds <- Ids12
    Strategies = {1, 2, 3}
    Sessions = {1, 2, 3}
    Plans <- SomePlans
    Variants <- SomeVariants
    Stresses <- SomeStresses
    Requests <- AllRequests
    StopAfters = {0, 3}
    MaxBuilds = 14
    Procs = {p1, p2}
    First = p1
    Damages <- Every
    MaxFaults = 2
    None = None
INVARIANT RunsKeepToTheirRequest
INVARIANT AdmittedRunsAreNotRefused
PROPERTY ExportsAreOfTheRun
PROPERTY ResumedRunsComplete
CHECK_DEADLOCK FALSE
