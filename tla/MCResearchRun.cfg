SPECIFICATION MCSpec
CONSTANTS
    Candidates = {1, 2}
    Discovery = {1, 2}
    Validation = {3}
    Protocols = {"p", "q"}
    StopAfters = {0, 3}
    None = None
    MaxFaults = 2
CONSTANT Verdicts <- SomeVerdicts
PROPERTY HoldoutIsGuarded
PROPERTY ResumedWorkIsTheSame
INVARIANT ResumptionFindsItsWork
PROPERTY ResumedRunsComplete
