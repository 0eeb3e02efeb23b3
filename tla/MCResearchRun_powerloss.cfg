SPECIFICATION MCSpec
CONSTANTS
    Candidates = {1, 2}
    Discovery = {1}
    Validation = {2}
    Protocols = {"p"}
    StopAfters = {0}
    None = None
    MaxFaults = 1
CONSTANT Verdicts <- OneVerdict
INVARIANT PowerLossResumesTheCheckpoint
