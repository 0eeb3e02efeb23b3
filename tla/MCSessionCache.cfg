SPECIFICATION Spec
CONSTANTS
    Procs = {p1, p2}
    NoProc = NoProc
    Sessions = {1, 2}
    Evals = {1, 2, 3}
    PackCandidates = 2
CONSTANT SessionOf <- SomeSessionOf
INVARIANT PacksAgree
INVARIANT OneWriter
PROPERTY EvaluationsAreImmutable
PROPERTY ServesOnlyIntactPacks
PROPERTY ImplementsStore
PROPERTY CallsReturn
