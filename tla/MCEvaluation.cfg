SPECIFICATION EvaluationSpec
CONSTANTS
    k1 = k1
    k2 = k2
    Callers = {k1, k2}
    None = None
    NoGate = None
    Universes <- SomeUniverses
    Policies <- SomePolicies
    Ledgers <- SomeLedgers
    Asks <- RobustAsks
    Gross <- RobustGross
    Bits = 2
    MaxRetries = 1
    MaxScale = 1
    MaxPeriod = 3
    Calls <- AllCalls
    Outputs = {1, 2}
    Scale = 1
    MaxFailures = 1
INVARIANTS
    PlanIsSound
    SummaryIsOfAllFolds
    VerdictsAreEarned
    ScoresAreEarned
    SelectionIsDiverse
PROPERTIES
    ExportsAreOfTheirCall
CHECK_DEADLOCK FALSE
