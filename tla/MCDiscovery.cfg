SPECIFICATION MCSpec
CONSTANTS
    Undefined = Undefined
    Operands <- AllOperands
    Values <- SomeValues
    Conditions <- AllConditions
    MaxFrames = 3
    Spaces <- AllSpaces
    Policy <- OnePolicy
INVARIANTS
    CrossesReadAdjacentFrames
    CanonicalFormIsTheStrategy
    CandidatesAreCounted
    CandidatesAreOfTheSpace
CHECK_DEADLOCK FALSE
