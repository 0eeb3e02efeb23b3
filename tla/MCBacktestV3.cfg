SPECIFICATION MCSpec
CONSTANTS MaxSessions = 2 MaxTicks = 4
CONSTANT Runs <- FaultRuns
CONSTANT Durations = {1, 2}
INVARIANT TypeOK
INVARIANT LedgerFollowsTheTicks
INVARIANT DerivedSignalsMeetTheirFill
PROPERTY ImplementsSinglePosition
PROPERTY EndsAsItShould
CHECK_DEADLOCK FALSE
