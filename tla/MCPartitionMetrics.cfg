SPECIFICATION PartitionSpec
CONSTANTS
    Dates = {1, 2, 3}
    MaxTrades = 4
    Results <- SomeResults
INVARIANTS
    AccumulatorsBalance
    RecordMeansTheLedgers
CHECK_DEADLOCK FALSE
