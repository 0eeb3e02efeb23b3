SPECIFICATION MCSpec
CONSTANTS
    Processes = {p, q}
    Alone = p
    None = None
    Paths = {1, 2}
    Contents <- SomeContents
    First <- AtFirst
    Requests <- AllRequests
    Timeframes = {"1m", "2m"}
    Average <- Sma
    MaxFaults = 1
INVARIANTS
    DatasetsHaveOneMeaning
PROPERTIES
    EntriesStay
    RacesAreWonByRepeating
CHECK_DEADLOCK FALSE
