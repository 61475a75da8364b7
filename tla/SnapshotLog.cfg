\* Both jobs, failing lookups and statements, and restarts.
SPECIFICATION SnapSpec
CONSTANTS
    BimiSeries <- MCBimi
    TlsSeries <- MCTls
    Records <- MCRecords
    MayFind <- MCMayFind
    TTL = 1
    LastTick = 2
    MaxTrouble = 1
INVARIANTS
    RowsAreChanges
    CurrentIsLatest
    ObservationsCounted
    StageLeavesFresh
