CONSTANTS
    Ids = {i1, i2}
    Rows = {r1}
    NoRow = NoRow
    BatchSize = 2
    MayFail = TRUE
    MaxCalls = 3
    MaxStarts = 3
SPECIFICATION FairSpec
CHECK_DEADLOCK FALSE
INVARIANTS TypeOK WholeBatches NothingSkipped CleanShutdown
PROPERTIES KeepsPromise ShutdownEnds
