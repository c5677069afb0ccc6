CONSTANTS
    Ids = {i1, i2}
    Rows = {r1}
    NoRow = NoRow
    BatchSize = 2
    MayFail = FALSE
    MaxCalls = 3
    MaxStarts = 2
SPECIFICATION Spec
CHECK_DEADLOCK FALSE
INVARIANT NothingLostOnShutdown
