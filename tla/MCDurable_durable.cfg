CONSTANTS
    c1 = c1
    default = default
    a = a
    noConn = noConn
    Conns <- OneConn
    NoConn = noConn
    Tubes <- TwoTubes
    Default = default
    MaxId = 3
    MaxReserved = 2
    Pris = {0}
    Delays = {"none"}
    KickBounds = {1}
    Policies <- NoPolicies
    Pausable = {}
    DrainModes = {}
SPECIFICATION DurSpec
INVARIANTS IInv CommittedKept GoneStaysGone
