CONSTANTS
    c1 = c1
    c2 = c2
    default = default
    a = a
    noConn = noConn
    Conns <- TwoConns
    NoConn = noConn
    Tubes <- TwoTubes
    Default = default
    MaxId = 3
    MaxReserved = 2
    Pris = {0}
    Delays = {"none"}
    KickBounds = {1, 2}
    Policies <- NoPolicies
    Pausable = {}
    DrainModes = {}
SPECIFICATION Spec
SYMMETRY Symmetry
INVARIANTS Placement NoOrphanTube RefCountsHold DistinctIds TombstonedIsEmpty EveryJobListed PagesAgree
PROPERTIES EmptyTubeCollected DroppedOnlyIfDoomed
