CONSTANTS
    c1 = c1
    c2 = c2
    default = default
    a = a
    noConn = noConn
    Conns <- TwoConns
    NoConn = noConn
    Tubes <- TwoTubes
    Default = default
    MaxId = 2
    MaxReserved = 2
    Pris = {0}
    Delays = {"none"}
    KickBounds = {1}
    Policies <- NoPolicies
    Pausable = {}
    DrainModes = {}
SPECIFICATION Spec
SYMMETRY Symmetry
INVARIANT EmptyTubeGone
