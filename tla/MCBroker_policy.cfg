CONSTANTS
    c1 = c1
    c2 = c2
    default = default
    a = a
    noConn = noConn
    Conns <- OneConn
    NoConn = noConn
    Tubes <- TwoTubes
    Default = default
    MaxId = 2
    MaxReserved = 2
    Pris = {0, 1024}
    Delays = {"some", "at"}
    KickBounds = {1}
    Policies <- DlqPolicies
    Pausable = {a}
    DrainModes = {TRUE, FALSE}
SPECIFICATION Spec
SYMMETRY Symmetry
INVARIANTS IInv CountersHold StoredIsLive
PROPERTIES DrainStops DeadLetterPolicy
