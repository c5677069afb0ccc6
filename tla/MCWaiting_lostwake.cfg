CONSTANTS
    c1 = c1
    c2 = c2
    a = a
    b = b
    j1 = j1
    j2 = j2
    noConn = noConn
    noJob = noJob
    Conns <- TwoConns
    NoConn = noConn
    Jobs <- TwoJobs
    NoJob = noJob
    Tubes <- OneTube
    Watch <- Same
    MaxTime = 2
    TTR <- ShortTTRs
    Margin = 0
    Timeouts = {1}
    Delays = {0}
    Pausable <- OneTube
    Pauses = {1}
SPECIFICATION Spec
PROPERTY BlockedIsServed
