CONSTANTS
    c1 = c1
    c2 = c2
    a = a
    b = b
    j1 = j1
    j2 = j2
    noConn = noConn
    noJob = noJob
    Conns <- TwoConns
    NoConn = noConn
    Jobs <- TwoJobs
    NoJob = noJob
    Tubes <- TwoTubes
    Watch <- Overlap
    MaxTime = 2
    TTR <- ShortTTRs
    Margin = 0
    Timeouts = {2}
    Delays = {0, 1}
    Pausable <- OnlyB
    Pauses = {2}
SPECIFICATION Spec
INVARIANTS TypeOK WaitersHold NoLostWakeup SoonestFresh TimerCovers
PROPERTIES LostOnlyByReopening UnpausedIsServed TimeoutAnswered
