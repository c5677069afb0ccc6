CONSTANTS
    c1 = c1
    c2 = c2
    i1 = i1
    Modes = {"both", "put", "reserve", "idle"}
    Timings = {TRUE, FALSE}
    NumJobs = 3
    P = 2
    Consumers <- TwoConsumers
    Idlers <- OneIdler
    Old = 0
    MayFail = TRUE
    MaxRefused = 1
    MaxJobs = 3
SPECIFICATION Spec
INVARIANTS TypeOK PutsExactly CaughtUp
PROPERTY Reports
