SPECIFICATION FairSpec

CONSTANTS
    t1 = t1
    t2 = t2
    Threads = {t1, t2}
    MaxPackets = 1
    MaxStarts = 1
    QueueSize = 0
    Parts = 1
    MaxFds = 2
    EarlyReset = TRUE
    NameMayFail = FALSE

PROPERTIES
    ShutdownReturns
