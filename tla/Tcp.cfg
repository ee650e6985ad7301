SPECIFICATION FairSpec

CONSTANTS
    t1 = t1
    t2 = t2
    Threads = {t1, t2}
    MaxPackets = 3
    MaxStarts = 2
    QueueSize = 2
    Parts = 2
    MaxFds = 2
    EarlyReset = TRUE
    NameMayFail = TRUE

INVARIANTS
    TypeOK
    OneOwner
    WholePackets
    OrderPerThread

PROPERTIES
    QueueDrains
    StartedReturns
    ConnectsAgain
