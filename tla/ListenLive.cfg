SPECIFICATION FairSpec

CONSTANTS
    c1 = c1
    c2 = c2
    Conns = {c1, c2}
    MaxFrames = 2
    InstanceIds = {1, 2}
    Instances = {1}
    Size = 1
    Buffer = 0
    PoolOn = FALSE
    PoolCap = 1
    HasModules = TRUE

PROPERTIES
    ConnReleased
    QueuedSettles
