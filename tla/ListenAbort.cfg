SPECIFICATION Spec

CONSTANTS
    c1 = c1
    c2 = c2
    Conns = {c1, c2}
    MaxFrames = 2
    InstanceIds = {1, 2}
    Instances = {}
    Size = 4
    Buffer = 4
    PoolOn = FALSE
    PoolCap = 1
    HasModules = FALSE

INVARIANTS
    ReceivedIsHandled
