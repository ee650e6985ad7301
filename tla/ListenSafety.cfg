SPECIFICATION Spec

CONSTANTS
    c1 = c1
    c2 = c2
    Conns = {c1, c2}
    MaxFrames = 2
    InstanceIds = {1, 2}
    Instances = {1}
    Size = 2
    Buffer = 2
    PoolOn = TRUE
    PoolCap = 1
    HasModules = TRUE

SYMMETRY ConnSymmetry

INVARIANTS
    TypeOK
    Accounted
    ExitDrained
    AnnouncedAfterStore
    StoredInOrder

PROPERTIES
    ImplementsFifo
