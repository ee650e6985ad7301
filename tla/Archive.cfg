SPECIFICATION Spec

CONSTANTS
    Configs <- MCConfigs
    Packets <- MCPackets
    EpochOffset = 0
    SumModulus = 256
    MaxPackets = 2
    MaxTime = 1
    MaxRolls = 1
    MaxFaults = 1
    Counts = {0, 2}

INVARIANTS
    StoredAsWanted
    ReadsBack
    Played

PROPERTIES
    FilesStay
