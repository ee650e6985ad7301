SPECIFICATION Spec

CONSTANTS
    Packets <- MCPackets
    Groups = {"g1", "g2"}
    Options <- MCOptions
    Configs <- MCConfigs
    EpochOffset = 17
    MaxDups = 1
    QueueCap = 2
    FwdCap = 1
    Width = 2
    RingSize = 2
    MaxRecorded = 3

INVARIANTS
    TallyExact
    ReferenceStored
    FilterExact
    NewestServed
