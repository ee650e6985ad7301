SPECIFICATION Spec

CONSTANTS
    Packets <- MCPackets
    FlagSets <- MCFlagSets
    MaxFaults = 3

INVARIANTS
    WorkersBounded
    ExportedWhole
    SelectedExact

PROPERTIES
    Terminates
