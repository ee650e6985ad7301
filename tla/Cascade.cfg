SPECIFICATION Spec

CONSTANTS
    Streams <- MCStreams
    Reads = {3, 5}
    MaxBreaks = 2

INVARIANTS
    RemoteExact
    NoLeak

PROPERTIES
    LocalEnds
    Forwarded
