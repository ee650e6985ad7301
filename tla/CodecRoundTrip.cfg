SPECIFICATION CodecSpec

CONSTANTS
    PacketLengths = {1, 2, 3, 5, 6, 7, 11}
    ChunkSizes = {0, 3}
    Width = 4
    MaxPackets = 3

INVARIANTS
    DecodedIsSent
