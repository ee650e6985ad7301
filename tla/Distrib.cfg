SPECIFICATION Spec

CONSTANTS
    c1 = c1
    Conns = {c1}
    Burst = 1
    Limited = TRUE
    MaxEarned = 1
    Files <- MCFiles
    Metas = {"i.xml"}
    Bads = {"i.bad"}
    Images = {"i", "i.bad"}
    Present = {"i.bad", "i.xml", "t"}
    Pieces = 2
    MaxCopies <- MCCopies
    MaxRequests = 3
    Accepts <- MCAccepts
    Absent = Absent

INVARIANTS
    RateHeld
    ServedWhole
    DownloadComplete

PROPERTIES
    Answered
