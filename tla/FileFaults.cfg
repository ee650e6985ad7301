SPECIFICATION StoreSpec

CONSTANTS
    img = img
    tab = tab
    Names = {img, tab}
    Images = {img}
    Realtime = {tab}
    RemoveBad = TRUE
    ShareRemoveBad = TRUE
    HasShare = TRUE
    Faults = {"prepare", "stat", "remove", "write", "link", "crash"}
    MaxStores = 4
    MaxFaults = 3

INVARIANTS
    GoodExcludesBad
    AckedStays
    ShareMirrors
    MetadataHasRaw
