SPECIFICATION FairSpec
CONSTANTS
    Modes = {TRUE, FALSE}
    SnapshotLag = 2
    MaxBuffered = 2
    CacheSize = 3
    MaxReconnects = 1
    MaxHead = 4
    MaxQueue = 3
    MaxFaults = 2

    
PROPERTIES
    CatchesUp
