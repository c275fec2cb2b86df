SPECIFICATION PipeFairSpec
CONSTANTS
    Modes = {"rest", "delta", "snapshot", "unreconciled"}
    Verdicts = {TRUE, FALSE}
    BadItems = {2}
    MinimumEvents = 1
    FinalizeModes = {"rest"}
    MaxQueue = 1
    MaxSeq = 3
    MaxConn = 2
    MaxItem = 2
    MaxFetch = 2
    MaxFaults = 1
INVARIANTS
    ReferencesHold
    
PROPERTIES
    DurableTrace
    
