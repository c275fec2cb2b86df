SPECIFICATION FairSpec
CONSTANTS
    Passing = {1}
    Ineligible = {2}
    Capital = 4
    Fee <- MCFee
    Deliveries <- MCDeliveries
    LossLimit = 2
    MaxSnapshots = 2
    MaxSignals = 1
    MaxFaults = 1
    MaxStarts = 2
    MaxStops = 1
INVARIANTS
    TradesBacked

    
    
CHECK_DEADLOCK FALSE
