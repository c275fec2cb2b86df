SPECIFICATION BacktestSpec
CONSTANTS
    Keys = {"k"}
    Snapshots <- MCSnapshots
    Rates = {1}
    Signals <- MCSignals
    MaxTime = 5
    MaxOrders = 5
    Cash = 1008
    Leverage = 4
    Unit = 144
    Fee = 1
    MakerFee = 0
    Margin = 18
    Slip = 1
    MinNotional = 5
INVARIANTS
    Conserves
    ExitsServed
    
CHECK_DEADLOCK FALSE
