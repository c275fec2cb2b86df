SPECIFICATION Spec
CONSTANTS
    gw1 = gw1
    gw2 = gw2
    p1 = p1
    p2 = p2
    c1 = c1
    c2 = c2
    sig = sig
    ra = ra
    rb = rb
    ru = ru
    h1 = h1
    None = None
    Signals = {sig}
    SignalOf <- MCSignalOf
    KeyOf <- MCKeyOf
    Role <- MCRole
    Sign <- MCSign
    ReduceOnly <- MCReduceOnly
    Recovery <- MCRecovery
    Hash <- MCHash
    Gateways = {gw1}
    Home <- OneHome
    PlaceTasks = {p1}
    ReconcileTasks = {c1}
    Requests = {ra, rb, ru}
    MaxOpenOrders = 1
    ReadsMayFail = TRUE
    LateDelivery = FALSE
    Operator = {"cancel", "close", "halt", "kill"}
    MaxVersion = 6
    MaxRestarts = 1
INVARIANTS
    WriteAhead
    BindingTruthful
    
PROPERTIES
    FollowsLifecycle
    NoDuplicateExposure
CHECK_DEADLOCK FALSE
