SPECIFICATION FairSpec
CONSTANTS
    gw1 = gw1
    gw2 = gw2
    p1 = p1
    p2 = p2
    c1 = c1
    c2 = c2
    sig = sig
    ra = ra
    rb = rb
    ru = ru
    h1 = h1
    None = None
    Signals = {sig}
    SignalOf <- MCSignalOf
    KeyOf <- MCKeyOf
    Role <- MCRole
    Sign <- MCSign
    ReduceOnly <- MCReduceOnly
    Recovery <- MCRecovery
    Hash <- MCHash
    Gateways = {gw1, gw2}
    Home <- TwoHomes
    PlaceTasks = {p1, p2}
    ReconcileTasks = {c2}
    Requests = {ra, rb}
    MaxOpenOrders = 2
    ReadsMayFail = TRUE
    LateDelivery = TRUE
    Operator = {}
    MaxVersion = 1
    MaxRestarts = 0
PROPERTIES
    ReservationResolves
CHECK_DEADLOCK FALSE
