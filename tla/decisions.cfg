SPECIFICATION DecisionsSpec
CONSTANTS
    Transient = {spread, websocket}
    Critical = {drawdown}
    KillSwitch = killswitch
    Cooldown = 2
    Symbols = {btc, eth}
    GrossLimit = 6
    SymbolLimit = 5
    Lot = 2
    MinimumNotional = 2
    RiskBudgets = {1, 3, 5, 7}
    MaxTime = 4
    None = None
    Target = 3
    MaximumNaked = 1
    Timeout = 2
    MaxAge = 3
    Requests <- MCRequests
INVARIANTS
    WithinLimits
    ClaimsTrue
    SplitsSound
PROPERTY
    EntryWaits
