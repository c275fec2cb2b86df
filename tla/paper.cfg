SPECIFICATION PaperSpec
CONSTANTS
    Symbols = {"x", "y"}
    Feeds <- MCFeeds
    Requests <- MCRequests
    Rates <- MCRates
    Cash = 120
    Unit = 144
    Fee = 1
    Slip = 10
    Leverage = 100
    MaxQuotes = 4
    MaxCalls = 2
CHECK_DEADLOCK FALSE
INVARIANTS
    BookMatchesFills
    

    
