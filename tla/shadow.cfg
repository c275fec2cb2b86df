SPECIFICATION FairSpec
CONSTANTS
    Seed <- MCSeed
    MaxRow <- MCMaxRow
    Quota = 2
    FundingAge = 0
    FundingSkew = 0
    BookAge = 0
    BookSkew = 0
    MaxFuture = 0
    RollbackQueryMayFail = FALSE
    MaxTime = 1
    MaxFaults = 1
    MaxSpoiled = 1
    MaxCandidates = 1
INVARIANTS
    
    CandidatesSound
    MarkerTruthful

    
