SPECIFICATION FairSpec
CONSTANTS
    r1 = r1
    r2 = r2
    g1 = g1
    None = None
    Runs = {r1, r2}
    Groups = {g1}
    GroupsOf <- SameGroups
    TTL = 2
    RenewEvery = 1
    MaxTime = 2
    Stoppable = {r1}
INVARIANTS
    
    ExitedIsNotRunning
    StopConfirmed

    
CHECK_DEADLOCK FALSE
