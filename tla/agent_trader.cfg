CONSTANTS
    a = a
    Tickers = {a}
    Nobody = Nobody
    Live = TRUE
    MaxPicks = 2
    PoolSize = 2
    Costs = {1, 3}
    FilterCosts = {0, 4}
    MarketCap = 3
    CycleCap = 4
    MaxApiCycles = 2
    MaxErrors = 3
    MaxMalformed = 2
    MaxCycles = 3
    MaxFinds = 1
    MaxStarts = 2
    MaxFaults = 2
SPECIFICATION FairSpec
INVARIANTS
    
    
    
    FailuresHalt
    HaltIsHeeded
PROPERTIES
    LeavesWhenTold
CHECK_DEADLOCK FALSE
