CONSTANTS
    g1 = g1
    g2 = g2
    Games = {g1, g2}
    Free = Free
    StartCash = 12
    StartPeak = 24
    Ask = 3
    Limit = 3
    Paid <- MCPaid
    Payout = 4
    Fee <- MCFee
    Fraction = 50
    MaxExposure = 50
    MaxDrawdown = 80
    MaxFaults = 1
SPECIFICATION FairSpec
INVARIANTS
    BooksBalance
PROPERTIES
    OrdersWithinCap
    EveryTradeIsSettled
