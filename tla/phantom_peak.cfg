CONSTANTS
    g1 = g1
    g2 = g2
    Games = {g1, g2}
    Free = Free
    StartCash = 12
    StartPeak = 12
    Ask = 3
    Limit = 3
    Paid <- MCPaid
    Payout = 4
    Fee <- MCFee
    Fraction = 50
    MaxExposure = 50
    MaxDrawdown = 60
    MaxFaults = 0
SPECIFICATION Spec
PROPERTIES
    PeakIsEquity
