CONSTANTS
    g1 = g1
    g2 = g2
    m1 = m1
    m2 = m2
    m3 = m3
    m4 = m4
    sharp = sharp
    soft = soft
    c1 = c1
    c2 = c2
    Markets = {m1, m2, m3, m4}
    Games = {g1, g2}
    Nowhere = Nowhere
    NoMarket = NoMarket
    Mascots <- Nicknames
    Name <- Titles
    Team <- Fixture
    Day <- TickerDay
    Closes <- CloseTime
    Days <- EasternDays
    Starts <- StartTime
    Books = {sharp, soft}
    Sharp = {sharp}
    OddsSets <- Odds
    Quotes <- Offers
    StartCash = 2000
    MaxPosition = 1000
    Checkers = {c1, c2}
    MaxScans = 1
    MaxFaults = 2
SYMMETRY ChecksAlike
SPECIFICATION Spec
INVARIANTS
    OncePerScan
    BuysAreWorthIt
    PnlIsOfTheFill
    CheckIsComplete
PROPERTIES
    ScoreIsFinal
CHECK_DEADLOCK FALSE
