CONSTANTS
    g1 = g1
    home = home
    away = away
    Games = {g1}
    Tickers = {home}
    GameOf <- OneHome
    Health = Health
    Checker = Checker
    Free = Free
    NoTicker = NoTicker
    MaxCrashes = 1
    MaxFaults = 1
    MaxSetups = 0
    MaxAge = 3
    Pauses = FALSE
SPECIFICATION FairSpec
PROPERTIES
    FilledIsBooked
    LandedIsLearned
