CONSTANTS
    g1 = g1
    home = home
    away = away
    Games = {g1}
    Tickers = {home, away}
    GameOf <- OneGame
    Health = Health
    Checker = Checker
    Free = Free
    NoTicker = NoTicker
    MaxCrashes = 1
    MaxFaults = 0
    MaxSetups = 0
    MaxAge = 1
    Pauses = TRUE
SYMMETRY Teams
SPECIFICATION Spec
INVARIANTS
    OneOrderPerGame
