CONSTANTS
    g1 = g1
    home = home
    away = away
    Games = {g1}
    Tickers = {home, away}
    GameOf <- OneGame
    Health = Health
    Checker = Checker
    Free = Free
    NoTicker = NoTicker
    MaxCrashes = 1
    MaxFaults = 0
    MaxSetups = 1
    MaxAge = 1
    Pauses = FALSE
SYMMETRY Teams
SPECIFICATION Spec
INVARIANTS
    OneOrderPerRun
    CommittedMoneyCounted
PROPERTIES
    FiredIsFinal
