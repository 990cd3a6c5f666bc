CONSTANTS
    mlb = mlb
    nfl = nfl
    e1 = e1
    e2 = e2
    e3 = e3
    a1 = a1
    b1 = b1
    a2 = a2
    b2 = b2
    a3 = a3
    b3 = b3
    Sports = {mlb, nfl}
    Events = {e1, e2, e3}
    Markets = {a1, b1, a2, b2, a3, b3}
    SportOf <- SportOfEvent
    Matchup <- Teams
    Day <- TickerDay
    Clock <- TickerTime
    UtcDay <- FiledUnder
    Start <- StartTime
    EventOf <- Event
    Wins <- Winners
    Candles <- Asks
    OldMarkets = {a1, b1, a2, a3}
    MaxRuns = 2
    MaxMoves = 1
    MaxFaults = 1
SPECIFICATION Spec
INVARIANTS
    OneRowPerEvent
    RowIsOfItsGame
    

    
CHECK_DEADLOCK FALSE
