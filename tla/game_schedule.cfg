CONSTANTS
    first = first
    second = second
    Games = {first, second}
    Tip <- TwoTips
    Starts = {0, 3, 5}
    Main = Main
    Roll = Roll
    Again = Again
    Pool = Pool
    Day = 8
    RollAt = 1
    Window = 8
    Lead = 3
    GameGrace = 2
    SetupGrace = 2
    RetryDelay = 1
    StopBefore = 1
    MaxRetries = 1
    SetupDelay = 2
    SetupTime = 1
    End = 12
    MaxCrashes = 1
    MaxFaults = 1
SPECIFICATION FairSpec
INVARIANTS
    NoneForgotten
    MarkedMeansJudged
PROPERTIES
    FiredIsKept
    ScheduleArrives
CHECK_DEADLOCK FALSE
