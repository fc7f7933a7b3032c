SPECIFICATION CandlesSpec
CONSTANTS
    Users = {"a", "b"}
    Trades <- MCTrades
    TRADES_TTL = 1
    Day = 120000
    Seconds = {40}
    MaxClock = 260
    MaxLog = 3
    MaxSetBacks = 1
INVARIANTS
    CandlesTell
    CandleBounds
    DayCovered
    PagesMeet
    FillsReported
CHECK_DEADLOCK FALSE
