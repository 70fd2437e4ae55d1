SPECIFICATION FairSpec
CONSTANTS
    m1 = m1
    m2 = m2
    None = None
    Market = {m1, m2}
    MaxTotal = 3
    MaxMarket = 3
    MaxTrade = 2
    PositionPct = 40
    Cooldown = 2
    InitialBalance = 8
    FeePct = 50
    Quotes = {1, 2}
    Shares = {1}
    Limits = {0, 2}
    MaxTrades = 3
    MaxUnbacked = 1
INVARIANTS
    TypeOK
    SpendingRecorded
    DeployedWithinLimits
PROPERTIES
    StopEnds
