SPECIFICATION FairSpec
CONSTANTS
    m1 = m1
    m2 = m2
    None = None
    Market = {m1, m2}
    MaxTotal = 5
    MaxMarket = 4
    MaxTrade = 4
    DailyLossLimit = 1
    DrawdownPct = 50
    PositionPct = 40
    Cooldown = 2
    ArmPeriod = 0
    MinObs = 2
    InitialBalance = 12
    FeePct = 50
    Dollar = 4
    EntryPrices = {2}
    Shares = {1, 2}
    Quotes = {1}
    MaxTrades = 3
INVARIANTS
    TypeOK
    DeployedWithinLimits
    OneOutcomePerMarket
    BookExplained
PROPERTY
    SwitchReleasedOutOfDrawdown
