SPECIFICATION Spec
CONSTANTS
    m1 = m1
    m2 = m2
    c1 = c1
    c2 = c2
    None = None
    Market = {m1, m2}
    Category = {c1}
    MaxTotal = 3
    MaxMarket = 2
    MaxTrade = 2
    MaxCategory = 2
    DailyLossLimit = 1
    DrawdownPct = 20
    PositionPct = 40
    Cooldown = 2
    ArmPeriod = 1
    MinObs = 2
    TradeCooldown = 1
    InitialBalance = 10
    Amounts = {1, 2}
    Balances = {4, 8, 10}
    Recategorise = FALSE
SYMMETRY MCSymmetry
INVARIANTS
    TypeOK
    ExposureWithinLimits
    CategoryWithinLimit
PROPERTIES
    KillSwitchPromise
    FreshWindowAfterExpiry
