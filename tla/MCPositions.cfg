SPECIFICATION Spec
CONSTANTS
    m1 = m1
    m2 = m2
    None = None
    Market = {m1, m2}
    One = 4
    Prices = {1, 2, 3}
    EntryPrices = {2}
    Shares = {2}
    Configs <- BarrierConfigs
    SignalLimit = 2
    OpenLimits = {1, 2}
    SignalCooldown = 1
    InitialBalance = 10
    FeePct = 25
    MaxTrades = 4
INVARIANTS
    TypeOK
    OneOpenPerMarket
    SharesBacked
    PnlMatchesBook
    TrailingLocksGain
PROPERTIES
    BarriersEnforced
SYMMETRY Symmetry
