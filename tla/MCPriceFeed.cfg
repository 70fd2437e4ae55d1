SPECIFICATION FairFeedSpec
CONSTANTS
    m1 = m1
    m2 = m2
    NoMarket = NoMarket
    MarketId = {m1, m2}
    LastPrice = 2
    MaxStream = 2
    Overflow = 3
INVARIANTS
    FeedTypeOK
PROPERTIES
    SilentAfterStop
    CacheConverges
    ReconnectSubscribes
