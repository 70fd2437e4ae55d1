SPECIFICATION Spec
CONSTANTS
    c1 = c1
    c2 = c2
    m1 = m1
    m2 = m2
    None = None
    Caller = {c1, c2}
    Market = {m1, m2}
    Keyed = {"news", "web"}
    Feed = TRUE
    Base <- FirstBackoff
    Longest <- LongestBackoff
    Enough = 3
    TTL = 2
    EmptyTTL = 1
    FeedTTL = 1
    Cooldown = 6
    MaxFetches = 2
    Uptime = {0, 6}
    MaxElapsed = 1
SYMMETRY Symmetry
INVARIANTS
    TypeOK
    StartsWithinCap
    MarketNotHammered
