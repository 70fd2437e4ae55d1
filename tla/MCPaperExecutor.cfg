SPECIFICATION Spec
CONSTANTS
    k1 = k1
    k2 = k2
    Key = {k1, k2}
    NoFile = NoFile
    TornFile = TornFile
    Prices = {2, 3}
    Sizes = {1, 2}
    FeePct = 50
    InitialBalances = {6}
    MaxTrades = 3
    MaxSaved = 1
    MaxUnbacked = 1
SYMMETRY MCSymmetry
INVARIANTS
    TypeOK
    EquityExplained
    NoShareLost
