SPECIFICATION ScoringSpec
CONSTANTS
    c1 = c1
    c2 = c2
    inland = inland
    nowhere = nowhere
    model = model
    Nothing = Nothing
    NoSignal = NoSignal
    Task = {c1, c2}
    City = {inland, nowhere}
    Known = {inland}
    Warned = {inland}
    Ahead <- HalfDayAhead
    Models <- OneModel
    Highs = {38}
    BestReplies <- FullReply
    Chance <- SteepChance
    LastHalf = 2
    Questions <- SomeQuestions
    Books <- SomeBooks
    Balance = 1000
    MinEdge = 5
    MaxPosition = 100
    MinPrice = 5
    MinLiquidity = 200
    KellyPct = 25
    Bias = 0
SYMMETRY Symmetry
INVARIANTS
    LowerPriceLargerBet
