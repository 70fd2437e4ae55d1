SPECIFICATION FairSpec
CONSTANTS
    t1 = t1
    t2 = t2
    t3 = t3
    keyless = keyless
    first = first
    second = second
    NoAnswer = NoAnswer
    Template = {t1, t2, t3}
    Default = t1
    NTemplates = 3
    IncludeDefault = TRUE
    ByMedian = TRUE
    MinConfidence = 2000
    MaxSpread = 4000
    Provider = {first, keyless, second}
    Priority <- ThreeProviders
    NoKey = {keyless}
    WebSearch = {second}
    Rpm <- EveryMinute
    Rpd <- EveryDay
    MinuteLen = 0
    DayLen = 1
    MaxRetries = 2
    Busy = FALSE
    Replies <- SomeReplies
INVARIANTS
    TypeOK
    RecordedWithinOvershoot
    RequestsWithinOvershoot
    MedianRobust
PROPERTIES
    OneAnswerSuffices
    EnsembleEnds
