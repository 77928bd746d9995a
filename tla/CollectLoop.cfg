SPECIFICATION Spec
CONSTANTS
    s1 = s1
    s2 = s2
    m1 = m1
    Scrapes <- TwoScrapes
    Metrics <- OneMetric
    MayRead <- OnlyFirst
    TimeSeries <- AllSorts
    MaxSeries = 3
INVARIANTS
    TypeOK
    FamiliesMatchStream
    OneTypePerFamily
    CapExact
    CachedOnlyIfAnswered
CONSTRAINT
    SecondReadsNothing
