SPECIFICATION Spec
CONSTANTS
    s1 = s1
    s2 = s2
    m1 = m1
    Scrapes <- TwoScrapes
    Metrics <- OneMetric
    MayRead <- OnlyFirst
    TimeSeries <- OneSort
    MaxSeries = 1
PROPERTIES
    KnownUnitStays
