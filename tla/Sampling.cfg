SPECIFICATION Spec
CONSTANTS
    Period = 4
    MinDelay = 3
    MaxDelay = 4
    Interval = 9
    Alignment = 4
    ScrapeEvery = 2
    Second = 2
    MinUptime = 3
    Horizon = 20
INVARIANTS
    PointAtItsTime
    NewestInWindow
    NoPointLost
    CounterNeverFalls
PROPERTIES
    InOrder
CHECK_DEADLOCK FALSE
