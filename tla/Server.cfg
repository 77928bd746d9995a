SPECIFICATION FairServerSpec
CONSTANTS
    r1 = r1
    g1 = g1
    g2 = g2
    alice = alice
    Closer = Closer
    Nobody = Nobody
    NoSA = NoSA
    Callers <- OneRequest
    GmpRequests <- TwoGmpRequests
    SAs <- OneSA
    DefaultSA = alice
    Backend = "monitoring"
    MaxConcurrent <- ConfiguredSlots
    Unset = Unset
    Garbage = Garbage
    Lower <- LowerWords
    Second = 1000
    RefreshUsesCtx = FALSE
INVARIANTS
    ServerTypeOK
    CleanExit
    NoUseAfterClose
PROPERTIES
    
    ExitsAfterSignal
CHECK_DEADLOCK FALSE
