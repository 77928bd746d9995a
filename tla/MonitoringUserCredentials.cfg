SPECIFICATION Spec
CONSTANTS
    r1 = r1
    r2 = r2
    r3 = r3
    alice = alice
    bob = bob
    Closer = Closer
    Nobody = Nobody
    NoSA = NoSA
    Callers <- TwoRequests
    SAs <- OneSA
    DefaultSA = alice
    Backend = "monitoring"
    MaxConcurrent = 2
    RefreshUsesCtx = TRUE
INVARIANTS
    ClientOutlivesBuilder
CHECK_DEADLOCK FALSE
