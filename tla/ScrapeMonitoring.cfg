SPECIFICATION Spec
SYMMETRY RequestSymmetry
CONSTANTS
    r1 = r1
    r2 = r2
    r3 = r3
    alice = alice
    bob = bob
    Closer = Closer
    Nobody = Nobody
    NoSA = NoSA
    Callers <- ThreeRequests
    SAs <- OneSA
    DefaultSA = alice
    Backend = "monitoring"
    MaxConcurrent = 2
    RefreshUsesCtx = FALSE
INVARIANTS
    TypeOK
    SlotsMatch
    DocumentedStatus
    Blame
PROPERTIES
    RejectedOnlyWhenFull
CHECK_DEADLOCK FALSE
