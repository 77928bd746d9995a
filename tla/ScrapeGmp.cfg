SPECIFICATION FairSpec
CONSTANTS
    r1 = r1
    r2 = r2
    r3 = r3
    alice = alice
    bob = bob
    Closer = Closer
    Nobody = Nobody
    NoSA = NoSA
    Callers <- TwoRequests
    SAs <- TwoSAs
    DefaultSA = alice
    Backend = "gmp"
    MaxConcurrent = 2
    RefreshUsesCtx = FALSE
INVARIANTS
    ServedAsAsked
    OneClientPerPrincipal
    DocumentedStatus
    Blame
    ClientGoneIs499
PROPERTIES
    EveryRequestReturns
CHECK_DEADLOCK FALSE
