SPECIFICATION FairCacheSpec
CONSTANTS
    c1 = c1
    c2 = c2
    alice = alice
    Closer = Closer
    Nobody = Nobody
    NoSA = NoSA
    Callers <- TwoCallers
    SAs <- MCSAs
    DefaultSA = NoSA
    Backend = "monitoring"
INVARIANTS
    OneClientPerKey
    RightPrincipal
PROPERTIES
    CloseReleasesAll
    ImplementsGetOrBuild
    GetReturnsInTheEnd
    CloseReturnsInTheEnd
