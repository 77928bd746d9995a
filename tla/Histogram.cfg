SPECIFICATION Spec
CONSTANT
    Distributions <- MCDistributions
INVARIANTS
    WellFormed
    SamplesConserved
    ExplicitExact
CHECK_DEADLOCK FALSE
