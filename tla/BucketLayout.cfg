SPECIFICATION Spec
CONSTANT
    Distributions <- SoundDistributions
INVARIANTS
    BucketsMatchLayout
CHECK_DEADLOCK FALSE
