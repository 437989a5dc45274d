SPECIFICATION Spec
CONSTANTS
    GuardedFrames = 2
    ForcedFrames = 5
    GraceFrames = 2
    MaxMultiplier = 3
    Contracts = {k1, k2}
    NoContract = none
INVARIANTS
    TypeOK
    GenerationAccounted
    OffWhileSuspended
    EligibleEarned
PROPERTY
    LifecycleSpec
