SPECIFICATION FairSpec
CONSTANTS
    GuardedFrames = 1
    ForcedFrames = 3
    GraceFrames = 1
    MaxMultiplier = 2
    Contracts = {k1}
    NoContract = none
INVARIANTS
    SwapChainReleased
    ResetNotLost
    MarkersInOrder
    PresentedInputsAlive
PROPERTY
    SuspensionEnds
