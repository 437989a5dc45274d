SPECIFICATION Spec
CONSTANTS
    Slots = 2
    MaxFrames = 3
    MaxContexts = 1
    MaxShared = 2
    RetryFrames = 1
    MaxMishaps = 2
INVARIANTS
    InFlightKept
    InputsNotTorn
    OutputIsFrame
PROPERTIES
    QueuesDrain
CHECK_DEADLOCK FALSE
