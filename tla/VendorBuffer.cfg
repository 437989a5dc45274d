SPECIFICATION Spec
CONSTANTS
    BufferCounts = {2, 3}
    MaxInterpolated = 2
INVARIANT
    PresentHasBuffer
CHECK_DEADLOCK FALSE
