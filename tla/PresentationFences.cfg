SPECIFICATION Spec
CONSTANTS
    Buffers = 2
    MaxValue = 8
INVARIANTS
    AllocatorReusable
    ReleasedIdle
    FrameNotTorn
    QueuesAdvance
CHECK_DEADLOCK FALSE
