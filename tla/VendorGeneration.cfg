SPECIFICATION Spec
CONSTANTS
    BufferCounts = {2, 3}
    MaxInterpolated = 2
INVARIANTS
    ChainMatchesGenerator
    NeverStranded
    HistoryResetPending
    WholeFramesGenerated
    LatencyServesGenerator
CHECK_DEADLOCK FALSE
