CONSTANTS
    Gpu = "nvidia"
    MaxEdits = 1
    MaxRefusals = 1
    MaxOperations = 2
    MaxLaunches = 1
SPECIFICATION Spec
INVARIANTS MemoryIsFile RouteAgrees PartsWhole
CHECK_DEADLOCK FALSE
PROPERTY PairWhole
