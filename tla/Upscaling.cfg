SPECIFICATION UpscalingSpec
CONSTANTS
    Modes <- MCModes
    Optimal <- MCOptimal
    Budget = 1
INVARIANTS
    ContractIsRunning
    SavedAsRunning
PROPERTIES
    NoStaleHistory
CHECK_DEADLOCK FALSE
