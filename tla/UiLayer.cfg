SPECIFICATION Spec
CONSTANTS
    Surfaces = {"complete", "sub_rect", "native"}
    Addresses = {1, 2}
    ReportInterval = 1
    CheckInterval = 1
    MaxChecks = 2
    MaxTextures = 3
    MaxFaults = 1
    MaxAge = 4
INVARIANTS
    RasterFits
    ClassifiedTexture
    ClassificationAge
CHECK_DEADLOCK FALSE
