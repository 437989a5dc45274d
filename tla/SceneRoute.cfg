SPECIFICATION Spec
CONSTANTS
    SplitProbeFrames = 1
    Samples = 2
    Menus = {"map", "fader"}
    WorldHistories = {"usable", "broken"}
    Sources = {"measured", "requested"}
    MaxFrames = 1
    MaxEvents = 2
    TaaSettings = {TRUE}
INVARIANTS
    ConsumersAgree
    JitterReportedAsRastered
    ExtentFollowsPhase
    LostLayerIsUnhealthy
CHECK_DEADLOCK FALSE
