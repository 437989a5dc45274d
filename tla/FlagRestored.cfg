SPECIFICATION Spec
CONSTANTS
    SplitProbeFrames = 1
    Samples = 2
    Menus = {"map", "fader"}
    WorldHistories = {"usable", "broken"}
    Sources = {"measured"}
    MaxFrames = 1
    MaxEvents = 1
    TaaSettings = {TRUE}
INVARIANT RuntimeFlagRestored
CHECK_DEADLOCK FALSE
