CONSTANTS
    MinimumCap = 2
    MaximumCap = 10
    Presets <- MCPresets
    Generated <- MCGenerated
    Refreshes = {6}
    FileCaps = {0, 3, 1}
    TypedCaps = {5, 6, 99}
    Steps = {0, 2}
    CustomBase = 3
    CustomOutput = 6
    MaxInputs = 3
    MaxRefusals = 2
    MaxChanges = 1

SPECIFICATION MenuSpec

INVARIANTS
    ReflexAsConfigured
    ReflexOnWhileGenerating
    CapsValid
