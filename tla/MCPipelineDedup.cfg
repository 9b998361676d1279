CONSTANTS
    Workers = {w1}
    Keys = {k1, k2}
    Scores = {1, 2}
    WindowSize = 2
    Cooldown = 2
    EmitSuspends = FALSE
    MaxGap = 2
    MaxFrames = 3
    MaxBatch = 2
SPECIFICATION Spec
SYMMETRY Symmetry
INVARIANTS
    DedupSpacing
    BacklogBound
    SameFrameOrder
PROPERTY
    SuppressionJustified
