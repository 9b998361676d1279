CONSTANTS
    Workers = {w1, w2}
    Keys = {k1, k2}
    Scores = {1, 2}
    WindowSize = 1
    Cooldown = 1
    EmitSuspends = TRUE
    MaxGap = 1
    MaxFrames = 2
    MaxBatch = 2
SPECIFICATION FairSpec
INVARIANTS
    TypeOK
    Conservation
    NothingLeftBehind
    EvidenceIngested
    NeverOvertaken
PROPERTIES
    PoolSpec
    EventuallyTaken
    Terminates
