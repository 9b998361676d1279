CONSTANTS
    MaxRuns = 3
    Workers = 2
    Calls = {c}
    Sensors = {s}
    MaxShown = 2
    Capacity = 2
    MaxEvents = 6
    MaxFrames = 2
    MaxExtras = 1
SPECIFICATION FairSpec
INVARIANTS
    PanelSound
PROPERTIES
    VerdictStands
    DeliveredInOrder
    VerdictShown
