CONSTANTS
    Sensors = {s1, s2, s3}
    Retention = 2
    MaxGap = 3
    MaxTime = 6
    MaxAsked = 3
SPECIFICATION Spec
SYMMETRY Symmetry
INVARIANTS
    HeldExactly
    CorrelationComplete
