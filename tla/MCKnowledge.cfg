CONSTANTS
    Files <- MCFiles
    Observable <- MCObservable
    Rules <- MCRules
    Scale = 6
    Weight <- MCWeight
    DefaultWeight = 55
    Confidences = {0, 35, 36, 70, 71, 100}
    Hypotheses = {{}, {"nutrient", "led"}}
    Subsystems = {"thermal_control_system", "comms"}
    Crews = {2, 3, 5}
    MaxBroken = 1
    MaxSymptoms = 3
    MaxCited = 2
SPECIFICATION Spec
INVARIANTS
    RankingSound
    SeveritySound
