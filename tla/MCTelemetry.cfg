CONSTANTS
    pressure = pressure
    temperature = temperature
    valve = valve
    Sensors <- MCSensors
    Modules <- MCModules
    SensorType <- MCSensorType
    TypeDefaults <- MCTypeDefaults
    SensorOverrides <- MCSensorOverrides
    Rows <- MCRows
    DampSensors <- MCDampSensors
    MdiSensors <- MCDampSensors
    Warmup = 1
    WindowSize = 6
    WindowLength = 3
    MinScore = 1
    Consecutive = 2
    Baseline = 2
    Detect = 2
    LastRow = 9
SPECIFICATION Spec
INVARIANTS
    TypeOK
    GroundTruthSound
    SustainedExcursion
    DampTiming
    EventsInWindow
