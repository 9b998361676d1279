CONSTANTS
    Requests = {r1}
    Scenarios = {leak}
    Nominal = nominal
    Speeds = {x1, x10}
    DefaultSpeed = x60
    Unlimited = unlimited
    MaxTasks = 3
SPECIFICATION Spec
INVARIANT SpeedAsAsked
