CONSTANTS
    Requests = {r1, r2}
    Scenarios = {leak}
    Nominal = nominal
    Speeds = {x1}
    DefaultSpeed = x60
    Unlimited = unlimited
    MaxTasks = 3
SPECIFICATION Spec
INVARIANT OnlyActiveEmits
