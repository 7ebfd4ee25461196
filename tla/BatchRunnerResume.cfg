SPECIFICATION Spec
CONSTANTS
    AccessBatches = {a}
    HealthBatches = {h}
    Items = {1, 2}
    NoItem = NoItem
    MaxActs = 3
INVARIANTS
    RunningHasTask
CHECK_DEADLOCK FALSE
