SPECIFICATION Spec
CONSTANTS
    Sessions = {1, 2}
    NoSession = 0
    NoTime = NoTime
    Jobs = {j1}
    Candidates = {1}
    Other = Other
    Nobody = Nobody
    Quota = 1
    BatchLimit = 2
    MaxFaults = 2
INVARIANTS
    FloodWaitNotSkipped
CHECK_DEADLOCK FALSE
