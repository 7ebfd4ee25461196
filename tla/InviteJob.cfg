SPECIFICATION MCSpec
CONSTANTS
    Sessions = {1, 2}
    NoSession = 0
    NoTime = NoTime
    Jobs = {j1, j2}
    Candidates = {1, 2}
    Other = Other
    Nobody = Nobody
    Quota = 1
    BatchLimit = 2
    MaxFaults = 2
    Ids = {1, 2, 3}
    MaxTime = 5
    Midnight = 4
    Limit = 2
INVARIANTS
    QueueMatchesTable
    NoUseWhileResting
    LeaseKept
    LimitsKept
    ResumeIsExact
    EveryoneGetsATurn
PROPERTIES
    KeepsPromise
    RunEnds
CHECK_DEADLOCK FALSE
