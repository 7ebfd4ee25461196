SPECIFICATION FairSpec
CONSTANTS
    Scans = {a1, a2}
    Recurring = {a1}
    NSessions = 2
    Quota = 1
    Nobody = Nobody
    MaxRequests = 4
    MaxEvents = 2
INVARIANTS
    LeaseMatches
    RunningHasTask
    DeletedIsQuiet
    OvershootBounded
PROPERTIES
    PausedStays
    QueuedRuns
CHECK_DEADLOCK FALSE
