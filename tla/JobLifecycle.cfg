SPECIFICATION FairSpec
CONSTANTS
    Jobs = {j1}
    Users = {u1, u2}
    MaxPreviews = 3
    MaxEvents = 3
INVARIANTS
    SelectionHonoured
    CompletedIsDone
    QueuedHasTask
    HistoryHeeded
PROPERTY ScheduledRuns
CHECK_DEADLOCK FALSE
