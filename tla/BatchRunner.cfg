SPECIFICATION FairSpec
CONSTANTS
    AccessBatches = {a}
    HealthBatches = {h}
    Items = {1, 2}
    NoItem = NoItem
    MaxActs = 3
INVARIANTS
    CompletedMeansProcessed
    CheckingHasTask
PROPERTIES
    StoppedStays
    TaskEnds
CHECK_DEADLOCK FALSE
