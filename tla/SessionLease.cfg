SPECIFICATION FairSpec
CONSTANTS
    Tasks = {t1, t2, t3}
    NoWaitTasks = {t3}
    Sessions = {s1, s2}
    NoTask = NoTask
    NoSession = NoSession
    MaxFaults = 1
    MaxCrashes = 1
INVARIANTS
    HolderVisible
    NoStaleRow
    NoLostWakeup
PROPERTIES
    ImplementsMutex
    EveryWaitEnds
