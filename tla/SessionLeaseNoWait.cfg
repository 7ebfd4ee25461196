SPECIFICATION Spec
CONSTANTS
    Tasks = {t1, t2, t3}
    NoWaitTasks = {t3}
    Sessions = {s1}
    NoTask = NoTask
    NoSession = NoSession
    MaxFaults = 0
    MaxCrashes = 0
INVARIANTS
    NoWaitNeverWaits
