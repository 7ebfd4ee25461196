SPECIFICATION FairSpec
CONSTANTS
    Procs = {p1, p2}
    NoProc = NoProc
    MaxVersion = 3
    MaxFaults = 2
INVARIANTS
    Restorable
    AllOrNothing
PROPERTIES
    ScriptEnds
    ServesAgain
CHECK_DEADLOCK FALSE
