SPECIFICATION FairSpec
CONSTANTS
    Devices = {d1, d2}
    Admins = {x}
    MaxDevices = 1
    Durations = {1, Unlimited}
    Unlimited = Unlimited
    Lease = 2
    Bonus = 2
    MaxTime = 2
    MaxAsks = 2
    MaxOrders = 2
    MaxFaults = 1
INVARIANTS
    DeviceLimit
    OfflineTolerance
PROPERTIES
    CutOff
    AccessReturns
CHECK_DEADLOCK FALSE
