SPECIFICATION MCSpec
CONSTANTS
    Sessions = {1, 2}
    Users = {u1, u2}
    Proxies = {x, y}
    NoUser = NoUser
    NoProxy = NoProxy
    NoRequest = NoRequest
    NoOp = NoOp
    Testers = {t}
    Workers = {w}
    Beats = {h}
    Logins = {l1, l2}
    MaxRequests = 2
    MaxFaults = 1
INVARIANTS
    TestedBeforeUse
    OneRowPerAccount
    OneMessagePerInterval
PROPERTIES
    EveryoneBeats
CHECK_DEADLOCK FALSE
