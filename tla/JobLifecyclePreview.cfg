SPECIFICATION Spec
CONSTANTS
    Jobs = {j1}
    Users = {u1}
    MaxPreviews = 2
    MaxEvents = 1
PROPERTY NoRegression
CHECK_DEADLOCK FALSE
