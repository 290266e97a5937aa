SPECIFICATION Spec
CONSTANTS
    Users = {u1, u2}
    Devices = {d1}
    Requests = {r1}
    Cap = 2
    MaxSessions = 2
    MaxRotations = 1
    MaxVersion = 1
INVARIANTS ReuseIsOfTheFamily
CHECK_DEADLOCK FALSE
