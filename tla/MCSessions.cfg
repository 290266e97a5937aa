SPECIFICATION Spec
CONSTANTS
    Users = {u1}
    Devices = {d1}
    Requests = {r1, r2}
    Cap = 1
    MaxSessions = 3
    MaxRotations = 1
    MaxVersion = 1
SYMMETRY Symmetry
INVARIANTS TypeOK CapAtRest EvictsOldest ActiveIsOfThisVersion
PROPERTIES LogoutAllRejects
CHECK_DEADLOCK FALSE
