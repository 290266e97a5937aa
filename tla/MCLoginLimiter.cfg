SPECIFICATION Spec
CONSTANTS
    Identifiers = {i1, i2}
    Ips = {ip1}
    Requests = {r1, r2}
    IdLimit = 1
    IdWindow = 2
    IpLimit = 1
    IpWindow = 2
    MaxRows = 3
    MaxTime = 3
SYMMETRY Symmetry
INVARIANTS TypeOK IdentifierBounded IpBounded
CHECK_DEADLOCK FALSE
