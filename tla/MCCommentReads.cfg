SPECIFICATION ReadSpec
CONSTANTS
    Users = {u1}
    UserIds = {i1}
    CrawledIds = {k1, k2}
    Requests = {r1}
    Readers = {d1, d2}
    MaxCount = 0
    NoUser = NoUser
    NoParent = NoParent
    Gone = Gone
SYMMETRY Symmetry
INVARIANTS   CrawlsAreSpaced
