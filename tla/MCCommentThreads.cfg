SPECIFICATION Spec
CONSTANTS
    Users = {u1}
    UserIds = {i1, i2}
    CrawledIds = {k1, k2}
    Requests = {r1, r2}
    MaxCount = 0
    NoUser = NoUser
    NoParent = NoParent
    Gone = Gone
SYMMETRY Symmetry
INVARIANTS TypeOK LikesExact RepliesExact CrawledLikesWithin
 
