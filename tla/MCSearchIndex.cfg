SPECIFICATION IndexSpec
CONSTANTS
    Videos = {v1}
    Channels = {c1, c2}
    Playlists = {p1}
    Shorts = {s1}
    NoChannel = NoChannel
    Absent = Absent
    MaxCalls = 2
    Nothing = Nothing
SYMMETRY Symmetry
INVARIANTS TypeOK  
PROPERTIES DetailIsKept
