SPECIFICATION Spec
CONSTANTS
    Videos = {v1}
    Channels = {c1}
    Playlists = {p1}
    Shorts = {s1}
    NoChannel = NoChannel
    Absent = Absent
    Slots = {w1}
    Idle = Idle
    MaxAttempts = 2
    MaxStalls = 1
    KeepCompleted = 1
    KeepFailed = 1
    Handlers = {h1}
    Tasks = {t1}
    MaxPolls = 2
    Kinds = {"list"}
    Forms = {"name", "undefined"}
    Drains = TRUE
    Overlap = FALSE
    Crashes = FALSE
SYMMETRY Symmetry
PROPERTIES UnavailableMarked
CHECK_DEADLOCK FALSE
