SPECIFICATION Spec
CONSTANTS
    Videos = {v1}
    Channels = {c1}
    Playlists = {p1}
    Shorts = {}
    NoChannel = NoChannel
    Absent = Absent
    Slots = {w1}
    Idle = Idle
    MaxAttempts = 1
    MaxStalls = 1
    KeepCompleted = 1
    KeepFailed = 1
    Handlers = {h1}
    Tasks = {t1}
    MaxPolls = 1
    Kinds = {"list", "playlists", "playlistItems", "detail", "unavailable", "channel", "views", "cleanup"}
    Forms = {"name"}
    Drains = FALSE
    Overlap = TRUE
    Crashes = TRUE
INVARIANTS TypeOK
  
CHECK_DEADLOCK FALSE
