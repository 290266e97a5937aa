SPECIFICATION FairSpec
CONSTANTS
    Videos = {v1}
    Channels = {c1}
    Playlists = {p1}
    Shorts = {s1}
    NoChannel = NoChannel
    Absent = Absent
    Slots = {w1}
    Idle = Idle
    MaxAttempts = 2
    MaxStalls = 1
    KeepCompleted = 1
    KeepFailed = 1
    Handlers = {h1}
    Tasks = {t1}
    MaxPolls = 1
    Kinds = {"list", "channelVideos", "comments", "repair", "playlists", "playlistItems", "sync"}
    Forms = {"name"}
    Drains = FALSE
    Overlap = TRUE
    Crashes = FALSE
PROPERTIES SyncEnds 
CHECK_DEADLOCK FALSE
