SPECIFICATION Spec
CONSTANTS
    Videos = {v1, v2}
    Channels = {c1}
    Playlists = {p1}
    Shorts = {s1}
    NoChannel = NoChannel
    Absent = Absent
    Slots = {w1}
    Idle = Idle
    MaxAttempts = 2
    MaxStalls = 1
    KeepCompleted = 2
    KeepFailed = 2
    Handlers = {h1}
    Tasks = {t1}
    MaxPolls = 2
    Kinds = {"list", "playlists", "playlistItems", "sync"}
    Forms = {"name", "undefined"}
    Drains = TRUE
    Overlap = FALSE
    Crashes = FALSE
SYMMETRY Symmetry
INVARIANTS  ChannelReady RepairTried
           DropsOnlyJunk DropsOnlyOrphans SyncLeavesNoJunk
PROPERTIES KeepsPromise
CHECK_DEADLOCK FALSE
