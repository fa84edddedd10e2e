SPECIFICATION FairSpec
CONSTANTS
    a = a
    b = b
    png = png
    c1 = c1
    c2 = c2
    big = big
    Absent = Absent
    NoPath = NoPath
    Path = {a, b, png}
    Indexable = {a, b}
    Good = {c1, c2}
    Bad = {big}
    Version = {v1, v2}
    Vaults <- NoteAndPicture
    JobCap = 1
    EventCap = 1
    RouterSpawned = TRUE
    InboxTo <- InboxMovesA
    Rules = TRUE
    Requests = {"create", "move", "trash", "reload", "sweep", "reindex"}
    MaxSteps = 2
    MaxCrashes = 1
INVARIANTS
    TypeOK
    StaleIsLostOrUnread
    PendingIsInFlight
    AwaitedIsQueued
PROPERTY
    SettlesOrSelfBlocks
CHECK_DEADLOCK FALSE
