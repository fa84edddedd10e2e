SPECIFICATION Spec
CONSTANTS
    a = a
    b = b
    png = png
    c1 = c1
    c2 = c2
    big = big
    Absent = Absent
    NoPath = NoPath
    Path = {a, b, png}
    Indexable = {a, b}
    Good = {c1, c2}
    Bad = {big}
    Version = {v1, v2}
    Vaults <- NoteAndPicture
    JobCap = 1
    EventCap = 1
    RouterSpawned = FALSE
    InboxTo <- InboxMovesA
    Rules = FALSE
    Requests = {}
    MaxSteps = 2
    MaxCrashes = 0
INVARIANT
    QuietMeansIndexed
CHECK_DEADLOCK FALSE
