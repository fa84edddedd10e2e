SPECIFICATION FairSpec
CONSTANTS
    a = a
    b = b
    t0 = t0
    t1 = t1
    t2 = t2
    Absent = Absent
    Markers = Markers
    Path = {a, b}
    Text = {t0, t1, t2}
    Typed = {t0, t1}
    Inbound = {t1, t2}
    Foreign = {t2}
    Vaults <- OneOrTwo
    Modes = {"integrated", "manual"}
    MaxSteps = 5
INVARIANTS
    TypeOK
    SavedIsKept
    UnfoldedIsSeen
PROPERTIES
    EndedMergeIsRecorded
    SavesAreCommitted
CHECK_DEADLOCK FALSE
