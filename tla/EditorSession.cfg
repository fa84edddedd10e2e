SPECIFICATION FairSpec
CONSTANTS
    a = a
    b = b
    t0 = t0
    t1 = t1
    t2 = t2
    Absent = Absent
    Path = {a, b}
    Text = {t0, t1, t2}
    Typed = {t1, t2}
    Foreign = {t2, Absent}
    Result = {t2}
    Vaults <- OneNote
    MaxTasks = 2
    MaxSteps = 5
    MaxCrashes = 1
INVARIANTS
    TypeOK
    UnsavedIsHeld
    StoreMirrorsTick
    CleanIsOnDisk
PROPERTIES
    SidecarsSettle
CHECK_DEADLOCK FALSE
