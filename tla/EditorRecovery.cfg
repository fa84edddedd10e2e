SPECIFICATION Spec
CONSTANTS
    a = a
    b = b
    t0 = t0
    t1 = t1
    t2 = t2
    Absent = Absent
    Path = {a}
    Text = {t0, t1, t2}
    Typed = {t1, t2}
    Foreign = {}
    Result = {}
    Vaults <- OneNote
    MaxTasks = 2
    MaxSteps = 2
    MaxCrashes = 1
PROPERTY
    FrameKeepsUnsaved
CHECK_DEADLOCK FALSE
