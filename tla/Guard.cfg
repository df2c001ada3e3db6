SPECIFICATION Spec
CONSTANTS
    Threads = {t1, t2}
    Buffers = {x, y}
    Fresh = {x}
    MaxOps = 2
    MaxLaunches = 2
INVARIANTS
    GuardTypeOK
    PoisonContained
    UnwrittenNoticed
PROPERTY
    HangNeedsOverlap
CHECK_DEADLOCK FALSE
