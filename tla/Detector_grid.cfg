SPECIFICATION Spec
CONSTANTS
    NumBlocks = 2
    ThreadsPerBlock = 2
    WarpSize = 2
    PlainElems = {x}
    AtomicElems = {f}
    Shared = {}
    Uninit = {}
    Kernels <- MCGridKernels
    MaxLaunches = 1
    MaxReaders = 1
INVARIANTS
    ReportsAreRaces
    ClocksCoverOrder
    MissesExplained
CHECK_DEADLOCK FALSE
