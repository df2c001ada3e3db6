SPECIFICATION Spec
CONSTANTS
    NumBlocks = 1
    ThreadsPerBlock = 2
    WarpSize = 1
    PlainElems = {x, s}
    AtomicElems = {}
    Shared = {s}
    Uninit = {x}
    Kernels <- MCBlockKernels
    MaxLaunches = 2
    MaxReaders = 3
INVARIANTS
    DetectorTypeOK
    ReportsAreRaces
    CellsSuffice
    ClocksCoverOrder
    UninitExact
CHECK_DEADLOCK FALSE
