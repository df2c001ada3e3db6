SPECIFICATION Spec
CONSTANTS
    NumBlocks = 1
    ThreadsPerBlock = 2
    WarpSize = 1
    PlainElems = {x}
    AtomicElems = {}
    Shared = {}
    Uninit = {}
    Kernels <- MCLateKernels
    MaxLaunches = 1
    MaxReaders = 8
INVARIANTS
    RacesFound
CHECK_DEADLOCK FALSE
