SPECIFICATION Spec
CONSTANTS
    NumBlocks = 2
    ThreadsPerBlock = 1
    WarpSize = 1
    PlainElems = {x}
    AtomicElems = {x}
    Shared = {}
    Uninit = {}
    Kernels <- MCAtomicKernels
    MaxLaunches = 1
    MaxReaders = 8
INVARIANTS
    RacesFound
CHECK_DEADLOCK FALSE
