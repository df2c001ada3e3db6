SPECIFICATION Spec
CONSTANTS
    NumBlocks = 3
    ThreadsPerBlock = 2
    WarpSize = 2
    MaxReaders = 8
    Elems = {x}
    Fresh = {x}
    Locs = {"l1", "l2"}
    Kernels <- MCKernels
    Residents = {1, 2, 5}
    MaxDiags = 2
    MaxOps = 3
INVARIANTS
    LaunchTypeOK
    GridCovered
    WavesHideNoRace
    FingerprintsKept
