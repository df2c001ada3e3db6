SPECIFICATION ReplaySpec
CONSTANTS
    NumBlocks = 1
    ThreadsPerBlock = 2
    WarpSize = 2
    Locs = {L1}
    NoLoc = NoLoc
    Ops = {"shfl", "ballot"}
    NoOp = "none"
    Masks <- MCMasks
    Plans <- MCPlans
    MaxTrace = 11
    MaxOps = 2
INVARIANTS
    ReplayFollowsTrace
    ReplayReproduces
    AbortHasDiagnostic
