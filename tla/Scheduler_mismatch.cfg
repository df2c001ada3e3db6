SPECIFICATION Spec
CONSTANTS
    NumBlocks = 1
    ThreadsPerBlock = 2
    WarpSize = 2
    Locs = {L1}
    NoLoc = NoLoc
    Ops = {"shfl"}
    NoOp = "none"
    Masks <- MCMasks
    Plans <- MCNoPlans
    MaxTrace = 0
    MaxOps = 1
INVARIANT
    MismatchDetected
