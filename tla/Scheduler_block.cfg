SPECIFICATION FairSpec
CONSTANTS
    NumBlocks = 1
    ThreadsPerBlock = 3
    WarpSize = 2
    Locs = {L1}
    NoLoc = NoLoc
    Ops = {"shfl"}
    NoOp = "none"
    Masks <- MCMasks
    Plans <- MCNoPlans
    MaxTrace = 0
    MaxOps = 2
INVARIANTS
    TypeOK
    TurnExclusive
    NoLostWakeup
    SomeoneHasTurn
    ExchangeSound
    BarrierLockstep
    WarpLockstep
    BarrierBlameSound
    WarpBlameSound
    CleanLaunch
PROPERTIES
    LaunchEnds
    ImplementsTurns
