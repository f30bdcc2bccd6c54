CONSTANTS
    f1 = f1
    Frames <- MCFrames
    Dummy = dummy
    NoFrame = nil
    Blocks <- MCBlocks
    Descriptors = 1
    AggFrames = 1
    TotalBlocks = 2
    BlkMod = 3
    MinTotal = 1
    DeferLimit = 1
    MaxLoops = 1
    AsksDummy = TRUE
SPECIFICATION FairSpec
INVARIANTS BlocksExact NoOvercommit FrameInOnePlace NoLostWakeup
PROPERTIES StuckTxRecovered EveryFrameReturned
