CONSTANTS
    sys = sys
    l1 = l1
    StaLinks <- MCStaLinks
    SystemLink = sys
    NumQueues = 2
    DummyQueue = 0
    LowWatermark = 0
    HighWatermark = 1
    MaxQueued = 1
    MaxPassed = 2
    Descriptors = 1
    LateFrames = FALSE
SPECIFICATION Spec
INVARIANTS
    CountExact NoOrphanFrames StopsBalanced
