CONSTANTS
    sys = sys
    l1 = l1
    StaLinks <- MCStaLinks
    SystemLink = sys
    NumQueues = 1
    DummyQueue = 0
    LowWatermark = 1
    HighWatermark = 3
    MaxQueued = 2
    MaxPassed = 1
    Descriptors = 1
    LateFrames = FALSE
SPECIFICATION LiveSpec
PROPERTY StopReasonsLifted
