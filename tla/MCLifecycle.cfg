CONSTANTS
    v1 = v1
    v2 = v2
    Vifs <- MCVifs
    BootRetries = 2
    MaxDepth = 3
    Faults = {"boot", "late", "plt"}
SPECIFICATION Spec
CHECK_DEADLOCK FALSE
INVARIANTS DepthExact PoweredWhenOn
