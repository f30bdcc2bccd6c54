CONSTANTS
    v1 = v1
    v2 = v2
    Vifs <- MCVifs
    BootRetries = 2
    MaxDepth = 3
    Faults = {}
SPECIFICATION FairSpec
PROPERTIES
    RecoveryCompletes InterfacesRestored
CHECK_DEADLOCK FALSE
