CONSTANT MaxRequests = 3
SPECIFICATION SchedFairSpec
INVARIANTS ScanOwned RequestHasEnd
PROPERTIES StopAnswered
