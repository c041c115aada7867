SPECIFICATION AllSpec
CONSTANTS
    Caller = {"c1", "c2"}
    Deliverer = {"d"}
    Peer = {"p"}
    Fetchers = {"bodies", "process"}
    MaxCycles = 2
    MaxPivotFails = 1
    Heights = {5}
    Height = 5
    Pivots = {0, 3}
    fsHeaderForceVerify = 1
    maxResultsProcess = 2
    PocRoots = 2
    MayFail = TRUE
INVARIANTS  CycleExclusive
 
CHECK_DEADLOCK FALSE
