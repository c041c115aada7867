CONSTANTS
    User = {u1}
    MaxCall = 4
    MaxHead = 2
    Syncs = TRUE
    Spaced = TRUE
SPECIFICATION AllSpec
INVARIANTS     EngineExact
PROPERTIES StopTakesEffect
CHECK_DEADLOCK FALSE
