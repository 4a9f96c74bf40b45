SPECIFICATION ServingSpec
CONSTANTS
    Requests = {c1}
    Reloads = {}
    Settings = {s1}
    Limit = 0
    Free = Free
    Classes <- PlainClass
    MaxResponses = 1
    Memory = {"ample"}
    MayCrash = TRUE
    MayShutDown = FALSE
    NoBatch = NoBatch
    NoRequest = NoRequest
    NoSetting = NoSetting
CHECK_DEADLOCK FALSE
INVARIANTS
    DeadWorkerLeavesNobodyBlocked
