SPECIFICATION ServingSpec
CONSTANTS
    Requests = {c1}
    Reloads = {r1}
    Settings = {s1, s2}
    Limit = 0
    Free = Free
    Classes <- RouteClasses
    MaxResponses = 2
    Memory = {"ample"}
    MayCrash = FALSE
    MayShutDown = FALSE
    NoBatch = NoBatch
    NoRequest = NoRequest
    NoSetting = NoSetting
CHECK_DEADLOCK FALSE
INVARIANTS
    NoStaleEntry
