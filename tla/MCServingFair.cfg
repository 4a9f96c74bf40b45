SPECIFICATION FairServingSpec
CONSTANTS
    Requests = {c1, c2}
    Reloads = {}
    Settings = {s1}
    Limit = 0
    Free = Free
    Classes <- MixedClasses
    MaxResponses = 1
    Memory = {"ample"}
    MayCrash = TRUE
    MayShutDown = TRUE
    NoBatch = NoBatch
    NoRequest = NoRequest
    NoSetting = NoSetting
CHECK_DEADLOCK FALSE
INVARIANTS
    RegistryMatchesThreads
PROPERTIES
    CrashReleasesRegistered
    RequestIsServed
