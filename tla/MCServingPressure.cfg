SPECIFICATION FairServingSpec
CONSTANTS
    Requests = {c1}
    Reloads = {}
    Settings = {s1}
    Limit = 0
    Free = Free
    Classes <- MtpClass
    MaxResponses = 1
    Memory = {"tight"}
    MayCrash = FALSE
    MayShutDown = FALSE
    NoBatch = NoBatch
    NoRequest = NoRequest
    NoSetting = NoSetting
CHECK_DEADLOCK FALSE
PROPERTIES
    DegradedRequestIsAnswered
