SPECIFICATION ServingSpec
CONSTANTS
    Requests = {c1, c2}
    Reloads = {r1}
    Settings = {s1, s2}
    Limit = 0
    Free = Free
    Classes <- AllClasses
    MaxResponses = 2
    Memory = {"ample", "tight"}
    MayCrash = FALSE
    MayShutDown = FALSE
    NoBatch = NoBatch
    NoRequest = NoRequest
    NoSetting = NoSetting
CHECK_DEADLOCK FALSE
SYMMETRY ServingSymmetry
CONSTRAINT ClassesMeet
INVARIANTS
    ServingTypeOK
    WaitingRequestIsOwned
    BatchIsOfOneKind
    AnswersAreOrdered
    HeldRequestSeesOneSetting
    StaleEntryOutlivedItsSlot
PROPERTIES
    ImplementsGate
