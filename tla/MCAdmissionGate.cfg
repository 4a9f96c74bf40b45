SPECIFICATION FairGateSpec
CONSTANTS
    Requests = {c1, c2, c3}
    Reloads = {r1, r2}
    Settings = {s1, s2}
    Limit = 2
    Free = Free
CHECK_DEADLOCK FALSE
INVARIANTS
    GateTypeOK
    InflightCountsHolders
    GateClosedByItsReload
    NoLostWakeup
PROPERTIES
    ImplementsExclusion
    GateIsLive
