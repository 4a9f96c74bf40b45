SPECIFICATION GateSpec
CONSTANTS
    Requests = {c1}
    Reloads = {r1, r2}
    Settings = {s1, s2}
    Limit = 0
    Free = Free
CHECK_DEADLOCK FALSE
PROPERTIES
    MovedLeverRetiresTraces
