SPECIFICATION Spec
CONSTANTS
    Tokens = {"a", "b"}
    Base <- OneToken
    Segments <- SomeSegments
    Branches = {b1, b2, b3}
    Compactors = {k1, k2}
    MaxLength = 3
    MaxGeneration = 3
    NoCheckpoint = NoCheckpoint
    NoPlan = NoPlan
SYMMETRY LineageSymmetry
CHECK_DEADLOCK FALSE
INVARIANTS
    LineageTypeOK
    OnePromotionPerGeneration
    IndexFollowsTheChain
    ArenaServesItsUsers
    OutstandingPlanIsHeld
PROPERTIES
    ImplementsPrefix
