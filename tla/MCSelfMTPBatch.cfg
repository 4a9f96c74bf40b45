SPECIFICATION FairGeneratorSpec
CONSTANTS
    Prompts <- FewPrompts
    Policies <- FewPolicies
    MaxJobs = 4
    FixedBytes = 1
    BytesPerUnit = 1
    AllocationStep = 2
    LanePrompts <- LongPrompts
    LaneJobs = 3
    Readings <- FewReadings
    Starved = 2
    MaxDepth = 2
    Transient <- Transients
    Growth = 2
    LaneCap = 4
    RowCap = 6
    Margin = 17
    MaxHolds = 1
CHECK_DEADLOCK FALSE
INVARIANTS
    GeneratorTypeOK
    RequestsAreConserved
    BudgetHolds
    VerdictsAreSafe
PROPERTIES
    WaitersAreServed
    LanesKeepTheirOrder
    EveryoneLeaves
