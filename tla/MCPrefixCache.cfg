SPECIFICATION PrefixSpec
CONSTANTS
    MaxSize = 2
    MaxBytes = 3
    MaxTokens = 4
    MaxDisk = 3
    Stores <- FewStores
    Queries <- FewQueries
    Tokens = {1, 2}
    Trims <- FewTrims
    Copies = 3
    Branches = {b1, b2}
CHECK_DEADLOCK FALSE
SYMMETRY BranchSymmetry
INVARIANTS
    PrefixTypeOK
    CacheIsConsistent
    LimitsHold
    SourcesFollowTheirUsers
    AnswersMatchPrompt
PROPERTIES
    LossMovesGeneration
