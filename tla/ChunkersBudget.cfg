\* Are chunks within the token budget?
SPECIFICATION ChunkersSpec
CONSTANTS
    ChunkSize = 3
    ChunkOverlap = 2
    Inputs <- WordTexts
    MaxLength = 7
    MaxTokens = 4
    Percent = 40
    SemanticInputs <- Topics
INVARIANT WithinBudget
CHECK_DEADLOCK FALSE
