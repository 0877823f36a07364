\* Recursive and fixed chunks of three tokens with an overlap of two; semantic
\* ones of four, the threshold between the second and third of five.
SPECIFICATION ChunkersSpec
CONSTANTS
    ChunkSize = 3
    ChunkOverlap = 2
    Inputs <- Texts
    MaxLength = 7
    MaxTokens = 4
    Percent = 40
    SemanticInputs <- Topics
INVARIANTS
    TypesOK
    OverBudgetByOverlapOnly
    NothingSkipped
    OverlapMaximal
    Greedy
    SplitAsNeeded
    
    SentencesChunked
    BreaksAtShifts
CHECK_DEADLOCK FALSE
