SPECIFICATION Spec
CONSTANTS
    r1 = r1
    r2 = r2
    Groups = {"hr"}
    Texts <- MCTexts
    Sizes = {1, 2}
    ChunkIds = {1, 2}
    Corpora <- MCCorpora
    Updates <- MCUpdates
    Place <- MCPlace
    Words <- MCWords
    Unspoken <- Dash
    Synonyms <- MCSynonyms
    MaxVariants = 3
    Requests <- MCRequests
    Asks <- MCAsks
    TTL = 1
    MaxQueries = 2
    PerQueryK = 2
    RrfK = 60
    MaxTime = 2
    MaxCall = 1
SYMMETRY Symmetry
INVARIANTS
    CacheNeverFails
CHECK_DEADLOCK FALSE
