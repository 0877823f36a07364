SPECIFICATION Spec
CONSTANTS
    w1 = w1
    w2 = w2
    s1 = s1
    d1 = d1
    d2 = d2
    g1 = g1
    Workers = {w1}
    Seeders = {}
    Docs = {d1, d2}
    Groups = {g1}
    Users <- EverybodyAsks
    ChunkIds <- ThreeIds
    Requests <- TwoDocuments
    SeedCorpus <- Demo
    PageSize = 1
    CandidateK = 2
INVARIANTS
    TypeOK
    CopiesAgree
    QueriesConfined
CHECK_DEADLOCK FALSE
