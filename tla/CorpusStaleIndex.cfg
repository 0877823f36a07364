SPECIFICATION Spec
CONSTANTS
    w1 = w1
    w2 = w2
    s1 = s1
    d1 = d1
    d2 = d2
    g1 = g1
    Workers = {w1}
    Seeders = {}
    Docs = {d1}
    Groups = {g1}
    Users <- MemberAsks
    ChunkIds <- TwoIds
    Requests <- OneDocument
    SeedCorpus <- Demo
    PageSize = 2
    CandidateK = 2
PROPERTIES
    SingleSourceOfTruth
CHECK_DEADLOCK FALSE
