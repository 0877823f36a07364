SPECIFICATION FairSpec
CONSTANTS
    w1 = w1
    w2 = w2
    s1 = s1
    d1 = d1
    d2 = d2
    g1 = g1
    Workers = {w1}
    Seeders = {s1}
    Docs = {d1}
    Groups = {g1}
    Users <- Nobody
    ChunkIds <- TwoIds
    Requests <- OneDocument
    SeedCorpus <- Demo
    PageSize = 1
    CandidateK = 1
PROPERTIES
    IndexIsRegular
    RequestsAnswered
CHECK_DEADLOCK FALSE
