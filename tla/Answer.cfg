\* Four chunks, rankings of up to three, answers from the best two.
SPECIFICATION Spec
CONSTANTS
    c1 = c1
    c2 = c2
    c3 = c3
    c4 = c4
    Chunks = {c1, c2, c3, c4}
    Scores <- MCScores
    Completions <- MCCompletions
    CandidateK = 3
    TopK = 2
    RrfK = 2
    Threshold = 2
    MaxQueries = 3
SYMMETRY Symmetry
INVARIANTS
    TypeOK
    NoGenerationOnWeakContext
    ConfidenceGrounded
    ShowsOnlyRetrieved
    EveryReplyCounted
    FusionRespectsRankings
    AgreementWins
CHECK_DEADLOCK FALSE
