\* Up to two chunks a segment; rankings scored three deep; two evaluations.
SPECIFICATION OfflineSpec
CONSTANTS
    Disks <- InitialDisks
    MaxParts = 2
    K = 3
    Gain <- Gains
    Stopwords = {"the"}
    Replies <- JudgeReplies
    Setups <- InitialSetups
    MaxRuns = 2
INVARIANTS
    TypesOK
    ReportAccurate
    NearestProvenance
    RetrievalScoresAgree
    OutcomesCounted
    CitationsAgree
    ReportsOrdered
CHECK_DEADLOCK FALSE
