SPECIFICATION FairSpec
CONSTANTS
    r1 = r1
    r2 = r2
    Requests = {r1, r2}
    Existing = {old}
    Tokens = {t, u, other}
    Foreign = {other}
    Challenge = TRUE
    UploadLimit = 1
    DownloadLimit = 1
    None = None
INVARIANTS
    IndInv
    GatesExact
    
    OneSharePerToken
    AnswerTruth
    BulkTruth
PROPERTIES
    EveryRequestEnds
CHECK_DEADLOCK FALSE
