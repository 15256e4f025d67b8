CONSTANTS
    Clients = {c1, c2}
    MaxRequests = 2
    Sessions = {s1, s2}
    Opened = s1
    Artifacts = {a1}
    Templates = {t1}
SPECIFICATION Spec
SYMMETRY Symmetric
CHECK_DEADLOCK FALSE
INVARIANTS
    SentLaterComesLater
    BranchIsThePrefix
    RowsKeepTheirFiles
    LatestIsNewest
