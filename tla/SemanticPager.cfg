SPECIFICATION FairSpec
CONSTANTS
    Key = {k1, k2}
    Content <- MCContent
    Size <- MCSize
    MaxBytes = 2
    MaxPages = 2
    Requests <- MCRequests
    Thread = {t1, t2}
    None = None
    InitialSource <- MCInitialSource
    Edits <- MCEdits
    MaxCalls = 3
    MaxEdits = 1
    MaxFailures = 1
INVARIANTS
    ResidentsAreAccounted
    PagerIsSound
PROPERTIES
    CallsReturn
CHECK_DEADLOCK FALSE
