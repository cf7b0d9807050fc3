SPECIFICATION Spec
CONSTANTS
    Path <- MCPath
    Content <- MCContent
    Gone = Gone
    None = None
    Process = {p1, p2}
    InitialFiles <- MCInitialFiles
    Edits <- MCEdits
    LeaseId = {l1}
    MaxCalls = 4
    MaxEdits = 1
    MaxCrashes = 1
INVARIANTS
    PublicationIsSound
    ServedIsFaithful
SYMMETRY Processes
CHECK_DEADLOCK FALSE
