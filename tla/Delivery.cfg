SPECIFICATION Spec
CONSTANTS
    Path <- MCPath
    Content <- MCContent
    Garbled = "crlf"
    Request <- MCRequest
    Key <- MCKey
    Changes <- MCChanges
    Write <- MCWrite
    Full <- MCFull
    Transaction <- MCTransaction
    Gone = Gone
    Worker = {w1, w2}
    InitialFiles <- MCInitialFiles
    Edits <- MCEdits
    NoRequest = NoRequest
    NoReceipt = NoReceipt
    MaxCalls = 2
    MaxEdits = 1
    MaxFailures = 1
    MaxCrashes = 1
INVARIANTS
    ReceiptsAreExact
PROPERTIES
    RaisedIsAllOrNothing
SYMMETRY Workers
CHECK_DEADLOCK FALSE
