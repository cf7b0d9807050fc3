SPECIFICATION FairSpec
CONSTANTS
    Path <- MCPath
    Content <- MCContent
    Norm <- MCNorm
    Missing = Missing
    Symlink = Symlink
    ChangeSet <- MCChangeSet
    Operations <- MCOperations
    Allowed <- MCAllowed
    Authority <- MCAuthority
    InitialFiles <- MCInitialFiles
    Edits <- MCEdits
    MaxEdits = 1
    MaxCrashes = 1
    MaxSpawns = 2
INVARIANTS
    JournalIsTrue
PROPERTIES
    RecordsBind
    CommandsEnd
CHECK_DEADLOCK FALSE
