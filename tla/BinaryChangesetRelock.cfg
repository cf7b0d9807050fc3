SPECIFICATION FairSpec
CONSTANTS
    Path <- MCPath
    Content <- MCContent
    Norm <- MCNorm
    Missing = Missing
    Symlink = Symlink
    ChangeSet <- MCChangeSet
    Operations <- MCOperations
    Allowed <- MCAllowed
    Authority <- MCAuthority
    InitialFiles <- MCInitialFiles
    Edits <- MCEdits
    MaxEdits = 1
    MaxCrashes = 0
    MaxSpawns = 1
PROPERTY UnknownLocksReplay
CHECK_DEADLOCK FALSE
