SPECIFICATION FairSpec
CONSTANTS
    Worker = {w1, w2}
    Request = {r1, r2}
    Generation <- MCGeneration
    QueueCapacity = 2
    None = None
    MaxSubmits = 3
    MaxStarts = 2
    MaxFaults = 1
INVARIANTS
    WorkIsAccounted
PROPERTIES
    DrainIsSound
CHECK_DEADLOCK FALSE
