SPECIFICATION FairSpec
CONSTANTS
    Worker = {w1}
    Request = {r1, r2}
    Generation <- MCGeneration
    QueueCapacity = 2
    None = None
    MaxSubmits = 2
    MaxStarts = 2
    MaxFaults = 0
PROPERTY DrainEnds
CHECK_DEADLOCK FALSE
