SPECIFICATION MCSpec
CONSTANTS
    Generation <- MCGeneration
    NoGeneration = NoGeneration
    MaxEntries = 1
    Engine = {e1, e2}
    Configuration <- MCConfiguration
    Telemetry <- MCTelemetry
    Blockable <- MCBlockable
    NoKey = NoKey
    NoCall = NoCall
    NoDecision = NoDecision
    MaxDecisions = 3
    MaxAdmin = 1
    Offers <- MCOffers
    Objectives <- MCObjectives
    Profiles = {"quality", "memory"}
    Budget <- MCBudget
    QualityFloor = 1
    LastGeneration = 1
    NoSelection = NoSelection
INVARIANTS
    PressedIsBaseline
SYMMETRY Symmetry
CHECK_DEADLOCK FALSE
