SPECIFICATION SlotsSpec
CONSTANTS
    Source = {s1, s2}
    Opening = {a1, a2, a3}
    Thread = {p1, p2}
    NoSource = NoSource
    NoArena = NoArena
    NoHandle = NoHandle
    NoJob = NoJob
    MaxCrashes = 1
    MaxHandles = 3
    Slot = {slot}
    Overlay = {o1, o2}
    Path = {1, 2, 3}
    Content = {1, 2}
    Absent = Absent
    NoSlot = NoSlot
    NoOverlay = NoOverlay
    NoTask = NoTask
    NoView = NoView
    Base <- MCBase
    SlotOf <- MCSlotOf
    Delta <- MCDelta
    Size <- MCSize
    MaxOverlays = 2
    MaxFiles = 3
    MaxBytes = 3
    MaxDeltas = 4
    Gen = {g1, g2}
    Attempt = {attempt}
    Fence = {f1, f2}
    Lane = {lane}
    Item = {item}
    Datum = {datum}
    Tombstone = Tombstone
    NoFence = NoFence
    MaxStoreCalls = 6
    Envelope = {"one", "two", "big"}
    OverlayOf <- MCOverlayOf
    Writes <- MCWrites
    MaxOperations <- MCMaxOperations
    Worker = {p1, p2}
    NoWork = NoWork
    MaxDispatches = 4
    MaxKills = 2
    Generation <- MCGeneration
    NoGeneration = NoGeneration
    MaxEntries = 1
    Engine = {p1, p2}
    Configuration <- MCConfiguration
    Telemetry <- MCTelemetry
    Blockable <- MCBlockable
    NoKey = NoKey
    NoCall = NoCall
    NoDecision = NoDecision
    MaxDecisions = 3
    MaxAdmin = 1
    Offers <- MCOffers
    Objectives <- MCObjectives
    Profiles = {"quality", "memory"}
    Budget <- MCBudget
    QualityFloor = 1
    LastGeneration = 1
    NoSelection = NoSelection
INVARIANTS
    GenerationsStayMapped
    OverlaysAreSound
    StoreIsSound
    SlotsAreSound
    DecisionsAreSafe
    SelectionIsSound
PROPERTIES
    Isolated
SYMMETRY SlotsSymmetry
CHECK_DEADLOCK FALSE
