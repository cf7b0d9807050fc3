SPECIFICATION MCSpec
CONSTANTS
    Id = {1, 2}
    Artifact = {k1, k2}
    MaxWorld = 5
    MaxObserved = 6
    Handle = {h1, h2}
    MaxSequence = 2
    Batch <- MCBatch
    NoReceipt = NoReceipt
    NoParent = NoParent
    Subject = {s1, s2}
    Value = {k1, k2}
    Producer = {"mapper", "stranger"}
    Authorized = {"mapper"}
    MaxFacts = 1
    NoFact = NoFact
    Caller = {k1, k2}
    Delivery = {d1}
    Candidate = {x, y}
    NoCandidate = NoCandidate
    MaxEvents = 4
    Source = {l1, l2}
    MaxStored = 4
    MaxDeaths = 2
    Writer = {k1, k2}
    MaxLines = 3
    MaxTears = 2
    Input <- MCInput
    NoFile = 0
    MaxBuilds = 4
    Stable = {e1, e2}
    Era = {g1, g2}
    Payload = {k1, k2}
    NoEnvelope = NoEnvelope
    NoEra = NoEra
    Member = {"one", "two"}
    Place = {1, 2, 3}
    MemberOf <- MCMemberOf
    MaxDepth = 2
    MaxNodes = 3
    Preparer = {k1, k2}
    Revision = {1, 2}
    NoSnapshot = NoSnapshot
    NoSidecar = NoSidecar
    MaxMoves = 2
    ContextItem <- MCContextItem
    Offer <- MCOffer
    ContextRequest <- MCContextRequest
    Authority <- MCAuthority
    BaseScope = "base"
    MaxViews = 2
    TimeToLive = 1
    MaxClock = 2
    Session = {k1, k2}
    Edition = {u1}
    Patch = {o1}
    PathName = {f, g}
    Text = {t1, t2}
    Layout <- MCLayout
    Asked <- MCAsked
    Lost = Lost
    MaxItems = 2
    MaxPackets = 1
    FactId = {1, 2}
    Fact = {f1, f2}
    Domain = {m1}
    Home = Home
    Abroad = Abroad
    AnyScope = AnyScope
    SizeOf <- MCSizeOf
    TrustOf <- MCTrustOf
    MaxSources = 3
    MaxBytes = 3
    Origin = {"short", "long"}
    CodeClaim <- MCCodeClaim
    f1 = f1
    Target = {"plain", "auth", "glob"}
    Vague = {"glob"}
    Sensitive = {"auth"}
    Degree = {1, 8}
    HubDegree = 8
    Amount = {1, 2}
    Unknown = Unknown
    ValidationKey = {1, 2}
    GenerationOf <- MCGenerationOf
    Outcome = {k1, k2}
    LeaseId = {lease}
    NoResult = NoResult
    MaxPuts = 3
    ContentKey = {1, 2}
    SourceFile = {1, 2}
    SourcesOf <- MCSourcesOf
    Reader = {k1, k2}
    NoContent = NoContent
    MaxVersion = 1
    PageKey = {1, 2, 3}
    BytesOf <- MCBytesOf
    SlotBytes = 2
    ResidentBytes = 3
    NoLoad = NoLoad
    Section = {1, 2}
    Release = {1, 2}
    SectionOf <- MCSectionOf
    Publisher = {k1, k2}
    PageReader = {r1}
    NoManifest = NoManifest
    NoPage = NoPage
    Identity = {1, 2, 3}
    HandleOf <- MCHandleOf
    Content = {"c", "d"}
    NoEntry = NoEntry
    FlightKey = {1, 2}
    Runner = {j1, j2, j3}
    MaxFlights = 1
    MaxWaiters = 2
    NoRun = NoRun
    Asker = {k1, k2}
    Closer = {z1}
    MaxStarts = 3
    NoAsk = NoAsk
INVARIANTS
    HiddenForItself
    OneWinner
    StoreSpeaksTrue
    AckedOrRefused
    PublishedReads
    NeverMixed
    PreparedIsPinned
    ReusedWasRepeated
    ContentIsFresh
    ViewIsItsOwn
    PagesKeepBudget
    CompleteIsCausal
    CompleteIsReachable
    PacketIsSound
    RanksOnlyRise
    FlightsAreShared
    SegmentsAreWhole
    ResolvesItsOwn
    AnswersItsOwn
PROPERTIES
    TemporalIsKept
    PacketIsCurrent
SYMMETRY Symmetry
CHECK_DEADLOCK FALSE
