SPECIFICATION ServiceFairSpec
CONSTANTS
    Parts = {"filing", "intake", "rights", "streams"}
    Messages <- SomeMessages
    Joins <- SomeJoins
    People <- SomePeople
    Author <- Authors
    Joined <- Announced
    RepliesTo <- Replies
    Private = {"dm"}
    Calls <- SomeCalls
    Ingestions <- SomeIngestions
    Scenes <- SomeScenes
    Erased <- SomeErased
    MaxCutShort = 1
    None = None
    Free = Free
    MaxUpdate = 3
    Depth = 2
    Memory = 2
    MaxRuns = 3
    MaxMishaps = 2
    MaxUpdates = 0
    MaxFaults = 0
    Joiners = 1
    Writers = {}
    Authorities = {1}
    MaxLedger = 0
    MaxEach = 0
    Persons = {p1}
    Slots = {s1, s2}
    NoPerson = NoPerson
    MaxIds = 2
    MaxAsks = 4
    MaxErasures = 2
    MaxFailures = 1
    BusDepth = 1
    MaxStreams = 2
    MaxSettles = 2
    MaxForcedEnds = 1
    MaxOthers = 1
    SendCalls = {c1}
    CarrierDepth = 2
    MaxTerminals = 2
    Ttl = 4
    Margin = 1
    Quiet = 2
    Never = Never
    MaxIncidents = 0
    MaxCompactions = 0
    WakeDepth = 2
    MaxRounds = 3
    MaxChunks = 3
    Attempts = 3
    Shapes = {"status", "body"}
    MaxRequests = 0
    Cap = 1
    Span = 1
    MaxNow = 0
    Pages = {1, 2}
    PageRows = {NoRows, rows1}
    NoRows = NoRows
    CacheTtl = 2
    CacheCap = 2
    Unopened = Unopened
    Written = {}
    Wordings = {1}
    MaxSent = 4
    MaxReruns = 1
    MaxReplaced = 1
    MaxErased = 1
    Answers = {}
    Chunks = 2
    MaxReplies = 0
    Intakes = 1
    MaxThreads = 1
    MaxRefused = 1
    Rooms = {m1}
    Newcomers = {n1}
    MaxBlocks = 0
    MaxRound = 1
    MaxTurnovers = 0
    Deployed = {1}
    Ledgers <- SomeLedgers
    MaxStarts = 0
    MaxSays = 1
    MaxResets = 0
INVARIANTS OneFilingEach NamesGone TakenOnce SettleTruthful
PROPERTIES NoMarkBesideReport EveryHoldEnds EveryUpdateTaken ShutdownEnds NotMarkedForEver
CHECK_DEADLOCK FALSE
