SPECIFICATION ServiceSpec
CONSTANTS
    Parts = {"contact", "debts", "rights", "composing", "auto",
             "capture", "wire", "revisions", "retraction", "search",
             "disclosure", "deployments"}
    Messages <- SomeMessages
    Joins <- SomeJoins
    People <- SomePeople
    Author <- Authors
    Joined <- Announced
    RepliesTo <- Replies
    Private = {"dm"}
    Calls <- SomeCalls
    Ingestions <- SomeIngestions
    Scenes <- SomeScenes
    Erased <- SomeErased
    MaxCutShort = 1
    None = None
    Free = Free
    MaxUpdate = 3
    Depth = 2
    Memory = 2
    MaxRuns = 3
    MaxMishaps = 2
    MaxUpdates = 4
    MaxFaults = 1
    Joiners = 2
    Writers = {w1, w2}
    Authorities = {1, 2}
    MaxLedger = 4
    MaxEach = 1
    Persons = {p1, p2}
    Slots = {s1, s2}
    NoPerson = NoPerson
    MaxIds = 3
    MaxAsks = 4
    MaxErasures = 2
    MaxFailures = 0
    BusDepth = 1
    MaxStreams = 2
    MaxSettles = 2
    MaxForcedEnds = 1
    MaxOthers = 1
    SendCalls = {c1, c2}
    CarrierDepth = 2
    MaxTerminals = 2
    Ttl = 4
    Margin = 1
    Quiet = 2
    Never = Never
    MaxIncidents = 1
    MaxCompactions = 2
    WakeDepth = 2
    MaxRounds = 3
    MaxChunks = 3
    Attempts = 3
    Shapes = {"status", "body"}
    MaxRequests = 3
    Cap = 1
    Span = 1
    MaxNow = 2
    Pages = {1, 2}
    PageRows = {NoRows, rows1}
    NoRows = NoRows
    CacheTtl = 2
    CacheCap = 2
    Unopened = Unopened
    Written = {1}
    Wordings = {1, 2}
    MaxSent = 4
    MaxReruns = 1
    MaxReplaced = 1
    MaxErased = 1
    Answers = {1}
    Chunks = 2
    MaxReplies = 2
    Intakes = 1
    MaxThreads = 4
    MaxRefused = 1
    Rooms = {m1, m2}
    Newcomers = {n1, n2}
    MaxBlocks = 4
    MaxRound = 2
    MaxTurnovers = 1
    Deployed = {1, 2}
    Ledgers <- SomeLedgers
    MaxStarts = 3
    MaxSays = 2
    MaxResets = 1
INVARIANTS OnlyAskersErased NotesAgree DebtStands AdmittedAtMinimum CueTruthful
           UnattendedKept CaptureTruthful ReportMatchesChat BudgetKept
           SearchTruthful VersionsTruthful RetractionWhole IntroducedOnce
           ServesCurrent ContractTold
PROPERTIES ObjectionOutlives RulesAheadOfMessages
CHECK_DEADLOCK FALSE
