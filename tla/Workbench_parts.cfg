CONSTANTS
    a1 = a1
    a2 = a2
    b1 = b1
    b2 = b2
    c1 = c1
    c2 = c2
    n1 = n1
    n2 = n2
    t1 = t1
    t2 = t2
    w1 = w1
    w2 = w2
    ann = ann
    k1 = k1
    k2 = k2
    k3 = k3
    q1 = q1
    g1 = g1
    g2 = g2
    facts = facts
    gap = gap
    None = None
    Cases = {a1, a2}
    Names = {n1, n2}
    SameParty <- Spellings
    Requests = {c1, c2}
    PartyLists <- TwoSides
    Actors = {b1, b2}
    Local = FALSE
    MaxChecks = 3
    NoTurn = NoTurn
    Submissions = {a1, a2, w1}
    Streaming = {a1, a2, w1}
    Outlive = FALSE
    Colleagues = {ann, k1}
    Editors = {ann}
    Approvers = {ann, k1}
    Items = {n1}
    Contents <- FactsAndQuotes
    Patches <- OneField
    CitesPage <- FactsAndQuotes
    Wordings = {c1, c2, w1}
    Quoted <- Quotations
    RestWording = w1
    Nobody = Nobody
    Unsent = Unsent
    Nothing = Nothing
    Unused = Unused
    Deleted = Deleted
    MaxWrites = 2
    Staff = {ann, k1, k2}
    Managers = {ann}
    Reviewers = {k2}
    Workers = {ann, k1}
    Tasks = {t1}
    Days = {w1}
    Unassigned = Unassigned
    NoDay = NoDay
    NoTask = NoTask
    Legacy = Legacy
    MaxEvents = 4
    Holders = {ann}
    Browsers = {k1}
    Tokens = {a1, a2}
    HolderOf <- OneHolder
    SessionIds = {b1, b2}
    Flows = {c1, c2}
    LoginLimit = 1
    StartLimit = 2
    Capacity = 1
    Window = 2
    FlowTTL = 2
    MaxClock = 3
    NoOne = NoOne
    Clients = {k1, k2, k3}
    RequestIds = {q1}
    Digests = {g1, g2}
    IdOf <- OneId
    DigestOf <- TwoRequests
    NoClaim = NoClaim
    NoRun = NoRun
    NoCall = NoCall
    Unbound = Unbound
    MaxRuns = 2
    Readers = {a1, a2}
    Pages = {b1, b2}
    Texts = {t1, t2}
    Spaces = {"remote", "local"}
    LocalSpace = "local"
    NoVector = NoVector
    NoSearch = NoSearch
    Specialists = {facts, gap}
    DependsOn <- GapReadsFacts
    Plans <- WithAndWithoutGap
    CaseStates = {w1, w2}
    NoRequest = NoRequest
    NoSession = NoSession
    ToolRounds = 3
SPECIFICATION Spec
CHECK_DEADLOCK FALSE
SYMMETRY WorkbenchSymmetry
INVARIANTS
    ConflictSeenByOneSide
    NeverOwnDecision
    ApprovalBindsContent
    ConfirmedQuoteStands
    EventsTellTheTask
    AttemptsAreExact
    OutdatedSessionIsDead
    OneRunPerRequest
    VectorsAreOfTheQuery
    CompletedIsWhole
    ModelAnswerMeetsContract
    CriticCallsAreAccounted
PROPERTIES
    SubmitsOnce
