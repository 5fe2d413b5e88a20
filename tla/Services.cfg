SPECIFICATION Spec
CONSTANTS
    None = None
    k1 = k1
    k2 = k2
    e1 = e1
    Requests = {r1, r2, r3}
    Objects = {1, 2}
    Limit = 2
    QueueSize = 2
    Contents <- MCContents
    Earlier <- MCEarlier
    Histories <- MCHistories
    Readers = {a1, a2}
    Sources = {s1}
    CacheTtl = 3
    RefreshInterval = 1
    MaxAges = {0, 2, 3}
    MaxTime = 4
    MaxVersion = 1
    Operators = {o1, o2}
    Pids = {p1, p2}
    MaxTokens = 2
    Top = 3
    Bases <- MCBases
    Sections <- MCSections
    Collections <- MCCollections
    Unknown = Unknown
    Sessions = {1, 2}
    PageSize = 1
    MaxRetained = 1
    MaxRows = 3
    MaxNow = 1
SYMMETRY MCSymmetry
INVARIANTS
    TypeOK
    RemembersTurns
    AnswersHonestly
    GatewaysAreRecorded
    EffortFits
    PagesAreComplete
PROPERTIES
    ReportsAreReal
