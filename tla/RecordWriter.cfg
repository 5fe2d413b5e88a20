\* Two requests, a caller, an activation and a restart; a queue of two jobs, so
\* that their order matters, and pruning at every third write. The writer and
\* close() are fair.
CONSTANTS
    q1 = q1
    q2 = q2
    v1 = v1
    v2 = v2
    c1 = c1
    None = None
    Requests <- MCRequests
    Configs <- MCOneConfig
    Callers <- MCCallers
    QueueSize = 2
    MaxRequests = 1
    PruneInterval = 3
    MaxPublished = 1
    MaxRestarts = 1
SPECIFICATION FairSpec
CHECK_DEADLOCK FALSE
INVARIANTS
    TypeOK
    EvidenceBounded
PROPERTIES
    EvidenceStaysTogether
    KeepsOrder
    CallersAnswered
    CloseReturns
