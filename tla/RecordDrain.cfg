\* A write fails while others are queued behind it, then the store is closed.
CONSTANTS
    q1 = q1
    q2 = q2
    v1 = v1
    v2 = v2
    c1 = c1
    None = None
    Requests <- MCOneRequest
    Configs <- MCOneConfig
    Callers <- MCCallers
    QueueSize = 2
    MaxRequests = 1
    PruneInterval = 256
    MaxPublished = 1
    MaxRestarts = 0
SPECIFICATION Spec
CHECK_DEADLOCK FALSE
INVARIANT AcceptedJobsRun
