\* Two requests, streamed or not, room for one in the registry, fair threads.
CONSTANTS
    q1 = q1
    q2 = q2
    Requests <- MCRequests
    ActivityLimit = 1
    MaxChunks = 1
SPECIFICATION FairSpec
INVARIANTS
    TypeOK
    OneOutcome
    SuccessIsDelivered
    ClosedAfterRead
    RegistryIsTrue
PROPERTY StreamsSettle
