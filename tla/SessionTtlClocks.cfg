\* The store as load_gateway_config builds it: its clock is time.monotonic while
\* the engine stamps sessions with time.time, which reads more.
CONSTANTS
    s1 = s1
    s2 = s2
    r1 = r1
    r2 = r2
    r3 = r3
    small = small
    large = large
    None = None
    Sids <- MCSids
    Requests <- MCTwoRequests
    Routes <- MCRoutes
    Ttls <- MCOneTtl
    Limits <- MCOneLimit
    DefaultTtl = 1
    DefaultLimit = 1
    ClockLag = 3
    MaxClock = 2
SPECIFICATION Spec
CHECK_DEADLOCK FALSE
PROPERTY IdleSessionNotContinued
