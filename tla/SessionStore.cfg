\* No lag between the clocks, so that sessions do expire (with the lag of the
\* gateway they never do, see SessionTtlClocks.cfg). Three requests over two
\* conversations, so that an outcome of the first can meet a decision of the
\* second and the intake of the third, under limits that reloads change.
CONSTANTS
    s1 = s1
    s2 = s2
    r1 = r1
    r2 = r2
    r3 = r3
    small = small
    large = large
    None = None
    Sids <- MCSids
    Requests <- MCRequests
    Routes <- MCRoutes
    Ttls <- MCTtls
    Limits <- MCLimits
    DefaultTtl = 1
    DefaultLimit = 2
    ClockLag = 0
    MaxClock = 2
SPECIFICATION Spec
SYMMETRY Symmetric
CHECK_DEADLOCK FALSE
INVARIANTS
    TypeOK
    WithinLimits
    IntakeBookkeeping
PROPERTIES
    NoLostUpdate
    SwitchLeavesCurrentRoute
    DecisionLeavesSession
