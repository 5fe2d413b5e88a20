\* Two dashboards that race with the CLI and with an overlay edit, on two files;
\* the steps of whoever holds the lock are fair.
CONSTANTS
    models = models
    overlay = overlay
    c1 = c1
    c2 = c2
    s1 = s1
    o1 = o1
    t1 = t1
    None = None
    Down = Down
    Torn = Torn
    Files <- MCFiles
    Tracked <- MCTracked
    OverlayFile = overlay
    Clients <- MCTwoClients
    Strategies <- MCStrategies
    Overlays <- MCOverlays
    Clis <- MCClis
    MaxUpdates = 2
SPECIFICATION FairSpec
INVARIANT TypeOK
PROPERTIES
    AppliesAtomically
    RuntimeFollowsDisk
    LockIsReleased
