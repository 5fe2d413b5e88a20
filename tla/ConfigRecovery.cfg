\* Writing the recovery file fails after it is in place.
CONSTANTS
    models = models
    overlay = overlay
    c1 = c1
    c2 = c2
    s1 = s1
    o1 = o1
    t1 = t1
    None = None
    Down = Down
    Torn = Torn
    Files <- MCFiles
    Tracked <- MCTracked
    OverlayFile = overlay
    Clients <- MCOneClient
    Strategies <- MCStrategies
    Overlays <- MCOverlays
    Clis <- MCClis
    MaxUpdates = 2
SPECIFICATION Spec
PROPERTY RecoveryOnlyAfterFailedRestore
