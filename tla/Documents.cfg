\* The files of an installation, the dashboard, the command line and the
\* operator's editor, over three writes.
SPECIFICATION Spec

CONSTANTS
    None = None
    ta = ta
    sb = sb
    sc = sc
    m1 = m1
    m2 = m2
    m3 = m3
    pa = pa
    pb = pb
    pc = pc
    da = da
    ra = ra
    rb = rb
    rt = rt
    rd = rd
    rg = rg
    v1 = v1
    v2 = v2
    tok = tok
    Legacy = ta
    GatewayRef = rg
    Names = {ta, sb, sc}
    Secrets = {v1, v2}
    MaxEdits = 3
    External <- MCExternal
    PresetKey <- MCPresetKey
    First <- MCFirst
    Bodies <- MCBodies
    Rules <- MCRules
    Commands <- MCCommands
    Additions <- MCAdditions
    Ids <- MCIds
    Nodes <- MCNodes
    HandEdits <- MCHandEdits

\* The bound on writes stops a gateway that is down and cannot be loaded.
CHECK_DEADLOCK FALSE

INVARIANTS
    TypeOK
    RunsWhatLoads
    AlwaysLoads

PROPERTIES
    WritesStayLocal
    CredentialsIsolated
