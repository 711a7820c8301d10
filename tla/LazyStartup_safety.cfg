\* Two request threads in a parent and in its child, one pooled alias.
CONSTANTS
    p1 = p1  p2 = p2
    t1 = t1  t2 = t2
    db = db  other = other  nodb = nodb
    Procs = {p1, p2}
    Root = p1
    Threads = {t1, t2}
    Aliases = {db}
    NoDbAlias = nodb
    PoolEnabled = {db}
    TestsOrMigrations = FALSE
    HeartbeatEnabled = TRUE
    ForkHook = TRUE
    StartMayFail = FALSE
    None = None
SPECIFICATION Spec
SYMMETRY Interchangeable
INVARIANTS
    TypeOK
    AtMostOneHeartbeat
    ConnectionsShareThePool
    ConnectionHasHeartbeat
    LookupsSucceed
    ExitStopsBackground
PROPERTIES
    NewConnectionsAreOwn
    ImplementsServices
