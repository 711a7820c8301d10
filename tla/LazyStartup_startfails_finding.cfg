\* Thread.start() may raise: a later connection finds the alias in _threads.
CONSTANTS
    p1 = p1  p2 = p2
    t1 = t1  t2 = t2
    db = db  other = other  nodb = nodb
    Procs = {p1}
    Root = p1
    Threads = {t1, t2}
    Aliases = {db}
    NoDbAlias = nodb
    PoolEnabled = {db}
    TestsOrMigrations = FALSE
    HeartbeatEnabled = TRUE
    ForkHook = TRUE
    StartMayFail = TRUE
    None = None
SPECIFICATION Spec
INVARIANTS
    ConnectionHasHeartbeat
