\* A parent and its child, one request thread in each, a pooled alias
\* and the alias of _nodb_cursor(); Thread.start() may raise.
CONSTANTS
    p1 = p1  p2 = p2
    t1 = t1  t2 = t2
    db = db  other = other  nodb = nodb
    Procs = {p1, p2}
    Root = p1
    Threads = {t1}
    Aliases = {db, nodb}
    NoDbAlias = nodb
    PoolEnabled = {db, nodb}
    TestsOrMigrations = FALSE
    HeartbeatEnabled = TRUE
    ForkHook = TRUE
    StartMayFail = TRUE
    None = None
SPECIFICATION FairSpec
PROPERTIES
    HeldLocksAreReleased
