\* POOL_SIZE 2 and MAX_OVERFLOW 2, two request threads, PRE_PING on.
CONSTANTS
    c1 = c1  c2 = c2  c3 = c3
    beat = beat  warm = warm
    r1 = r1  r2 = r2  r3 = r3  r4 = r4
    Clients = {c1, c2}
    Heartbeat = beat
    Warmer = warm
    Records = {r1, r2, r3, r4}
    PoolSize = 2
    PrePing = TRUE
    None = None
SPECIFICATION Spec
SYMMETRY Interchangeable
INVARIANTS
    TypeOK
    NothingLeaks
    FailedPingIsNotReused
    WarmedPoolIsFull
PROPERTIES
    OverflowIsForRequests
