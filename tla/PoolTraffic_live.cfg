\* PRE_PING off, POOL_SIZE 2 and no overflow, one request thread that may never
\* return its connection.
CONSTANTS
    c1 = c1  c2 = c2  c3 = c3
    beat = beat  warm = warm
    r1 = r1  r2 = r2  r3 = r3  r4 = r4
    Clients = {c1}
    Heartbeat = beat
    Warmer = warm
    Records = {r1, r2}
    PoolSize = 2
    PrePing = FALSE
    None = None
SPECIFICATION FairSpec
PROPERTIES
    WarmUpEnds
    HeartbeatReturns
