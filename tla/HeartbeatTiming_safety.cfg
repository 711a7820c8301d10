\* Two workers; the interval, the ping and one failed ping just fit; the threshold is
\* longer than AUTO_SUSPEND.
CONSTANTS
    w1 = w1  w2 = w2
    Workers = {w1, w2}
    Interval = 1
    Idle = 6
    AutoSuspend = 5
    MaxPing = 1
    MaxFailures = 1
SPECIFICATION FairSpec
INVARIANTS
    TypeOK
    ActiveWarehouseStaysWarm
    QuietWarehouseSuspends
PROPERTIES
    QueryResumesHeartbeat
