\* Two wrappers take turns on one pooled session, two time zones.
CONSTANTS
    w1 = w1  w2 = w2
    s1 = s1
    utc = utc  local = local
    None = None
    Wrappers = {w1, w2}
    Sessions = {s1}
    Zones = {utc, local}
    Default = local
    Autocommit = FALSE
SPECIFICATION FairSpec
INVARIANTS
    TypeOK
    MarksTellTheTruth
    PreparedIsConfigured
PROPERTIES
    DeadSessionIsReplaced
