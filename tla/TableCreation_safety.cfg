\* Two wrappers take turns on one session, in one time zone, and one of them
\* creates the table.  Three objects and three keys: two saves and a third actor
\* that inserts, deletes or flushes between their statements.
CONSTANTS
    w1 = w1  w2 = w2
    s1 = s1
    local = local
    o1 = o1  o2 = o2  o3 = o3
    None = None
    Wrappers = {w1, w2}
    Sessions = {s1}
    Zones = {local}
    Default = local
    Autocommit = TRUE
    Objects = {o1, o2, o3}
    Keys = {1, 2, 3}
SPECIFICATION BoundedSpec
SYMMETRY Interchangeable
VIEW WhatMatters
INVARIANTS
    TypeOK
    WrongKeyOnlyByOverlap
    ObjectsNameTheirRow
    PreparedTablesAreSafe
