\* A test database and the clones of two workers; two versions of the code,
\* two statements that fail.
CONSTANTS
    main = main  c1 = c1  c2 = c2
    Names <- TwoWorkers
    MaxCode = 2
    MaxFaults = 2
    None = None
SPECIFICATION FairSpec
INVARIANTS
    SchemaIsMadeInside
    TestsRunOnNewest
PROPERTIES
    KeptDatabasesSurvive
    RunsRecover
