\* Every pair of fields; two rows, there from the start or inserted meanwhile.
CONSTANTS
    r1 = r1  r2 = r2
    Rows = {r1, r2}
    MaxFaults = 2
SPECIFICATION FairSpec
INVARIANTS
    RecordedIsDone
    ExistingRowsFilled
PROPERTIES
    AddSucceeds
    
