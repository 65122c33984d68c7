CONSTANTS
    p1 = p1
    p2 = p2
    Procs <- MCProcs
    TagOrder <- MCTagOrder
    QueryTags = {"Name"}
    Keys = {"k"}
    MaxNum = 2
    MaxOps = 3
    MaxFaults = 1
SPECIFICATION MCSpec
SYMMETRY Symmetry
INVARIANTS
    
    BlobsIntact
CHECK_DEADLOCK FALSE
