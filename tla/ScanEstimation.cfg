SPECIFICATION FairSpec
CONSTANTS
    a1 = a1
    a2 = a2
    Assets = {a1, a2}
    MaxFaults = 2
INVARIANTS
    SuccessMeansAllEstimated
    AbortReachesAll
PROPERTIES
    AbortEnds
    
    EndedIsDeleted
CHECK_DEADLOCK FALSE
