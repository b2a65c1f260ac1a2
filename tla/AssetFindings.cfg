SPECIFICATION FairProcessorSpec
CONSTANTS
    a1 = a1
    k1 = k1
    Assets = {a1}
    Target = a1
    NScans = 3
    Sec <- MCSec
    Keys = {k1, k2}
    k2 = k2
    SubSecond = FALSE
    MaxFaults = 1
INVARIANTS
    
    InvalidatedByTheNext
    NewestStaysActive
    SummaryIsRight

    
CHECK_DEADLOCK FALSE
