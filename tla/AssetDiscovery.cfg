SPECIFICATION FairSpec
CONSTANTS
    a1 = a1
    a2 = a2
    k1 = k1
    Assets = {a1, a2}
    Target = a1
    NScans = 1
    Sec <- MCOneScan
    Keys = {k1}
    SubSecond = FALSE
    MaxFaults = 2
PROPERTIES
    FoundIsNotTerminated
    GoneIsTerminated
CHECK_DEADLOCK FALSE
