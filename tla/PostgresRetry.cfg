SPECIFICATION ProcessorSpec
CONSTANTS
    a1 = a1
    k1 = k1
    Assets = {a1}
    Target = a1
    NScans = 2
    Sec <- MCTwoScans
    Keys = {k1}
    SubSecond = TRUE
    MaxFaults = 1
INVARIANTS
    NewestStaysActive
CHECK_DEADLOCK FALSE
