CONSTANTS
    Assets = {a1, a2}
    MaxParallelScanners = 1
    DeleteJobPolicy = "OnSuccess"
    MaxFaults = 2
    None = None
SPECIFICATION BoundedSpec
INVARIANTS ParallelBound  
PROPERTIES    EveryScanEnds ResourcesAreReleased
\* The Scan is over and its resources are released.
CHECK_DEADLOCK FALSE
