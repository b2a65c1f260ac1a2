CONSTANTS
    Items = {i1, i2}
    Reconcilers = {r1}
    None = None
SPECIFICATION FairSpec
PROPERTY EveryQueuedItemIsServed
CHECK_DEADLOCK FALSE
