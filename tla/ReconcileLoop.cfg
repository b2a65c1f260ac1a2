CONSTANTS
    Items = {i1, i2, i3}
    Reconcilers = {r1}
    None = None
SPECIFICATION FairSpec
INVARIANT NoPanic
PROPERTIES QueuedIsServed RequeuedComesBack ShutdownEnds
\* After the shutdown nothing is left to do.
CHECK_DEADLOCK FALSE
