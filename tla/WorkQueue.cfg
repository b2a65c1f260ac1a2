CONSTANTS
    Items = {i1, i2, i3}
    Reconcilers = {r1, r2}
    None = None
SPECIFICATION Spec
SYMMETRY Symmetry
INVARIANTS QueueMatchesSet KnownOnce ExclusiveProcessing
PROPERTY ImplementsWorkSet
\* A panic, or the shutdown of every reconciler, ends the system.
CHECK_DEADLOCK FALSE
