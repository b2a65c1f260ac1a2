SPECIFICATION FairSpec
CONSTANTS
    NFamilies = 3
    Input <- MCInput
    MaxFaults = 1
INVARIANTS
    ReportIsTrue
    OneFamilyAtATime
PROPERTIES
    AbortEndsScanner
    ImplementsScanner
\* The scanner ends.
CHECK_DEADLOCK FALSE
