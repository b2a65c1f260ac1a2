SPECIFICATION FairSpec
CONSTANTS
    PollPeriod = 2
    Crons <- MCCrons
    MaxTime = 5
    MaxScans = 2
    MaxEdits = 1
    MaxFaults = 1
INVARIANTS
    
    OneScanPerTime
    
PROPERTY
    OneShotIsRetired
CHECK_DEADLOCK FALSE
