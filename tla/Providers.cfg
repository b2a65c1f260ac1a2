CONSTANT MaxFaults = 2
SPECIFICATION ProviderFairSpec

    
    
    
PROPERTY
    CallsEnd
CHECK_DEADLOCK FALSE
