CONSTANT MaxFaults = 1
SPECIFICATION CloudSpec
PROPERTY ServerErrorIsRetried
CHECK_DEADLOCK FALSE
