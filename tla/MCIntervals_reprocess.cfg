CONSTANTS
    None = None
    S = S
    MaxT = 3
SPECIFICATION SpecReprocess
PROPERTY ReprocessCoversViewChange
CHECK_DEADLOCK FALSE
