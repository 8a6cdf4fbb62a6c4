SPECIFICATION Spec
CONSTANTS
    Instruments <- MCInstruments
    AlertSpec <- MCAlerts
    QueueMax = 2
    MaxPrice = 2
    Spread = 0
    MaxTicks = 3
    MaxFaults = 1
    MaxRestarts = 1
PROPERTIES
    ClearedStays
CHECK_DEADLOCK FALSE
