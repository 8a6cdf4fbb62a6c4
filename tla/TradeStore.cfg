SPECIFICATION StoreSpec
CONSTANTS
    fill = fill
    flip = flip
    other = other
    w1 = w1
    w2 = w2
    Cli = Cli
    Transactions = {fill, flip, other}
    RowCount <- MCRowCount
    Workers = {w1, w2}
    UnlockedReaders = {}
    ReadFaults = FALSE
    GapWindows = FALSE
    MaxLog = 3
    MaxFaults = 2
    MaxBackfills = 1
    Trades = {1}
    MinMove = 2
    Spread = 1
    MaxBid = 3
    MaxMinute = 2
    MaxHandled = 2
    MaxLost = 1
INVARIANTS
    TypeOK
    EventsHaveRaw
    WatermarkComplete
    ExcursionsKept
    ReportCoversSamples
PROPERTIES
    WatermarkMonotone
    MirrorsLedger
